--------------------------- MODULE TopicConsumption ---------------------------
(***************************************************************************)
(* What the consumers of a topic promise its publishers, without the       *)
(* sessions, channels and marks that keep the promise: each partition is   *)
(* handled in its order, a message is handled at least once before it is   *)
(* acknowledged, no acknowledgement is taken back, and messages are passed *)
(* over only where nothing of the partition is acknowledged yet.           *)
(***************************************************************************)
EXTENDS Naturals, Sequences

CONSTANTS
    Partitions,     \* the partitions of the topic
    Messages        \* what can be published

VARIABLES
    log,        \* log[p]: the messages in partition p
    handled,    \* handled[p]: offsets of messages handled to their end
    passed,     \* passed[p]: offsets that the consumers have passed over
    committed   \* committed[p]: how many messages of p are acknowledged

vars == <<log, handled, passed, committed>>

Offsets(n) == 0 .. n - 1

\* All before offset n is behind the consumers.
Behind(p, n) == Offsets(n) \subseteq handled[p] \cup passed[p]

Init ==
    /\ log = [p \in Partitions |-> <<>>]
    /\ handled = [p \in Partitions |-> {}]
    /\ passed = [p \in Partitions |-> {}]
    /\ committed = [p \in Partitions |-> 0]

Publish(p) ==
    /\ \E m \in Messages : log' = [log EXCEPT ![p] = Append(@, m)]
    /\ UNCHANGED <<handled, passed, committed>>

\* A message is handled, or handled again, after those before it.
Handle(p) ==
    /\ \E o \in Offsets(Len(log[p])) :
          /\ Behind(p, o)
          /\ handled' = [handled EXCEPT ![p] = @ \cup {o}]
    /\ UNCHANGED <<log, passed, committed>>

\* The consumers acknowledge what is behind them.
Commit ==
    /\ committed' \in [Partitions -> Nat]
    /\ \A p \in Partitions :
          committed[p] <= committed'[p] /\ Behind(p, committed'[p])
    /\ UNCHANGED <<log, handled, passed>>

\* Where nothing is acknowledged the consumers may begin with what is to come.
Join ==
    /\ passed' \in [Partitions -> SUBSET Nat]
    /\ \A p \in Partitions :
          \/ passed'[p] = passed[p]
          \/ committed[p] = 0 /\ passed'[p] = Offsets(Len(log[p]))
    /\ UNCHANGED <<log, handled, committed>>

Next == (\E p \in Partitions : Publish(p) \/ Handle(p)) \/ Commit \/ Join

Spec == Init /\ [][Next]_vars
=============================================================================
