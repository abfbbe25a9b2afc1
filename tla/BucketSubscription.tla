-------------------------- MODULE BucketSubscription --------------------------
(***************************************************************************)
(* What the ObjectBucketSources promise their users, without the operator  *)
(* that keeps the promise: a subscriber wants certain events of certain    *)
(* buckets, the object storage notifies of some set of events, and an      *)
(* acknowledged subscriber (BucketNotificationSet=True) is one whose events *)
(* are all notified of. The storage is reconfigured for one subscriber     *)
(* without taking an event from another acknowledged one.                  *)
(***************************************************************************)
CONSTANTS
    Subscribers,    \* the ObjectBucketSources
    Buckets,        \* the buckets
    Events          \* the event types

VARIABLES
    want,       \* want[s]: the pairs of a bucket and an event that s wants
    acked,      \* the subscribers that are told they are subscribed
    notified    \* the pairs of a bucket and an event that are notified of

vars == <<want, acked, notified>>

TypeOK ==
    /\ want \in [Subscribers -> SUBSET (Buckets \X Events)]
    /\ acked \in SUBSET Subscribers
    /\ notified \in SUBSET (Buckets \X Events)

Init ==
    /\ want = [s \in Subscribers |-> {}]
    /\ acked = {}
    /\ notified = {}

\* A subscriber comes, goes or wants something else.
Change(s) ==
    /\ \E w \in SUBSET (Buckets \X Events) : want' = [want EXCEPT ![s] = w]
    /\ acked' = acked \ {s}
    /\ UNCHANGED notified

\* The storage is configured anew for one bucket.
Configure(b) ==
    /\ \E es \in SUBSET Events :
          notified' = {p \in notified : p[1] # b} \cup ({b} \X es)
    /\ \A s \in acked : want[s] \subseteq notified'
    /\ UNCHANGED <<want, acked>>

Acknowledge(s) ==
    /\ want[s] \subseteq notified
    /\ acked' = acked \cup {s}
    /\ UNCHANGED <<want, notified>>

Retract(s) ==
    /\ acked' = acked \ {s}
    /\ UNCHANGED <<want, notified>>

\* A bucket is gone, and with it the acknowledgements of its subscribers, of
\* those included that refer to it and want none of its events.
Withdraw(b) ==
    /\ notified' = {p \in notified : p[1] # b}
    /\ acked' \in SUBSET {s \in acked : \A p \in want[s] : p[1] # b}
    /\ UNCHANGED want

Next ==
    \/ \E s \in Subscribers : Change(s) \/ Acknowledge(s) \/ Retract(s)
    \/ \E b \in Buckets : Configure(b) \/ Withdraw(b)

Spec == Init /\ [][Next]_vars

\* An acknowledged subscriber is notified of everything it wants: what the
\* condition BucketNotificationSet=True tells the user.
AckIsHonest == \A s \in acked : want[s] \subseteq notified
=============================================================================
