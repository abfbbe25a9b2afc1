------------------------- MODULE NotificationDispatch -------------------------
(***************************************************************************)
(* How a bucket notification gets from its transport to the sinks:         *)
(* notificationserver/handler.go and consumer.go, eventmatch/match.go and  *)
(* cloudevents/dispatch.go of internal/objectbucketsource.                 *)
(*                                                                         *)
(* A runner of NotificationServer either serves HTTP requests or consumes  *)
(* the partitions of a Kafka topic; mode says which. Each request and each *)
(* claimed partition is a goroutine that processes one payload at a time.  *)
(* Its steps are the ones between which the sources, the session or        *)
(* another goroutine can move: the List of the sources and every dispatch. *)
(*                                                                         *)
(* The consumer group is the one of sarama: a session fetches messages     *)
(* into the channel of each claim, commits the marked offsets now and then *)
(* and at its end, and starts from the committed offset, or from the       *)
(* newest message when there is none. When it ends its context is          *)
(* cancelled, and the claims' loops drain their channels.                  *)
(*                                                                         *)
(* Abstractions.                                                           *)
(*  - A payload is malformed (it is no JSON), or the set of its data       *)
(*    records: bucket and event name. Records without one are left out,    *)
(*    and so are test events (HandleTestEvent of ObjectBucketSource).      *)
(*  - An event name is the sequence of its parts; a pattern is such a      *)
(*    sequence, with or without the final *. The prefix s3: is left out.   *)
(*  - Dispatching to an HTTP sink fails when the context is cancelled; the *)
(*    Kafka producer does not look at it.                                  *)
(***************************************************************************)
EXTENDS Integers, Sequences, FiniteSets, SequencesExt

CONSTANTS
    Sources,        \* the ObjectBucketSources of all namespaces
    Specs,          \* what they can be: [claim, events, sink]
    NoSpec,         \* the source does not exist
    BucketOf,       \* BucketOf[c]: BUCKET_NAME in the ConfigMap of claim c
    Payloads,       \* the payloads that the storage sends
    Malformed,      \* the one that is no JSON
    Partitions,     \* the partitions of the notifications topic
    Requests,       \* HTTP requests at a time
    MaxPayloads,    \* payloads sent
    Limit           \* how often each disturbance may happen

Disturbances == {"source", "fault", "session", "crash"}

ASSUME DispatchAssumption ==
    /\ NoSpec \notin Specs
    /\ Partitions \cap Requests = {}
    /\ MaxPayloads \in Nat
    /\ Limit \in [Disturbances -> Nat]

\* The names of events, and the patterns for them, are sequences of strings.
ASSUME NamesAssumption ==
    /\ \A spec \in Specs : \A e \in spec.events :
          e.any \in BOOLEAN /\ e.parts \in Seq(STRING)
    /\ \A x \in Payloads \ {Malformed} : \A r \in x : r.name \in Seq(STRING)

VARIABLES
    mode,       \* "http" or "kafka"
    producer,   \* whether the runner has a Kafka producer for kafka: sinks
    sources,    \* the sources in the informer's store
    handler,    \* handler[h]: what the goroutine of request or claim h does
    log,        \* log[p]: the payloads in partition p
    fetched,    \* fetched[p]: offset up to which p's channel was filled
    position,   \* position[p]: offset of the next message in p's channel
    marked,     \* marked[p]: the offset the session has marked
    committed,  \* committed[p]: the offset the group has committed
    session,    \* "none", "open" or "closing"
    done,       \* done[p]: offsets that have been processed
    skipped,    \* skipped[p]: offsets that a session started behind
    spent       \* spent[k]: how often disturbance k has happened

groupVars == <<log, fetched, position, marked, committed, session, done,
               skipped>>
vars == <<mode, producer, sources, handler, groupVars, spent>>

NoOffset == -1

Handlers == Partitions \cup Requests

NoHandler ==
    [ pc |-> "idle", payload |-> {}, cancelled |-> FALSE, listed |-> NoSpec,
      todo |-> {}, sent |-> {}, lost |-> {} ]

Spend(k) ==
    /\ spent[k] < Limit[k]
    /\ spent' = [spent EXCEPT ![k] = @ + 1]

Init ==
    /\ mode \in {"http", "kafka"}
    /\ producer \in BOOLEAN
    /\ mode = "kafka" => producer
    /\ sources \in [Sources -> Specs \cup {NoSpec}]
    /\ handler = [h \in Handlers |-> NoHandler]
    /\ log = [p \in Partitions |-> <<>>]
    /\ fetched = [p \in Partitions |-> 0]
    /\ position = [p \in Partitions |-> 0]
    /\ marked = [p \in Partitions |-> NoOffset]
    /\ committed = [p \in Partitions |-> NoOffset]
    /\ session = "none"
    /\ done = [p \in Partitions |-> {}]
    /\ skipped = [p \in Partitions |-> {}]
    /\ spent = [k \in Disturbances |-> 0]

-----------------------------------------------------------------------------
(* processNotification and dispatchDataEvents, in any goroutine.           *)

MatchEvent(pattern, name) ==
    IF pattern.any THEN IsPrefix(pattern.parts, name) ELSE pattern.parts = name

\* The records for a source: the bucket's name is compared with the claim's.
Matched(spec, payload) ==
    {r \in payload : /\ r.bucket = spec.claim
                     /\ \E e \in spec.events : MatchEvent(e, r.name)}

Set(h, r) == handler' = [handler EXCEPT ![h] = r]

\* json.Unmarshal of the payload and its records.
Parse(h) ==
    /\ handler[h].pc = "parse"
    /\ Set(h, [handler[h] EXCEPT
                 !.pc = IF handler[h].payload \in {Malformed, {}} THEN "end"
                        ELSE "list"])
    /\ UNCHANGED <<mode, producer, sources, groupVars, spent>>

\* The List, from the informer's store, and the sources with matches.
List(h) ==
    /\ handler[h].pc = "list"
    /\ LET listed == {s \in Sources : sources[s] # NoSpec} IN
         Set(h, [handler[h] EXCEPT
                   !.pc = "dispatch", !.listed = sources,
                   !.todo = {s \in listed :
                       Matched(sources[s], handler[h].payload) # {}}])
    /\ UNCHANGED <<mode, producer, sources, groupVars, spent>>

\* DispatchEventToKafka or DispatchEvent, of all records for one source.
Deliver(h, s) ==
    LET records == Matched(handler[h].listed[s], handler[h].payload)
    IN  Set(h, [handler[h] EXCEPT !.todo = @ \ {s},
                                  !.sent = @ \cup ({s} \X records)])

\* Mutant: the loop ends with the first failure.
LoseRest(h, s, why) ==
    Set(h, [handler[h] EXCEPT !.todo = {}, !.lost = @ \cup {<<s, why>>}])

\* The failure is logged, and the loop goes on.
Lose(h, s, why) ==
    Set(h, [handler[h] EXCEPT !.todo = @ \ {s}, !.lost = @ \cup {<<s, why>>}])

Dispatch(h) ==
    /\ handler[h].pc = "dispatch"
    /\ \E s \in handler[h].todo :
          LET sink == handler[h].listed[s].sink IN
          \/ /\ sink = "kafka" /\ ~producer
             /\ Lose(h, s, "no producer")
             /\ UNCHANGED spent
          \/ /\ sink = "http" /\ handler[h].cancelled
             /\ Lose(h, s, "context")
             /\ UNCHANGED spent
          \/ /\ sink = "kafka" => producer
             /\ sink = "http" => ~handler[h].cancelled
             /\ \/ Deliver(h, s) /\ UNCHANGED spent
                \/ Lose(h, s, "sink") /\ Spend("fault")
    /\ UNCHANGED <<mode, producer, sources, groupVars>>

EndDispatch(h) ==
    /\ handler[h].pc = "dispatch"
    /\ handler[h].todo = {}
    /\ Set(h, [handler[h] EXCEPT !.pc = "end"])
    /\ UNCHANGED <<mode, producer, sources, groupVars, spent>>

-----------------------------------------------------------------------------
(* handleNotification: one HTTP request.                                   *)

Begin(payload) == [NoHandler EXCEPT !.pc = "parse", !.payload = payload]

BeginRequest(h) ==
    /\ mode = "http"
    /\ handler[h] = NoHandler
    /\ \E x \in Payloads : Set(h, Begin(x))
    /\ UNCHANGED <<mode, producer, sources, groupVars, spent>>

\* The client goes away: the request's context is cancelled.
Disconnect(h) ==
    /\ handler[h].pc # "idle" /\ ~handler[h].cancelled
    /\ Spend("session")
    /\ Set(h, [handler[h] EXCEPT !.cancelled = TRUE])
    /\ UNCHANGED <<mode, producer, sources, groupVars>>

\* The answer: 400 for a malformed payload, and otherwise 200.
EndRequest(h) ==
    /\ handler[h].pc = "end"
    /\ Set(h, NoHandler)
    /\ UNCHANGED <<mode, producer, sources, groupVars, spent>>

-----------------------------------------------------------------------------
(* ConsumeClaim of the partitions, and the consumer group.                 *)

\* The storage publishes a payload.
Publish(p) ==
    /\ mode = "kafka"
    /\ Len(log[p]) < MaxPayloads
    /\ \E x \in Payloads : log' = [log EXCEPT ![p] = Append(@, x)]
    /\ UNCHANGED <<mode, producer, sources, handler, fetched, position, marked,
                   committed, session, done, skipped, spent>>

\* Mutant: every session starts from the newest message.
StartSessionAtNewest ==
    /\ mode = "kafka"
    /\ session = "none"
    /\ session' = "open"
    /\ position' = [p \in Partitions |-> Len(log[p])]
    /\ fetched' = position'
    /\ marked' = committed
    /\ skipped' = [p \in Partitions |-> 0 .. (position'[p] - 1)]
    /\ UNCHANGED <<mode, producer, sources, handler, log, committed, done,
                   spent>>

\* A session starts from the committed offset, or from the newest message.
StartSession ==
    /\ mode = "kafka"
    /\ session = "none"
    /\ session' = "open"
    /\ position' = [p \in Partitions |->
          IF committed[p] # NoOffset THEN committed[p] ELSE Len(log[p])]
    /\ fetched' = position'
    /\ marked' = committed
    /\ skipped' = [p \in Partitions |->
          IF committed[p] # NoOffset THEN skipped[p]
          ELSE 0 .. (position'[p] - 1)]
    /\ UNCHANGED <<mode, producer, sources, handler, log, committed, done,
                   spent>>

\* sarama fills the channel of the claim.
Fetch(p) ==
    /\ session = "open"
    /\ fetched[p] < Len(log[p])
    /\ fetched' = [fetched EXCEPT ![p] = @ + 1]
    /\ UNCHANGED <<mode, producer, sources, handler, log, position, marked,
                   committed, session, done, skipped, spent>>

\* Mutant: the message is marked when it is received.
ReceiveAndMark(p) ==
    /\ session # "none"
    /\ handler[p] = NoHandler
    /\ position[p] < fetched[p]
    /\ Set(p, [Begin(log[p][position[p] + 1]) EXCEPT
                 !.cancelled = session = "closing"])
    /\ position' = [position EXCEPT ![p] = @ + 1]
    /\ marked' = [marked EXCEPT ![p] = position'[p]]
    /\ UNCHANGED <<mode, producer, sources, log, fetched, committed, session,
                   done, skipped, spent>>

\* The next message of the loop, with the session's context.
Receive(p) ==
    /\ session # "none"
    /\ handler[p] = NoHandler
    /\ position[p] < fetched[p]
    /\ Set(p, [Begin(log[p][position[p] + 1]) EXCEPT
                 !.cancelled = session = "closing"])
    /\ position' = [position EXCEPT ![p] = @ + 1]
    /\ UNCHANGED <<mode, producer, sources, log, fetched, marked, committed,
                   session, done, skipped, spent>>

\* Mutant: a message that cannot be processed is not marked and comes again.
MarkUnlessMalformed(p) ==
    /\ handler[p].pc = "end"
    /\ Set(p, NoHandler)
    /\ IF handler[p].payload = Malformed
       THEN /\ position' = [position EXCEPT ![p] = @ - 1]
            /\ UNCHANGED <<marked, done>>
       ELSE /\ marked' = [marked EXCEPT ![p] = position[p]]
            /\ done' = [done EXCEPT ![p] = @ \cup {position[p] - 1}]
            /\ UNCHANGED position
    /\ UNCHANGED <<mode, producer, sources, log, fetched, committed, session,
                   skipped, spent>>

\* Mutant: the mark is one message ahead.
MarkNext(p) ==
    /\ handler[p].pc = "end"
    /\ Set(p, NoHandler)
    /\ marked' = [marked EXCEPT ![p] = position[p] + 1]
    /\ done' = [done EXCEPT ![p] = @ \cup {position[p] - 1}]
    /\ UNCHANGED <<mode, producer, sources, log, fetched, position, committed,
                   session, skipped, spent>>

\* The error, if any, is logged, and the message marked.
MarkMessage(p) ==
    /\ handler[p].pc = "end"
    /\ Set(p, NoHandler)
    /\ marked' = [marked EXCEPT ![p] = position[p]]
    /\ done' = [done EXCEPT ![p] = @ \cup {position[p] - 1}]
    /\ UNCHANGED <<mode, producer, sources, log, fetched, position, committed,
                   session, skipped, spent>>

\* The group commits what is marked from time to time.
Commit ==
    /\ session # "none"
    /\ marked # committed
    /\ committed' = marked
    /\ UNCHANGED <<mode, producer, sources, handler, log, fetched, position,
                   marked, session, done, skipped, spent>>

\* A rebalance, or the runner is stopped: the context is cancelled.
EndSession ==
    /\ session = "open"
    /\ Spend("session")
    /\ session' = "closing"
    /\ handler' = [h \in Handlers |->
          IF h \in Partitions /\ handler[h] # NoHandler
          THEN [handler[h] EXCEPT !.cancelled = TRUE] ELSE handler[h]]
    /\ UNCHANGED <<mode, producer, sources, log, fetched, position, marked,
                   committed, done, skipped>>

\* The loops have ended; the session commits once more and is released.
ReleaseSession ==
    /\ session = "closing"
    /\ \A p \in Partitions :
          handler[p] = NoHandler /\ position[p] = fetched[p]
    /\ session' = "none"
    /\ committed' = marked
    /\ UNCHANGED <<mode, producer, sources, handler, log, fetched, position,
                   marked, done, skipped, spent>>

-----------------------------------------------------------------------------
(* The users and the process.                                              *)

ChangeSource(s) ==
    /\ Spend("source")
    /\ \E spec \in Specs \cup {NoSpec} :
          spec # sources[s] /\ sources' = [sources EXCEPT ![s] = spec]
    /\ UNCHANGED <<mode, producer, handler, groupVars>>

\* What was being processed is not marked.
CrashAndRestart ==
    /\ Spend("crash")
    /\ handler' = [h \in Handlers |-> NoHandler]
    /\ session' = "none"
    /\ fetched' = position
    /\ UNCHANGED <<mode, producer, sources, log, position, marked, committed,
                   done, skipped>>

Process(h) == Parse(h) \/ List(h) \/ Dispatch(h) \/ EndDispatch(h)

Next ==
    \/ \E h \in Handlers : Process(h)
    \/ \E h \in Requests : BeginRequest(h) \/ Disconnect(h) \/ EndRequest(h)
    \/ \E p \in Partitions :
          Publish(p) \/ Fetch(p) \/ Receive(p) \/ MarkMessage(p)
    \/ StartSession \/ Commit \/ EndSession \/ ReleaseSession
    \/ \E s \in Sources : ChangeSource(s)
    \/ CrashAndRestart

Spec == Init /\ [][Next]_vars

\* The goroutines run, and Consume is called again when a session has ended.
FairSpec ==
    /\ Spec
    /\ WF_vars(StartSession) /\ WF_vars(ReleaseSession)
    /\ \A h \in Handlers : WF_vars(Process(h))
    /\ \A p \in Partitions :
          WF_vars(Fetch(p)) /\ WF_vars(Receive(p)) /\ WF_vars(MarkMessage(p))

-----------------------------------------------------------------------------
(* Properties.                                                             *)

\* The variables have their types, and the offsets their order: what is
\* committed has been marked, what is marked was received, what is received
\* was fetched, and what is fetched was published.
TypeOK ==
    /\ sources \in [Sources -> Specs \cup {NoSpec}]
    /\ \A h \in Handlers :
          /\ handler[h].pc \in {"idle", "parse", "list", "dispatch", "end"}
          /\ handler[h].payload \in Payloads \cup {{}}
          /\ handler[h].todo \subseteq Sources
    /\ session \in {"none", "open", "closing"}
    /\ \A p \in Partitions :
          /\ NoOffset <= committed[p]
          /\ session # "none" => /\ committed[p] <= marked[p]
                                 /\ marked[p] <= position[p]
                                 /\ position[p] <= fetched[p]
          /\ fetched[p] <= Len(log[p])

\* The names that a pattern stands for, and the records that a source asks for.
Names(payload) == {r.name : r \in payload}

Asked(spec, payload) ==
    {r \in payload :
        /\ r.bucket = BucketOf[spec.claim]
        /\ \E e \in spec.events :
              r.name \in {n \in Names(payload) :
                  \/ n = e.parts
                  \/ e.any /\ \E q \in 0 .. Len(n) : SubSeq(n, 1, q) = e.parts}}

SentTo(h, s) == {x[2] : x \in {y \in handler[h].sent : y[1] = s}}

\* When a payload has been processed, each source that was listed has got
\* exactly the records of its bucket and of its events, or its own dispatch
\* has failed: one that fails takes no record from the others.
DispatchIsExact ==
    \A h \in Handlers :
        handler[h].pc = "end" /\ handler[h].listed # NoSpec =>
            \A s \in Sources :
                \/ handler[h].listed[s] = NoSpec /\ SentTo(h, s) = {}
                \/ /\ handler[h].listed[s] # NoSpec
                   /\ SentTo(h, s) =
                        Asked(handler[h].listed[s], handler[h].payload)
                \/ /\ \E x \in handler[h].lost : x[1] = s
                   /\ SentTo(h, s) = {}

\* At least once: a committed message was processed to its end, or was there
\* before the group had committed anything. A crash, a rebalance or a payload
\* that cannot be processed skips none.
CommittedWasProcessed ==
    \A p \in Partitions : \A o \in 0 .. committed[p] - 1 :
        o \in done[p] \cup skipped[p]

\* The topic as its publishers see it: TopicConsumption.
Consumption ==
    INSTANCE TopicConsumption WITH
        Messages <- Payloads,
        handled <- done,
        passed <- skipped,
        committed <- [p \in Partitions |->
                        IF committed[p] = NoOffset THEN 0 ELSE committed[p]]

\* ConsumeClaim and its consumer group implement it, through rebalances, stops
\* and crashes at any moment: a partition is handled in its order, commits only
\* move forward and only over what was handled, and a session skips messages
\* only in a partition that the group has committed nothing of.
ImplementsConsumption == Consumption!Spec

\* No payload blocks its partition: whatever is in front of it, and whatever
\* fails, every message is processed in the end.
AllProcessed ==
    \A p \in Partitions : \A o \in 0 .. MaxPayloads - 1 :
        (Len(log[p]) > o) ~> (o \in done[p] \cup skipped[p])

\* docs/plans/2026-07-21-objectbucket-notifications-adapter.md:479: an event
\* is dropped when its sink is unreachable or returns an error (or there is no
\* producer for it), and not because the session ends.
LostOnlyBySink ==
    \A p \in Partitions : \A s \in Sources :
        <<s, "context">> \notin handler[p].lost
=============================================================================
