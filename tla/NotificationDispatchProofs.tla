---------------------- MODULE NotificationDispatchProofs ----------------------
(***************************************************************************)
(* Proofs about NotificationDispatch, for every choice of the sources,     *)
(* payloads, partitions and disturbances: the order of the offsets, that a *)
(* committed message was processed, that each source gets exactly the      *)
(* records that it asks for, unless its own dispatch fails, and that the   *)
(* consumers implement TopicConsumption.                                   *)
(***************************************************************************)
EXTENDS NotificationDispatch, TLAPS

-----------------------------------------------------------------------------
(* The inductive invariants.                                               *)

Listing == [Sources -> Specs \cup {NoSpec}]

\* Why a dispatch fails.
Reasons == {"no producer", "context", "sink"}

HandlerType ==
    [ pc : {"idle", "parse", "list", "dispatch", "end"},
      payload : Payloads \cup {{}}, cancelled : BOOLEAN,
      listed : Listing \cup {NoSpec}, todo : SUBSET Sources,
      sent : SUBSET (Sources \X UNION Payloads),
      lost : SUBSET (Sources \X Reasons) ]

\* The types. A goroutine that is under way is no NoHandler.
TypeInv ==
    /\ sources \in Listing
    /\ handler \in [Handlers -> HandlerType]
    /\ \A h \in Handlers : handler[h] = NoHandler \/ handler[h].pc # "idle"
    /\ session \in {"none", "open", "closing"}
    /\ log \in [Partitions -> Seq(Payloads)]
    /\ fetched \in [Partitions -> Nat] /\ position \in [Partitions -> Nat]
    /\ marked \in [Partitions -> Int] /\ committed \in [Partitions -> Int]
    /\ done \in [Partitions -> SUBSET Int]
    /\ skipped \in [Partitions -> SUBSET Nat]

\* The offsets are in order in and between sessions, and no claim runs but in
\* a session.
OffsetInv ==
    \A p \in Partitions :
        /\ NoOffset <= committed[p] /\ committed[p] <= marked[p]
        /\ marked[p] <= position[p] /\ position[p] <= fetched[p]
        /\ fetched[p] <= Len(log[p])
        /\ handler[p] # NoHandler => session # "none" /\ position[p] > 0

\* The messages before offset n are processed or were skipped.
Through(p, n) == \A o \in 0 .. n - 1 : o \in done[p] \cup skipped[p]

\* In a session that holds of all messages that were received, but for the one
\* in process.
ProcessedInv ==
    \A p \in Partitions :
        /\ Through(p, committed[p]) /\ Through(p, marked[p])
        /\ session # "none" =>
              Through(p, IF handler[p] = NoHandler THEN position[p]
                         ELSE position[p] - 1)

\* What has become of source s, once h has listed it.
Settled(h, s) ==
    \/ SentTo(h, s) = {} /\ handler[h].listed[s] = NoSpec
    \/ /\ handler[h].listed[s] # NoSpec
       /\ SentTo(h, s) = Matched(handler[h].listed[s], handler[h].payload)
    \/ SentTo(h, s) = {} /\ \E x \in handler[h].lost : x[1] = s

\* Nothing is sent before the sources are listed; then what is still to be
\* done is of sources with nothing sent, and the others are settled.
DispatchAt(h) ==
    /\ handler[h].pc \in {"parse", "list"} =>
          /\ handler[h].listed = NoSpec
          /\ handler[h].sent = {} /\ handler[h].todo = {}
    /\ handler[h].pc = "list" => handler[h].payload # Malformed
    /\ handler[h].pc = "dispatch" => handler[h].listed \in Listing
    /\ handler[h].pc = "end" => handler[h].todo = {}
    /\ (\/ handler[h].pc = "dispatch"
        \/ handler[h].pc = "end" /\ handler[h].listed # NoSpec) =>
       /\ handler[h].payload # Malformed
       /\ \A s \in Sources :
             IF s \in handler[h].todo
             THEN handler[h].listed[s] # NoSpec /\ SentTo(h, s) = {}
             ELSE Settled(h, s)

DispatchInv == \A h \in Handlers : DispatchAt(h)

Inv == TypeInv /\ OffsetInv /\ ProcessedInv /\ DispatchInv

-----------------------------------------------------------------------------
(* The goroutines.                                                          *)

\* A goroutine that is idle.
LEMMA NoHandlerType ==
    /\ NoHandler \in HandlerType /\ NoHandler.pc = "idle"
    /\ NoHandler.sent = {} /\ NoHandler.listed = NoSpec /\ NoHandler.todo = {}
BY DEF NoHandler, HandlerType

\* A goroutine is set to r; the others stay as they are.
LEMMA SetHandler ==
    ASSUME TypeInv, NEW h \in Handlers, NEW r, Set(h, r)
    PROVE  /\ handler'[h] = r
           /\ \A g \in Handlers \ {h} : handler'[g] = handler[g]
           /\ r \in HandlerType => handler' \in [Handlers -> HandlerType]
BY DEF TypeInv, Set

\* A new goroutine starts with the payload.
LEMMA BeginType ==
    ASSUME NEW x \in Payloads
    PROVE  /\ Begin(x) \in HandlerType /\ Begin(x).pc = "parse"
           /\ Begin(x).listed = NoSpec
           /\ Begin(x).sent = {} /\ Begin(x).todo = {}
           /\ \A b \in BOOLEAN :
                 /\ [Begin(x) EXCEPT !.cancelled = b] \in HandlerType
                 /\ [Begin(x) EXCEPT !.cancelled = b].pc = "parse"
                 /\ [Begin(x) EXCEPT !.cancelled = b].listed = NoSpec
                 /\ [Begin(x) EXCEPT !.cancelled = b].sent = {}
                 /\ [Begin(x) EXCEPT !.cancelled = b].todo = {}
BY DEF Begin, NoHandler, HandlerType

\* What is sent and lost of the records.
Sent(h, s) == {s} \X Matched(handler[h].listed[s], handler[h].payload)

\* The records that are sent are of the payload.
LEMMA SentType ==
    ASSUME TypeInv, NEW h \in Handlers, NEW s \in Sources
    PROVE  Sent(h, s) \subseteq Sources \X UNION Payloads
<1>1. handler[h].payload \in Payloads \cup {{}}
  BY DEF TypeInv, HandlerType
<1>2. Matched(handler[h].listed[s], handler[h].payload) \subseteq UNION Payloads
  BY <1>1 DEF Matched
<1> QED BY <1>2 DEF Sent

\* The steps of processNotification and dispatchDataEvents.
LEMMA ProcessSteps ==
    ASSUME TypeInv, NEW h \in Handlers, Process(h)
    PROVE  /\ UNCHANGED <<sources, groupVars>>
           /\ handler[h].pc \notin {"idle", "end"} /\ handler'[h].pc # "idle"
           /\ handler' \in [Handlers -> HandlerType]
           /\ \A g \in Handlers \ {h} : handler'[g] = handler[g]
           /\ handler'[h].payload = handler[h].payload
           /\ \/ /\ handler[h].pc = "parse"
                 /\ handler'[h].pc \in {"list", "end"}
                 /\ handler'[h].pc = "list" => handler[h].payload # Malformed
                 /\ handler'[h].listed = handler[h].listed
                 /\ handler'[h].sent = handler[h].sent
                 /\ handler'[h].todo = handler[h].todo
              \/ /\ handler[h].pc = "list" /\ handler'[h].pc = "dispatch"
                 /\ handler'[h].listed = sources
                 /\ handler'[h].sent = handler[h].sent
                 /\ handler'[h].todo =
                       {s \in {z \in Sources : sources[z] # NoSpec} :
                           Matched(sources[s], handler[h].payload) # {}}
              \/ /\ handler[h].pc = "dispatch" /\ handler'[h].pc = "dispatch"
                 /\ handler'[h].listed = handler[h].listed
                 /\ \E s \in handler[h].todo :
                       /\ handler'[h].todo = handler[h].todo \ {s}
                       /\ \/ /\ handler'[h].sent =
                                   handler[h].sent \cup Sent(h, s)
                             /\ handler'[h].lost = handler[h].lost
                          \/ \E why \in Reasons :
                                /\ handler'[h].sent = handler[h].sent
                                /\ handler'[h].lost =
                                      handler[h].lost \cup {<<s, why>>}
              \/ /\ handler[h].pc = "dispatch" /\ handler'[h].pc = "end"
                 /\ handler[h].todo = {} /\ handler'[h].todo = {}
                 /\ handler'[h].listed = handler[h].listed
                 /\ handler'[h].sent = handler[h].sent
                 /\ handler'[h].lost = handler[h].lost
<1>1. handler[h] \in HandlerType /\ sources \in Listing
  BY DEF TypeInv
<1>2. \A pc \in {"list", "end"} :
         /\ [handler[h] EXCEPT !.pc = pc] \in HandlerType
         /\ [handler[h] EXCEPT !.pc = pc].pc = pc
         /\ [handler[h] EXCEPT !.pc = pc].payload = handler[h].payload
         /\ [handler[h] EXCEPT !.pc = pc].listed = handler[h].listed
         /\ [handler[h] EXCEPT !.pc = pc].sent = handler[h].sent
         /\ [handler[h] EXCEPT !.pc = pc].lost = handler[h].lost
         /\ [handler[h] EXCEPT !.pc = pc].todo = handler[h].todo
  BY <1>1 DEF HandlerType
<1>3. CASE Parse(h)
  <2>1. PICK pc \in {"list", "end"} :
           /\ Set(h, [handler[h] EXCEPT !.pc = pc])
           /\ pc = "list" => handler[h].payload # Malformed
    BY <1>3 DEF Parse
  <2> DEFINE r == [handler[h] EXCEPT !.pc = pc]
  <2>2. /\ r \in HandlerType /\ r.pc = pc
        /\ r.listed = handler[h].listed /\ r.payload = handler[h].payload
        /\ r.todo = handler[h].todo /\ r.sent = handler[h].sent
    BY <1>2
  <2>3. Set(h, r)
    BY <2>1
  <2> HIDE DEF r
  <2>4. handler[h].pc = "parse" /\ UNCHANGED <<sources, groupVars>>
    BY <1>3 DEF Parse
  <2> QED BY <2>1, <2>2, <2>3, <2>4, SetHandler
<1>4. CASE List(h)
  <2> DEFINE todo == {s \in {z \in Sources : sources[z] # NoSpec} :
                        Matched(sources[s], handler[h].payload) # {}}
             r == [handler[h] EXCEPT !.pc = "dispatch", !.listed = sources,
                                     !.todo = todo]
  <2>1. Set(h, r)
    BY <1>4 DEF List
  <2>2. todo \in SUBSET Sources
    OBVIOUS
  <2> HIDE DEF todo
  <2>3. /\ r \in HandlerType /\ r.pc = "dispatch"
        /\ r.listed = sources /\ r.todo = todo
        /\ r.payload = handler[h].payload /\ r.sent = handler[h].sent
    BY <1>1, <2>2 DEF HandlerType
  <2> HIDE DEF r
  <2>4. /\ handler[h].pc = "list" /\ UNCHANGED <<sources, groupVars>>
    BY <1>4 DEF List
  <2> QED BY <2>1, <2>3, <2>4, SetHandler DEF todo
<1>5. CASE Dispatch(h)
  <2>1. PICK s \in handler[h].todo :
           \/ Deliver(h, s) \/ Lose(h, s, "no producer")
           \/ Lose(h, s, "context") \/ Lose(h, s, "sink")
    BY <1>5 DEF Dispatch
  <2>a. Deliver(h, s) \/ \E why \in Reasons : Lose(h, s, why)
    BY <2>1 DEF Reasons
  <2>b. s \in handler[h].todo
    BY <2>1
  <2>2. handler[h].pc = "dispatch" /\ UNCHANGED <<sources, groupVars>>
    BY <1>5 DEF Dispatch
  <2>3. s \in Sources
    BY <1>1, <2>1 DEF HandlerType
  <2>4. CASE Deliver(h, s)
    <3> DEFINE r == [handler[h] EXCEPT !.todo = @ \ {s},
                                       !.sent = @ \cup Sent(h, s)]
    <3>1. Set(h, r)
      BY <2>4 DEF Deliver, Sent
    <3>2. Sent(h, s) \subseteq Sources \X UNION Payloads
      BY <2>3, SentType
    <3>3. /\ r \in HandlerType /\ r.pc = handler[h].pc
          /\ r.listed = handler[h].listed /\ r.payload = handler[h].payload
          /\ r.todo = handler[h].todo \ {s}
          /\ r.sent = handler[h].sent \cup Sent(h, s)
          /\ r.lost = handler[h].lost
      BY <1>1, <3>2 DEF HandlerType
    <3> HIDE DEF r
    <3> QED BY <2>2, <2>b, <3>1, <3>3, SetHandler
  <2>5. CASE \E why \in Reasons : Lose(h, s, why)
    <3>1. PICK why \in Reasons : Lose(h, s, why)
      BY <2>5
    <3> DEFINE r == [handler[h] EXCEPT !.todo = @ \ {s},
                                       !.lost = @ \cup {<<s, why>>}]
    <3>2. Set(h, r)
      BY <3>1 DEF Lose
    <3>3. {<<s, why>>} \subseteq Sources \X Reasons
      BY <2>3
    <3>4. /\ r \in HandlerType /\ r.pc = handler[h].pc
          /\ r.listed = handler[h].listed /\ r.payload = handler[h].payload
          /\ r.todo = handler[h].todo \ {s}
          /\ r.sent = handler[h].sent
          /\ r.lost = handler[h].lost \cup {<<s, why>>}
      BY <1>1, <3>3 DEF HandlerType
    <3> HIDE DEF r
    <3> QED BY <2>2, <2>b, <3>2, <3>4, SetHandler
  <2> QED BY <2>a, <2>4, <2>5
<1>6. CASE EndDispatch(h)
  BY <1>2, <1>6, SetHandler DEF EndDispatch
<1> QED BY <1>3, <1>4, <1>5, <1>6 DEF Process

-----------------------------------------------------------------------------
(* What a step does to a goroutine.                                         *)

\* The goroutine goes on; its context may be cancelled.
Goes(h) ==
    /\ handler'[h].pc = handler[h].pc
    /\ handler'[h].payload = handler[h].payload
    /\ handler'[h].listed = handler[h].listed
    /\ handler'[h].todo = handler[h].todo
    /\ handler'[h].sent = handler[h].sent
    /\ handler'[h].lost = handler[h].lost
    /\ handler[h] = NoHandler <=> handler'[h] = NoHandler

Starts(h) ==
    /\ handler[h] = NoHandler
    /\ handler'[h].pc = "parse" /\ handler'[h] # NoHandler
    /\ handler'[h].listed = NoSpec
    /\ handler'[h].sent = {} /\ handler'[h].todo = {}

\* One of the four.
LEMMA HandlerSteps ==
    ASSUME TypeInv, OffsetInv, [Next]_vars
    PROVE  /\ handler' \in [Handlers -> HandlerType]
           /\ \A h \in Handlers :
                 \/ Goes(h) \/ Starts(h) \/ handler'[h] = NoHandler
                 \/ Process(h)
           /\ \A h \in Handlers :
                 handler'[h] = NoHandler \/ handler'[h].pc # "idle"
<1>0. /\ handler \in [Handlers -> HandlerType]
      /\ \A h \in Handlers : handler[h] = NoHandler \/ handler[h].pc # "idle"
      /\ \A h \in Handlers : handler[h] # NoHandler => handler[h].pc # "idle"
      /\ Partitions \subseteq Handlers /\ Requests \subseteq Handlers
  BY DEF TypeInv, Handlers
<1>a. \A h \in Handlers : LET r == [handler[h] EXCEPT !.cancelled = TRUE] IN
         /\ r \in HandlerType /\ r.pc = handler[h].pc
         /\ r.payload = handler[h].payload /\ r.listed = handler[h].listed
         /\ r.todo = handler[h].todo /\ r.sent = handler[h].sent
         /\ r.lost = handler[h].lost
  BY <1>0 DEF HandlerType
<1>1. CASE UNCHANGED handler
  BY <1>0, <1>1 DEF Goes
<1>2. ASSUME NEW h \in Handlers, Process(h)
      PROVE  /\ handler' \in [Handlers -> HandlerType]
             /\ \A g \in Handlers \ {h} : Goes(g)
             /\ \A g \in Handlers :
                   handler'[g] = NoHandler \/ handler'[g].pc # "idle"
  BY <1>0, <1>2, ProcessSteps DEF Goes
<1>3. ASSUME NEW h \in Handlers, NEW r \in HandlerType, Set(h, r),
             r.pc # "idle" \/ r = NoHandler
      PROVE  /\ handler' \in [Handlers -> HandlerType] /\ handler'[h] = r
             /\ \A g \in Handlers \ {h} : Goes(g)
             /\ \A g \in Handlers :
                   handler'[g] = NoHandler \/ handler'[g].pc # "idle"
  BY <1>0, <1>3, SetHandler DEF Goes
<1>4. ASSUME NEW h \in Requests, BeginRequest(h)
      PROVE  /\ handler' \in [Handlers -> HandlerType] /\ Starts(h)
             /\ \A g \in Handlers \ {h} : Goes(g)
             /\ \A g \in Handlers :
                   handler'[g] = NoHandler \/ handler'[g].pc # "idle"
  <2>1. PICK x \in Payloads : Set(h, Begin(x))
    BY <1>4 DEF BeginRequest
  <2>2. /\ Begin(x) \in HandlerType /\ Begin(x).pc = "parse"
        /\ Begin(x).listed = NoSpec
        /\ Begin(x).sent = {} /\ Begin(x).todo = {}
    BY BeginType
  <2>3. handler[h] = NoHandler
    BY <1>4 DEF BeginRequest
  <2> QED BY <1>0, <1>3, <2>1, <2>2, <2>3, NoHandlerType DEF Starts
<1>5. ASSUME NEW h \in Requests, Disconnect(h)
      PROVE  /\ handler' \in [Handlers -> HandlerType] /\ Goes(h)
             /\ \A g \in Handlers \ {h} : Goes(g)
             /\ \A g \in Handlers :
                   handler'[g] = NoHandler \/ handler'[g].pc # "idle"
  <2> DEFINE r == [handler[h] EXCEPT !.cancelled = TRUE]
  <2>1. Set(h, r) /\ handler[h].pc # "idle"
    BY <1>5 DEF Disconnect
  <2>2. /\ r \in HandlerType /\ r.pc = handler[h].pc
        /\ r.payload = handler[h].payload /\ r.listed = handler[h].listed
        /\ r.todo = handler[h].todo /\ r.sent = handler[h].sent
        /\ r.lost = handler[h].lost
    BY <1>0, <1>a
  <2> HIDE DEF r
  <2>3. handler'[h] = r
    BY <1>0, <1>3, <2>1, <2>2
  <2>4. Goes(h)
    BY <1>0, <2>1, <2>2, <2>3, NoHandlerType DEF Goes
  <2> QED BY <1>0, <1>3, <2>1, <2>2, <2>4
<1>6. ASSUME NEW h \in Handlers, EndRequest(h) \/ MarkMessage(h)
      PROVE  /\ handler' \in [Handlers -> HandlerType]
             /\ handler'[h] = NoHandler
             /\ \A g \in Handlers \ {h} : Goes(g)
             /\ \A g \in Handlers :
                   handler'[g] = NoHandler \/ handler'[g].pc # "idle"
  BY <1>3, <1>6, NoHandlerType DEF EndRequest, MarkMessage
<1>7. ASSUME NEW p \in Partitions, Receive(p)
      PROVE  /\ handler' \in [Handlers -> HandlerType] /\ Starts(p)
             /\ \A g \in Handlers \ {p} : Goes(g)
             /\ \A g \in Handlers :
                   handler'[g] = NoHandler \/ handler'[g].pc # "idle"
  <2>1. PICK x \in Payloads, b \in BOOLEAN :
           Set(p, [Begin(x) EXCEPT !.cancelled = b])
    <3>1. /\ log[p] \in Seq(Payloads) /\ position[p] \in Nat
          /\ position[p] < fetched[p] /\ fetched[p] \in Nat
          /\ fetched[p] <= Len(log[p])
      BY <1>7 DEF TypeInv, OffsetInv, Receive
    <3>2. log[p][position[p] + 1] \in Payloads
      BY <3>1
    <3> QED BY <1>7, <3>2 DEF Receive
  <2> DEFINE r == [Begin(x) EXCEPT !.cancelled = b]
  <2>2. /\ r \in HandlerType /\ r.pc = "parse"
        /\ r.listed = NoSpec /\ r.sent = {} /\ r.todo = {}
    BY BeginType
  <2>3. handler[p] = NoHandler /\ Set(p, r)
    BY <1>7, <2>1 DEF Receive
  <2> HIDE DEF r
  <2>4. handler'[p] = r
    BY <1>0, <1>3, <2>2, <2>3
  <2>5. Starts(p)
    BY <2>2, <2>3, <2>4, NoHandlerType DEF Starts
  <2> QED BY <1>0, <1>3, <2>2, <2>3, <2>5
<1>8. CASE EndSession
  <2>1. \A h \in Handlers :
           \/ handler'[h] = handler[h]
           \/ /\ handler[h] # NoHandler
              /\ handler'[h] = [handler[h] EXCEPT !.cancelled = TRUE]
    BY <1>8 DEF EndSession
  <2>2. handler' \in [Handlers -> HandlerType]
    <3>1. \A h \in Handlers : handler'[h] \in HandlerType
      BY <1>0, <1>a, <2>1
    <3>2. handler' = [h \in Handlers |-> handler'[h]]
      BY <1>8 DEF EndSession
    <3> QED BY <3>1, <3>2
  <2>3. ASSUME NEW h \in Handlers PROVE Goes(h)
    <3>1. CASE handler'[h] = handler[h]
      BY <3>1 DEF Goes
    <3>2. CASE /\ handler[h] # NoHandler
               /\ handler'[h] = [handler[h] EXCEPT !.cancelled = TRUE]
      <4>1. handler'[h].pc = handler[h].pc /\ handler[h].pc # "idle"
        BY <1>0, <1>a, <3>2
      <4>2. handler'[h] # NoHandler
        BY <4>1, NoHandlerType
      <4> QED BY <1>a, <3>2, <4>2 DEF Goes
    <3> QED BY <2>1, <3>1, <3>2
  <2> QED BY <1>0, <2>2, <2>3 DEF Goes
<1>9. CASE CrashAndRestart
  <2>1. \A h \in Handlers : handler'[h] = NoHandler
    BY <1>9 DEF CrashAndRestart
  <2>2. handler' \in [Handlers -> HandlerType]
    BY <1>9, NoHandlerType DEF CrashAndRestart
  <2> QED BY <2>1, <2>2
<1>10. ASSUME \/ \E p \in Partitions : Publish(p) \/ Fetch(p)
              \/ StartSession \/ Commit \/ ReleaseSession
              \/ \E s \in Sources : ChangeSource(s)
              \/ UNCHANGED vars
       PROVE  UNCHANGED handler
  BY <1>10
     DEF Publish, Fetch, StartSession, Commit, ReleaseSession, ChangeSource,
         vars
<1> QED
  <2>1. CASE \E h \in Handlers : Process(h)
    BY <1>2, <2>1
  <2>2. CASE \E h \in Requests :
               BeginRequest(h) \/ Disconnect(h) \/ EndRequest(h)
    BY <1>0, <1>4, <1>5, <1>6, <2>2
  <2>3. CASE \E p \in Partitions : Receive(p) \/ MarkMessage(p)
    BY <1>0, <1>6, <1>7, <2>3
  <2> QED BY <1>1, <1>8, <1>9, <1>10, <2>1, <2>2, <2>3 DEF Next

-----------------------------------------------------------------------------
(* Types.                                                                   *)

\* At the start.
LEMMA InitTypes == Init => TypeInv
<1> SUFFICES ASSUME Init PROVE TypeInv
  OBVIOUS
<1>1. NoOffset \in Int
  BY DEF NoOffset
<1>2. <<>> \in Seq(Payloads)
  OBVIOUS
<1> QED BY <1>1, <1>2, NoHandlerType DEF Init, TypeInv, Listing

\* Each step keeps the types.
LEMMA NextTypes ==
    ASSUME TypeInv, OffsetInv, [Next]_vars
    PROVE  TypeInv'
<1>1. /\ handler' \in [Handlers -> HandlerType]
      /\ \A h \in Handlers :
            handler'[h] = NoHandler \/ handler'[h].pc # "idle"
  BY HandlerSteps
<1> DEFINE GroupTypes ==
             /\ session' \in {"none", "open", "closing"}
             /\ log' \in [Partitions -> Seq(Payloads)]
             /\ fetched' \in [Partitions -> Nat]
             /\ position' \in [Partitions -> Nat]
             /\ marked' \in [Partitions -> Int]
             /\ committed' \in [Partitions -> Int]
             /\ done' \in [Partitions -> SUBSET Int]
             /\ skipped' \in [Partitions -> SUBSET Nat]
<1>2. sources' \in Listing /\ GroupTypes => TypeInv'
  BY <1>1 DEF TypeInv
<1> USE DEF TypeInv
<1>3. ASSUME UNCHANGED <<sources, groupVars>>
      PROVE  sources' \in Listing /\ GroupTypes
  BY <1>3 DEF groupVars
<1>4. CASE UNCHANGED vars
  BY <1>2, <1>3, <1>4 DEF vars
<1>5. CASE \E h \in Handlers : Process(h)
  BY <1>2, <1>3, <1>5, ProcessSteps
<1>6. CASE \E h \in Requests :
               BeginRequest(h) \/ Disconnect(h) \/ EndRequest(h)
  BY <1>2, <1>3, <1>6 DEF BeginRequest, Disconnect, EndRequest
<1>7. ASSUME NEW p \in Partitions, Publish(p) PROVE TypeInv'
  <2>1. PICK x \in Payloads : log' = [log EXCEPT ![p] = Append(@, x)]
    BY <1>7 DEF Publish
  <2>2. Append(log[p], x) \in Seq(Payloads)
    OBVIOUS
  <2>3. log' \in [Partitions -> Seq(Payloads)]
    BY <2>1, <2>2
  <2>4. UNCHANGED <<sources, handler, session, fetched, position, marked,
                    committed, done, skipped>>
    BY <1>7 DEF Publish
  <2>5. sources' \in Listing /\ GroupTypes
    BY <2>3, <2>4
  <2> QED BY <1>2, <2>5
<1>8. ASSUME NEW p \in Partitions, Fetch(p) PROVE TypeInv'
  <2>1. fetched' = [fetched EXCEPT ![p] = @ + 1]
    BY <1>8 DEF Fetch
  <2>2. fetched' \in [Partitions -> Nat]
    BY <2>1
  <2>3. UNCHANGED <<sources, session, log, position, marked, committed, done,
                    skipped>>
    BY <1>8 DEF Fetch
  <2>4. sources' \in Listing /\ GroupTypes
    BY <2>2, <2>3
  <2> QED BY <1>2, <2>4
<1>9. ASSUME NEW p \in Partitions, Receive(p) PROVE TypeInv'
  BY <1>2, <1>9 DEF Receive
<1>10. ASSUME NEW p \in Partitions, MarkMessage(p) PROVE TypeInv'
  <2>1. position[p] \in Int /\ position[p] - 1 \in Int
    OBVIOUS
  <2>2. done' \in [Partitions -> SUBSET Int]
    BY <1>10, <2>1 DEF MarkMessage
  <2> QED BY <1>2, <1>10, <2>1, <2>2 DEF MarkMessage
<1>11. CASE StartSession
  <2>1. \A p \in Partitions :
           (IF committed[p] # NoOffset THEN committed[p]
            ELSE Len(log[p])) \in Nat
    <3>1. \A p \in Partitions : Len(log[p]) \in Nat
      OBVIOUS
    <3>2. \A p \in Partitions : committed[p] # NoOffset => committed[p] \in Nat
      BY DEF OffsetInv, NoOffset
    <3> QED BY <3>1, <3>2
  <2>2. position' \in [Partitions -> Nat] /\ fetched' = position'
    BY <1>11, <2>1 DEF StartSession
  <2>3. skipped' \in [Partitions -> SUBSET Nat]
    BY <1>11, <2>2 DEF StartSession
  <2> QED BY <1>2, <1>11, <2>2, <2>3 DEF StartSession
<1>12. CASE Commit \/ ReleaseSession
  BY <1>2, <1>12 DEF Commit, ReleaseSession
<1>13. CASE EndSession
  BY <1>2, <1>13 DEF EndSession
<1>14. ASSUME NEW s \in Sources, ChangeSource(s) PROVE TypeInv'
  BY <1>2, <1>3, <1>14 DEF ChangeSource, Listing, groupVars
<1>15. CASE CrashAndRestart
  BY <1>2, <1>15 DEF CrashAndRestart
<1> QED
  BY <1>4, <1>5, <1>6, <1>7, <1>8, <1>9, <1>10, <1>11, <1>12, <1>13, <1>14,
     <1>15
     DEF Next

-----------------------------------------------------------------------------
(* The offsets.                                                             *)

\* At the start nothing is published, received or committed.
LEMMA InitOffsets == Init => OffsetInv /\ ProcessedInv
<1> SUFFICES ASSUME Init PROVE OffsetInv /\ ProcessedInv
  OBVIOUS
<1>1. \A p \in Partitions :
         /\ log[p] = <<>> /\ fetched[p] = 0 /\ position[p] = 0
         /\ marked[p] = -1 /\ committed[p] = -1 /\ handler[p] = NoHandler
         /\ session = "none"
  BY DEF Init, Handlers, NoOffset
<1>2. 0 .. (-1) - 1 = {}
  OBVIOUS
<1> QED BY <1>1, <1>2 DEF OffsetInv, ProcessedInv, Through, NoOffset

\* A claim's goroutine starts with Receive, and ends with MarkMessage or with
\* the process.
LEMMA ClaimSteps ==
    ASSUME TypeInv, OffsetInv, [Next]_vars, NEW p \in Partitions
    PROVE  \/ handler[p] = NoHandler <=> handler'[p] = NoHandler
           \/ handler[p] = NoHandler /\ position'[p] = position[p] + 1
           \/ /\ handler[p] # NoHandler /\ handler'[p] = NoHandler
              /\ MarkMessage(p) \/ CrashAndRestart
<1> DEFINE Same == handler[p] = NoHandler <=> handler'[p] = NoHandler
<1>0. /\ handler \in [Handlers -> HandlerType] /\ p \in Handlers
      /\ p \notin Requests /\ Partitions \subseteq Handlers
      /\ Requests \subseteq Handlers
  BY DispatchAssumption DEF TypeInv, Handlers
<1>1. ASSUME NEW h \in Handlers \ {p}, NEW r, Set(h, r) PROVE Same
  BY <1>0, <1>1, SetHandler
<1>2. ASSUME NEW h \in Handlers, Process(h) PROVE Same
  BY <1>0, <1>2, ProcessSteps, NoHandlerType
<1>3. ASSUME NEW h \in Requests,
             BeginRequest(h) \/ Disconnect(h) \/ EndRequest(h)
      PROVE  Same
  BY <1>0, <1>1, <1>3 DEF BeginRequest, Disconnect, EndRequest
<1>4. ASSUME NEW q \in Partitions \ {p}, Receive(q) \/ MarkMessage(q) PROVE Same
  BY <1>0, <1>1, <1>4 DEF Receive, MarkMessage
<1>5. ASSUME \/ \E q \in Partitions : Publish(q) \/ Fetch(q)
             \/ StartSession \/ Commit \/ ReleaseSession
             \/ \E s \in Sources : ChangeSource(s)
             \/ UNCHANGED vars
      PROVE  Same
  BY <1>5
     DEF Publish, Fetch, StartSession, Commit, ReleaseSession, ChangeSource,
         vars
<1>6. ASSUME EndSession PROVE Same
  <2>1. \/ handler'[p] = handler[p]
        \/ /\ handler[p] # NoHandler
           /\ handler'[p] = [handler[p] EXCEPT !.cancelled = TRUE]
    BY <1>0, <1>6 DEF EndSession
  <2>2. [handler[p] EXCEPT !.cancelled = TRUE].pc = handler[p].pc
    BY <1>0 DEF HandlerType
  <2> QED BY <1>0, <2>1, <2>2, NoHandlerType DEF TypeInv
<1>7. Receive(p) => handler[p] = NoHandler /\ position'[p] = position[p] + 1
  BY DEF Receive, TypeInv
<1>8. MarkMessage(p) => handler[p] # NoHandler /\ handler'[p] = NoHandler
  BY <1>0, NoHandlerType, SetHandler DEF MarkMessage
<1>9. CrashAndRestart => handler'[p] = NoHandler
  BY <1>0 DEF CrashAndRestart
<1> HIDE DEF Same
<1>10. \/ Same \/ Receive(p) \/ MarkMessage(p) \/ CrashAndRestart
  <2>1. CASE \E q \in Partitions : Receive(q) \/ MarkMessage(q)
    BY <1>4, <2>1
  <2>2. CASE \E h \in Handlers : Process(h)
    BY <1>2, <2>2
  <2>3. CASE \E h \in Requests :
               BeginRequest(h) \/ Disconnect(h) \/ EndRequest(h)
    BY <1>3, <2>3
  <2> QED BY <1>5, <1>6, <2>1, <2>2, <2>3 DEF Next
<1> QED BY <1>7, <1>8, <1>9, <1>10 DEF Same

\* A message that is received is in process.
LEMMA ReceiveStarts ==
    ASSUME TypeInv, OffsetInv, NEW p \in Partitions, Receive(p)
    PROVE  handler'[p] # NoHandler
<1>1. p \in Handlers /\ log[p][position[p] + 1] \in Payloads
  <2>1. /\ log[p] \in Seq(Payloads) /\ position[p] \in Nat
        /\ position[p] < fetched[p] /\ fetched[p] \in Nat
        /\ fetched[p] <= Len(log[p])
    BY DEF TypeInv, OffsetInv, Receive
  <2> QED BY <2>1 DEF Handlers
<1>2. PICK x \in Payloads, b \in BOOLEAN :
         Set(p, [Begin(x) EXCEPT !.cancelled = b])
  BY <1>1 DEF Receive
<1> DEFINE r == [Begin(x) EXCEPT !.cancelled = b]
<1>3. Set(p, r) /\ r.pc = "parse"
  BY <1>2, BeginType
<1> HIDE DEF r
<1>4. handler'[p] = r
  BY <1>1, <1>3, SetHandler
<1> QED BY <1>3, <1>4, NoHandlerType

\* Which steps touch the log, the offsets and the session.
LEMMA GroupSteps ==
    ASSUME [Next]_vars
    PROVE  \/ UNCHANGED groupVars
           \/ \E p \in Partitions :
                 Publish(p) \/ Fetch(p) \/ Receive(p) \/ MarkMessage(p)
           \/ StartSession \/ Commit \/ EndSession \/ ReleaseSession
           \/ CrashAndRestart
<1>1. CASE UNCHANGED vars
  BY <1>1 DEF vars
<1>2. CASE \E h \in Handlers : Process(h)
  BY <1>2 DEF Process, Parse, List, Dispatch, EndDispatch
<1>3. CASE \E h \in Requests :
               BeginRequest(h) \/ Disconnect(h) \/ EndRequest(h)
  BY <1>3 DEF BeginRequest, Disconnect, EndRequest
<1>4. CASE \E s \in Sources : ChangeSource(s)
  BY <1>4 DEF ChangeSource
<1> QED BY <1>1, <1>2, <1>3, <1>4 DEF Next

\* The offsets of one partition are in order.
OffsetAt(p) ==
    /\ NoOffset <= committed[p] /\ committed[p] <= marked[p]
    /\ marked[p] <= position[p] /\ position[p] <= fetched[p]
    /\ fetched[p] <= Len(log[p])
    /\ handler[p] # NoHandler => session # "none" /\ position[p] > 0

\* Each step keeps the offsets in order.
LEMMA NextOffsets ==
    ASSUME TypeInv, OffsetInv, [Next]_vars
    PROVE  OffsetInv'
<1> SUFFICES ASSUME NEW p \in Partitions PROVE OffsetAt(p)'
  BY DEF OffsetInv, OffsetAt
<1>0. /\ committed[p] \in Int /\ marked[p] \in Int /\ NoOffset = -1
      /\ position[p] \in Nat /\ fetched[p] \in Nat /\ Len(log[p]) \in Nat
      /\ log[p] \in Seq(Payloads) /\ p \in Handlers
      /\ OffsetAt(p)
  BY DEF TypeInv, OffsetInv, OffsetAt, NoOffset, Handlers
<1>1. \/ handler[p] = NoHandler <=> handler'[p] = NoHandler
      \/ handler[p] = NoHandler /\ position'[p] = position[p] + 1
      \/ /\ handler[p] # NoHandler /\ handler'[p] = NoHandler
         /\ MarkMessage(p) \/ CrashAndRestart
  BY ClaimSteps
<1>2. CASE UNCHANGED groupVars
  BY <1>0, <1>1, <1>2
     DEF groupVars, OffsetAt
<1>3. ASSUME NEW q \in Partitions, Publish(q) PROVE OffsetAt(p)'
  <2>1. PICK x \in Payloads : log' = [log EXCEPT ![q] = Append(@, x)]
    BY <1>3 DEF Publish
  <2>2. Len(Append(log[p], x)) = Len(log[p]) + 1
    BY <1>0
  <2>3. Len(log'[p]) >= Len(log[p]) /\ Len(log'[p]) \in Nat
    BY <1>0, <2>1, <2>2 DEF TypeInv
  <2> QED BY <1>0, <1>3, <2>3 DEF Publish, OffsetAt
<1>4. ASSUME NEW q \in Partitions, Fetch(q) PROVE OffsetAt(p)'
  <2>1. \/ fetched'[p] = fetched[p]
        \/ fetched'[p] = fetched[p] + 1 /\ fetched[p] < Len(log[p])
    BY <1>4 DEF Fetch, TypeInv
  <2> QED BY <1>0, <1>4, <2>1 DEF Fetch, OffsetAt
<1>5. ASSUME NEW q \in Partitions, Receive(q) PROVE OffsetAt(p)'
  <2>1. CASE p = q
    <3>1. /\ position'[p] = position[p] + 1 /\ position[p] < fetched[p]
          /\ session # "none"
      BY <1>5, <2>1 DEF Receive, TypeInv
    <3> QED BY <1>0, <1>5, <2>1, <3>1 DEF Receive, OffsetAt
  <2>2. CASE p # q
    <3>1. position'[p] = position[p] /\ handler'[p] = handler[p]
      BY <1>0, <1>5, <2>2 DEF Receive, TypeInv, Set
    <3> QED BY <1>0, <1>5, <3>1 DEF Receive, OffsetAt
  <2> QED BY <2>1, <2>2
<1>6. ASSUME NEW q \in Partitions, MarkMessage(q) PROVE OffsetAt(p)'
  <2>1. /\ marked'[p] \in {marked[p], position[p]}
        /\ handler'[p] \in {handler[p], NoHandler}
    BY <1>0, <1>6 DEF MarkMessage, TypeInv, Set
  <2> QED BY <1>0, <1>6, <2>1 DEF MarkMessage, OffsetAt
<1>7. CASE StartSession
  <2>1. /\ position'[p] = IF committed[p] # NoOffset THEN committed[p]
                          ELSE Len(log[p])
        /\ fetched'[p] = position'[p] /\ marked'[p] = committed[p]
    BY <1>7 DEF StartSession
  <2> QED BY <1>0, <1>7, <2>1 DEF StartSession, OffsetAt
<1>8. CASE Commit \/ ReleaseSession
  BY <1>0, <1>8 DEF Commit, ReleaseSession, OffsetAt
<1>9. CASE EndSession
  BY <1>0, <1>9 DEF EndSession, OffsetAt
<1>10. CASE CrashAndRestart
  BY <1>0, <1>10 DEF CrashAndRestart, OffsetAt
<1> QED
  BY <1>2, <1>3, <1>4, <1>5, <1>6, <1>7, <1>8, <1>9, <1>10, GroupSteps

\* What has been processed before the present position.
ProcessedAt(p) ==
    /\ Through(p, committed[p]) /\ Through(p, marked[p])
    /\ session # "none" =>
          Through(p, IF handler[p] = NoHandler THEN position[p]
                     ELSE position[p] - 1)

\* A message is marked when it has been processed, and a session starts from
\* what is committed, or behind what it skips.
LEMMA NextProcessed ==
    ASSUME TypeInv, OffsetInv, ProcessedInv, [Next]_vars
    PROVE  ProcessedInv'
<1> SUFFICES ASSUME NEW p \in Partitions PROVE ProcessedAt(p)'
  BY DEF ProcessedInv, ProcessedAt
<1>0. /\ committed[p] \in Int /\ marked[p] \in Int /\ NoOffset = -1
      /\ position[p] \in Nat /\ p \in Handlers
      /\ ProcessedAt(p) /\ OffsetAt(p)
  BY DEF TypeInv, OffsetInv, ProcessedInv, ProcessedAt, OffsetAt, NoOffset,
         Handlers
<1>1. \/ handler[p] = NoHandler <=> handler'[p] = NoHandler
      \/ handler[p] = NoHandler /\ position'[p] = position[p] + 1
      \/ /\ handler[p] # NoHandler /\ handler'[p] = NoHandler
         /\ MarkMessage(p) \/ CrashAndRestart
  BY ClaimSteps
<1>2. CASE UNCHANGED groupVars
  <2>1. UNCHANGED <<committed, marked, position, session, done, skipped>>
    BY <1>2 DEF groupVars
  <2>2. CASE handler[p] = NoHandler <=> handler'[p] = NoHandler
    BY <1>0, <2>1, <2>2 DEF ProcessedAt, Through
  <2>3. CASE MarkMessage(p)
    <3>1. marked[p] = position[p]
      BY <2>1, <2>3 DEF MarkMessage, TypeInv
    <3>2. handler'[p] = NoHandler
      BY <1>0, <2>3, SetHandler DEF MarkMessage
    <3> QED BY <1>0, <2>1, <3>1, <3>2 DEF ProcessedAt, Through
  <2>4. CASE CrashAndRestart
    <3>1. session' = "none"
      BY <2>4 DEF CrashAndRestart
    <3> QED BY <1>0, <2>1, <3>1 DEF ProcessedAt, Through
  <2>5. position'[p] # position[p] + 1
    BY <1>0, <2>1
  <2> QED BY <1>1, <2>2, <2>3, <2>4, <2>5
<1>3. ASSUME NEW q \in Partitions, Publish(q) \/ Fetch(q)
      PROVE  ProcessedAt(p)'
  BY <1>0, <1>3 DEF Publish, Fetch, ProcessedAt, Through
<1>5. ASSUME NEW q \in Partitions, Receive(q) PROVE ProcessedAt(p)'
  <2>1. CASE p = q
    <3>1. /\ position'[p] = position[p] + 1 /\ handler[p] = NoHandler
          /\ session # "none"
          /\ UNCHANGED <<marked, committed, done, skipped, session>>
      BY <1>5, <2>1 DEF Receive, TypeInv
    <3>2. position'[p] - 1 = position[p]
      BY <1>0, <3>1
    <3>3. handler'[p] # NoHandler
      BY <1>0, <1>5, <2>1, ReceiveStarts
    <3> QED BY <1>0, <3>1, <3>2, <3>3 DEF ProcessedAt, Through
  <2>2. CASE p # q
    <3>1. position'[p] = position[p] /\ handler'[p] = handler[p]
      BY <1>0, <1>5, <2>2 DEF Receive, TypeInv, Set
    <3> QED BY <1>0, <1>5, <3>1 DEF Receive, ProcessedAt, Through
  <2> QED BY <2>1, <2>2
<1>6. ASSUME NEW q \in Partitions, MarkMessage(q) PROVE ProcessedAt(p)'
  <2>1. CASE p = q
    <3>1. /\ marked'[p] = position[p] /\ handler'[p] = NoHandler
          /\ done'[p] = done[p] \cup {position[p] - 1}
          /\ UNCHANGED <<position, committed, skipped, session>>
      BY <1>0, <1>6, <2>1 DEF MarkMessage, TypeInv, Set
    <3>2. handler[p] # NoHandler
      BY <1>6, <2>1, NoHandlerType DEF MarkMessage
    <3>3. Through(p, position[p] - 1) /\ Through(p, committed[p])
      BY <1>0, <3>2 DEF ProcessedAt, OffsetAt
    <3>4. \A o \in 0 .. position[p] - 1 :
             o \in 0 .. (position[p] - 1) - 1 \/ o = position[p] - 1
      BY <1>0
    <3>5. Through(p, position[p])'
      BY <3>1, <3>3, <3>4 DEF Through
    <3>6. Through(p, committed[p])'
      BY <3>1, <3>3 DEF Through
    <3> QED BY <3>1, <3>5, <3>6 DEF ProcessedAt
  <2>2. CASE p # q
    <3>1. /\ marked'[p] = marked[p] /\ handler'[p] = handler[p]
          /\ done'[p] = done[p]
      BY <1>0, <1>6, <2>2 DEF MarkMessage, TypeInv, Set
    <3> QED BY <1>0, <1>6, <3>1 DEF MarkMessage, ProcessedAt, Through
  <2> QED BY <2>1, <2>2
<1>7. CASE StartSession
  <2>1. /\ position'[p] = IF committed[p] # NoOffset THEN committed[p]
                          ELSE Len(log[p])
        /\ skipped'[p] = IF committed[p] # NoOffset THEN skipped[p]
                         ELSE 0 .. position'[p] - 1
        /\ marked'[p] = committed[p] /\ UNCHANGED <<committed, done, handler>>
        /\ handler[p] = NoHandler
    BY <1>0, <1>7 DEF StartSession, OffsetAt
  <2>2. CASE committed[p] # NoOffset
    BY <1>0, <2>1, <2>2 DEF ProcessedAt, Through
  <2>3. CASE committed[p] = NoOffset
    <3>1. 0 .. committed[p] - 1 = {}
      BY <1>0, <2>3
    <3> QED BY <2>1, <2>3, <3>1 DEF ProcessedAt, Through
  <2> QED BY <2>2, <2>3
<1>8. CASE Commit \/ ReleaseSession
  BY <1>0, <1>8 DEF Commit, ReleaseSession, ProcessedAt, Through
<1>9. CASE EndSession
  <2>1. UNCHANGED <<committed, marked, position, done, skipped>>
    BY <1>9 DEF EndSession
  <2>2. handler[p] = NoHandler <=> handler'[p] = NoHandler
    BY <1>0, <1>1, <1>9 DEF EndSession, MarkMessage, CrashAndRestart
  <2> QED BY <1>0, <1>9, <2>1, <2>2 DEF EndSession, ProcessedAt, Through
<1>10. CASE CrashAndRestart
  BY <1>0, <1>10 DEF CrashAndRestart, ProcessedAt, Through
<1> QED
  BY <1>2, <1>3, <1>5, <1>6, <1>7, <1>8, <1>9, <1>10, GroupSteps

-----------------------------------------------------------------------------
(* The dispatch.                                                            *)

\* At the start nothing is dispatched.
LEMMA InitDispatch == Init => DispatchInv
BY NoHandlerType DEF Init, DispatchInv, DispatchAt

\* A source that is dispatched to is settled, whether that succeeds or fails;
\* the others stay as they are.
LEMMA ProcessKeepsDispatch ==
    ASSUME TypeInv, NEW h \in Handlers, DispatchAt(h), Process(h)
    PROVE  DispatchAt(h)'
<1>0. sources \in Listing /\ handler[h] \in HandlerType
  BY DEF TypeInv
<1>a. handler'[h].payload = handler[h].payload
  BY ProcessSteps
<1>1. CASE /\ handler[h].pc = "parse" /\ handler'[h].pc \in {"list", "end"}
           /\ handler'[h].pc = "list" => handler[h].payload # Malformed
           /\ handler'[h].listed = handler[h].listed
           /\ handler'[h].sent = handler[h].sent
           /\ handler'[h].todo = handler[h].todo
  BY <1>a, <1>1 DEF DispatchAt
<1>2. CASE /\ handler[h].pc = "list" /\ handler'[h].pc = "dispatch"
           /\ handler'[h].listed = sources
           /\ handler'[h].sent = handler[h].sent
           /\ handler'[h].todo =
                 {s \in {z \in Sources : sources[z] # NoSpec} :
                     Matched(sources[s], handler[h].payload) # {}}
  <2>1. handler'[h].sent = {} /\ handler[h].payload # Malformed
    BY <1>2 DEF DispatchAt
  <2>2. \A s \in Sources : SentTo(h, s)' = {}
    BY <2>1 DEF SentTo
  <2>3. ASSUME NEW s \in Sources
        PROVE  IF s \in handler'[h].todo
               THEN handler'[h].listed[s] # NoSpec /\ SentTo(h, s)' = {}
               ELSE Settled(h, s)'
    <3>1. CASE s \in handler'[h].todo
      BY <1>2, <2>2, <3>1
    <3>2. CASE s \notin handler'[h].todo
      <4>1. \/ sources[s] = NoSpec
            \/ Matched(sources[s], handler[h].payload) = {}
        BY <1>2, <3>2
      <4> QED BY <1>a, <1>2, <2>2, <3>2, <4>1 DEF Settled
    <3> QED BY <3>1, <3>2
  <2> QED BY <1>0, <1>a, <1>2, <2>1, <2>3 DEF DispatchAt
<1>3. CASE /\ handler[h].pc = "dispatch" /\ handler'[h].pc = "dispatch"
           /\ handler'[h].listed = handler[h].listed
           /\ \E s \in handler[h].todo :
                 /\ handler'[h].todo = handler[h].todo \ {s}
                 /\ \/ /\ handler'[h].sent = handler[h].sent \cup Sent(h, s)
                       /\ handler'[h].lost = handler[h].lost
                    \/ \E why \in Reasons :
                          /\ handler'[h].sent = handler[h].sent
                          /\ handler'[h].lost =
                                handler[h].lost \cup {<<s, why>>}
  <2>1. PICK s \in handler[h].todo :
                 /\ handler'[h].todo = handler[h].todo \ {s}
                 /\ \/ /\ handler'[h].sent = handler[h].sent \cup Sent(h, s)
                       /\ handler'[h].lost = handler[h].lost
                    \/ \E why \in Reasons :
                          /\ handler'[h].sent = handler[h].sent
                          /\ handler'[h].lost =
                                handler[h].lost \cup {<<s, why>>}
    BY <1>3
  <2>2. /\ handler[h].listed \in Listing /\ handler[h].payload # Malformed
        /\ \A t \in Sources :
              IF t \in handler[h].todo
              THEN handler[h].listed[t] # NoSpec /\ SentTo(h, t) = {}
              ELSE Settled(h, t)
        /\ s \in Sources
    BY <1>0, <1>3 DEF DispatchAt, HandlerType
  <2>3. handler[h].lost \subseteq handler'[h].lost
    BY <2>1
  <2>4. \A t \in Sources \ {s} : SentTo(h, t)' = SentTo(h, t)
    <3>1. \A x \in Sent(h, s) : x[1] = s
      BY DEF Sent
    <3> QED BY <2>1, <3>1 DEF SentTo
  <2>5. \A t \in Sources \ {s} : Settled(h, t) => Settled(h, t)'
    BY <1>a, <1>3, <2>3, <2>4 DEF Settled
  <2>6. Settled(h, s)'
    <3>1. SentTo(h, s) = {} /\ handler[h].listed[s] # NoSpec
      BY <2>1, <2>2
    <3>2. CASE handler'[h].sent = handler[h].sent \cup Sent(h, s)
      <4>1. {x[2] : x \in {y \in Sent(h, s) : y[1] = s}} =
               Matched(handler[h].listed[s], handler[h].payload)
        <5> DEFINE M == Matched(handler[h].listed[s], handler[h].payload)
        <5>1. \A y \in Sent(h, s) : y[1] = s /\ y[2] \in M
          BY DEF Sent
        <5>2. \A m \in M : <<s, m>> \in Sent(h, s)
          BY DEF Sent
        <5>3. \A m \in M : <<s, m>>[1] = s /\ <<s, m>>[2] = m
          OBVIOUS
        <5> HIDE DEF M
        <5>4. {x[2] : x \in {y \in Sent(h, s) : y[1] = s}} = M
          BY <5>1, <5>2, <5>3
        <5> QED BY <5>4 DEF M
      <4>2. SentTo(h, s)' =
               SentTo(h, s) \cup {x[2] : x \in {y \in Sent(h, s) : y[1] = s}}
        BY <3>2 DEF SentTo
      <4> QED BY <1>a, <1>3, <3>1, <4>1, <4>2 DEF Settled
    <3>3. CASE \E why \in Reasons :
                  /\ handler'[h].sent = handler[h].sent
                  /\ handler'[h].lost = handler[h].lost \cup {<<s, why>>}
      <4>1. SentTo(h, s)' = {}
        BY <3>1, <3>3 DEF SentTo
      <4>2. \E x \in handler'[h].lost : x[1] = s
        <5>1. PICK why \in Reasons :
                 handler'[h].lost = handler[h].lost \cup {<<s, why>>}
          BY <3>3
        <5>2. <<s, why>> \in handler'[h].lost /\ <<s, why>>[1] = s
          BY <5>1
        <5> QED BY <5>2
      <4> QED BY <4>1, <4>2 DEF Settled
    <3> QED BY <2>1, <3>2, <3>3
  <2> QED
    BY <1>a, <1>3, <2>1, <2>2, <2>4, <2>5, <2>6 DEF DispatchAt
<1>4. CASE /\ handler[h].pc = "dispatch" /\ handler'[h].pc = "end"
           /\ handler[h].todo = {} /\ handler'[h].todo = {}
           /\ handler'[h].listed = handler[h].listed
           /\ handler'[h].sent = handler[h].sent
           /\ handler'[h].lost = handler[h].lost
  <2>1. \A s \in Sources : Settled(h, s) => Settled(h, s)'
    BY <1>a, <1>4 DEF Settled, SentTo
  <2> QED BY <1>a, <1>4, <2>1 DEF DispatchAt
<1> QED BY <1>1, <1>2, <1>3, <1>4, ProcessSteps

\* Each step keeps it.
LEMMA NextDispatch ==
    ASSUME TypeInv, OffsetInv, DispatchInv, [Next]_vars
    PROVE  DispatchInv'
<1> SUFFICES ASSUME NEW h \in Handlers PROVE DispatchAt(h)'
  BY DEF DispatchInv
<1>0. DispatchAt(h)
  BY DEF DispatchInv
<1>1. CASE Goes(h)
  <2>1. \A s \in Sources :
           SentTo(h, s)' = SentTo(h, s) /\ (Settled(h, s) => Settled(h, s)')
    BY <1>1 DEF Goes, Settled, SentTo
  <2> QED BY <1>0, <1>1, <2>1 DEF Goes, DispatchAt
<1>2. CASE Starts(h)
  BY <1>2 DEF Starts, DispatchAt
<1>3. CASE handler'[h] = NoHandler
  BY <1>3, NoHandlerType DEF DispatchAt
<1> QED BY <1>0, <1>1, <1>2, <1>3, HandlerSteps, ProcessKeepsDispatch

-----------------------------------------------------------------------------
(* The pattern of an event.                                                 *)

\* A pattern with * matches the names it is a prefix of, one without itself.
LEMMA MatchEventMeaning ==
    ASSUME NEW e, e.any \in BOOLEAN, e.parts \in Seq(STRING),
           NEW n \in Seq(STRING)
    PROVE  MatchEvent(e, n) <=>
              \/ n = e.parts
              \/ e.any /\ \E q \in 0 .. Len(n) : SubSeq(n, 1, q) = e.parts
<1>1. /\ Len(e.parts) \in Nat /\ Len(n) \in Nat
      /\ SubSeq(e.parts, 1, Len(e.parts)) = e.parts
      /\ SubSeq(n, 1, Len(n)) = n
  OBVIOUS
<1>2. \A q \in 0 .. Len(n) : Len(SubSeq(n, 1, q)) = q
  BY <1>1
<1>3. CASE ~e.any
  BY <1>3 DEF MatchEvent
<1>4. CASE e.any
  <2>1. ASSUME MatchEvent(e, n)
        PROVE  \E q \in 0 .. Len(n) : SubSeq(n, 1, q) = e.parts
    <3>1. /\ Len(e.parts) <= Len(n)
          /\ SubSeq(e.parts, 1, Len(e.parts)) = SubSeq(n, 1, Len(e.parts))
      BY <1>4, <2>1 DEF MatchEvent, IsPrefix
    <3>2. Len(e.parts) \in 0 .. Len(n)
      BY <1>1, <3>1
    <3> QED BY <1>1, <3>1, <3>2
  <2>2. ASSUME NEW q \in 0 .. Len(n), SubSeq(n, 1, q) = e.parts
        PROVE  MatchEvent(e, n)
    <3>1. Len(e.parts) = q /\ q <= Len(n)
      BY <1>1, <1>2, <2>2
    <3> QED BY <1>1, <1>4, <2>2, <3>1 DEF MatchEvent, IsPrefix
  <2>3. n = e.parts => MatchEvent(e, n)
    BY <1>1, <1>4 DEF MatchEvent, IsPrefix
  <2> QED BY <1>4, <2>1, <2>2, <2>3
<1> QED BY <1>3, <1>4

\* Where the buckets have the names of their claims.
BucketsAreClaims == \A spec \in Specs : BucketOf[spec.claim] = spec.claim

\* There, what is matched is what is asked for.
LEMMA MatchedIsAsked ==
    ASSUME BucketsAreClaims, NEW spec \in Specs,
           NEW x \in Payloads \cup {{}}, x # Malformed
    PROVE  Matched(spec, x) = Asked(spec, x)
<1>1. ASSUME NEW r \in x, NEW e \in spec.events
      PROVE  MatchEvent(e, r.name) <=>
                r.name \in {n \in Names(x) :
                   \/ n = e.parts
                   \/ e.any /\ \E q \in 0 .. Len(n) : SubSeq(n, 1, q) = e.parts}
  <2>1. /\ e.any \in BOOLEAN /\ e.parts \in Seq(STRING)
        /\ r.name \in Seq(STRING)
    BY NamesAssumption
  <2>2. MatchEvent(e, r.name) <=>
           \/ r.name = e.parts
           \/ e.any /\ \E q \in 0 .. Len(r.name) :
                          SubSeq(r.name, 1, q) = e.parts
    BY <2>1, MatchEventMeaning
  <2> QED BY <2>2 DEF Names
<1> QED BY <1>1 DEF Matched, Asked, BucketsAreClaims

-----------------------------------------------------------------------------
(* The theorems.                                                            *)

\* The invariants hold in every reachable state.
LEMMA InvariantsHold == Spec => []Inv
<1>1. Init => Inv
  BY InitTypes, InitOffsets, InitDispatch DEF Inv
<1>2. Inv /\ [Next]_vars => Inv'
  BY NextTypes, NextOffsets, NextProcessed, NextDispatch DEF Inv
<1> QED BY <1>1, <1>2, PTL DEF Spec

\* The goroutines, the sources and the offsets have their types, and the
\* offsets of ConsumeClaim and of the consumer group are in order.
THEOREM TypeCorrect == Spec => []TypeOK
<1>1. Inv => TypeOK
  <2> SUFFICES ASSUME Inv PROVE TypeOK
    OBVIOUS
  <2>1. \A h \in Handlers :
           /\ handler[h].pc \in {"idle", "parse", "list", "dispatch", "end"}
           /\ handler[h].payload \in Payloads \cup {{}}
           /\ handler[h].todo \subseteq Sources
    BY DEF Inv, TypeInv, HandlerType
  <2> QED BY <2>1 DEF Inv, TypeInv, OffsetInv, TypeOK, Listing
<1> QED BY <1>1, InvariantsHold, PTL

\* What ConsumeClaim has let the group commit was processed to its end, or was
\* there before the group had committed anything.
THEOREM CommittedIsProcessed == Spec => []CommittedWasProcessed
<1>1. Inv => CommittedWasProcessed
  BY DEF Inv, ProcessedInv, Through, CommittedWasProcessed
<1> QED BY <1>1, InvariantsHold, PTL

\* Where the buckets have the names of their claims, dispatchDataEvents has
\* sent each source exactly the records it asks for, or its dispatch failed.
THEOREM DispatchStaysExact ==
    BucketsAreClaims => (Spec => []DispatchIsExact)
<1> SUFFICES ASSUME BucketsAreClaims PROVE Spec => []DispatchIsExact
  OBVIOUS
<1>1. BucketsAreClaims /\ Inv => DispatchIsExact
  <2> SUFFICES ASSUME BucketsAreClaims, Inv, NEW h \in Handlers,
                      handler[h].pc = "end", handler[h].listed # NoSpec,
                      NEW s \in Sources
               PROVE  \/ handler[h].listed[s] = NoSpec /\ SentTo(h, s) = {}
                      \/ /\ handler[h].listed[s] # NoSpec
                         /\ SentTo(h, s) =
                              Asked(handler[h].listed[s], handler[h].payload)
                      \/ /\ \E x \in handler[h].lost : x[1] = s
                         /\ SentTo(h, s) = {}
    BY DEF DispatchIsExact
  <2>1. /\ handler[h].payload # Malformed
        /\ handler[h].payload \in Payloads \cup {{}}
        /\ handler[h].listed \in Listing
        /\ Settled(h, s)
    BY DEF Inv, TypeInv, HandlerType, DispatchInv, DispatchAt
  <2>2. handler[h].listed[s] # NoSpec => handler[h].listed[s] \in Specs
    BY <2>1 DEF Listing
  <2> QED BY <2>1, <2>2, MatchedIsAsked DEF Settled
<1> QED BY <1>1, InvariantsHold, PTL
-----------------------------------------------------------------------------
(* The refinement of TopicConsumption.                                      *)

\* The number of committed messages, as Consumption gives it.
committedBar ==
    [p \in Partitions |-> IF committed[p] = NoOffset THEN 0 ELSE committed[p]]

\* A step that leaves the variables as they are is a stutter.
LEMMA Stutters ==
    ASSUME UNCHANGED <<log, done, skipped, committedBar>>
    PROVE  UNCHANGED Consumption!vars
BY DEF Consumption!vars, committedBar

\* What is processed or skipped is behind the consumers.
LEMMA ThroughIsBehind ==
    ASSUME NEW p \in Partitions, NEW n, Through(p, n)
    PROVE  Consumption!Behind(p, n)
BY DEF Through, Consumption!Behind, Consumption!Offsets

\* A message is marked after those before it were.
LEMMA MarkRefines ==
    ASSUME Inv, NEW p \in Partitions, MarkMessage(p)
    PROVE  Consumption!Handle(p)
<1> DEFINE o == position[p] - 1
<1>1. handler[p] # NoHandler
  BY NoHandlerType DEF MarkMessage
<1>2. /\ position[p] \in Nat /\ fetched[p] \in Nat /\ Len(log[p]) \in Nat
      /\ position[p] > 0 /\ position[p] <= fetched[p]
      /\ fetched[p] <= Len(log[p]) /\ session # "none"
  BY <1>1 DEF Inv, TypeInv, OffsetInv
<1>3. o \in Consumption!Offsets(Len(log[p]))
  BY <1>2 DEF Consumption!Offsets
<1>4. Consumption!Behind(p, o)
  BY <1>1, <1>2, ThroughIsBehind DEF Inv, ProcessedInv
<1>5. /\ done' = [done EXCEPT ![p] = @ \cup {o}]
      /\ UNCHANGED <<log, skipped, committedBar>>
  BY DEF MarkMessage, committedBar
<1> HIDE DEF o
<1> QED BY <1>3, <1>4, <1>5 DEF Consumption!Handle, committedBar

\* The group commits what is marked, and no less than before.
LEMMA CommitRefines ==
    ASSUME Inv, committed' = marked, UNCHANGED <<log, done, skipped>>
    PROVE  Consumption!Commit
<1>1. ASSUME NEW p \in Partitions
      PROVE  /\ committedBar'[p] \in Nat /\ committedBar[p] <= committedBar'[p]
             /\ Consumption!Behind(p, committedBar'[p])
  <2>1. /\ committed[p] \in Int /\ marked[p] \in Int
        /\ -1 <= committed[p] /\ committed[p] <= marked[p]
    BY DEF Inv, TypeInv, OffsetInv, NoOffset
  <2>2. committedBar'[p] = IF marked[p] = -1 THEN 0 ELSE marked[p]
    BY DEF committedBar, NoOffset
  <2>3. committedBar[p] = IF committed[p] = -1 THEN 0 ELSE committed[p]
    BY DEF committedBar, NoOffset
  <2>4. Through(p, marked[p]) /\ Through(p, 0)
    BY DEF Inv, ProcessedInv, Through
  <2>5. Through(p, committedBar'[p])
    BY <2>2, <2>4
  <2>6. Consumption!Behind(p, committedBar'[p])
    <3> DEFINE n == committedBar'[p]
    <3>1. Through(p, n)
      BY <2>5
    <3> HIDE DEF n
    <3>2. Consumption!Behind(p, n)
      BY <3>1, ThroughIsBehind
    <3> QED BY <3>2 DEF n
  <2> QED BY <2>1, <2>2, <2>3, <2>6
<1>2. committedBar' \in [Partitions -> Nat]
  <2>1. committedBar' = [p \in Partitions |-> committedBar'[p]]
    BY DEF committedBar
  <2> QED BY <1>1, <2>1
<1> QED BY <1>1, <1>2 DEF Consumption!Commit, committedBar

\* A session skips messages where nothing is committed.
LEMMA StartRefines ==
    ASSUME Inv, StartSession
    PROVE  Consumption!Join
<1>1. ASSUME NEW p \in Partitions
      PROVE  \/ skipped'[p] = skipped[p]
             \/ /\ committedBar[p] = 0
                /\ skipped'[p] = Consumption!Offsets(Len(log[p]))
  BY DEF StartSession, committedBar, Consumption!Offsets
<1>2. skipped' \in [Partitions -> SUBSET Nat]
  <2>1. ASSUME NEW p \in Partitions PROVE skipped'[p] \subseteq Nat
    <3>1. skipped[p] \subseteq Nat /\ Len(log[p]) \in Nat
      BY DEF Inv, TypeInv
    <3> QED BY <1>1, <3>1 DEF Consumption!Offsets
  <2>2. skipped' = [p \in Partitions |-> skipped'[p]]
    BY DEF StartSession
  <2> QED BY <2>1, <2>2
<1>3. UNCHANGED <<log, done, committedBar>>
  BY DEF StartSession, committedBar
<1> QED BY <1>1, <1>2, <1>3 DEF Consumption!Join, committedBar

\* ConsumeClaim and its group keep what TopicConsumption promises the storage
\* that publishes: in order, at least once, and nothing skipped once the group
\* has committed, through rebalances, stops and crashes at any moment.
THEOREM ImplementsTopicConsumption == Spec => ImplementsConsumption
<1>1. Init => Consumption!Init
  BY DEF Init, Consumption!Init
<1>2. ASSUME Inv, [Next]_vars
      PROVE  [Consumption!Next]_Consumption!vars
  <2>1. CASE UNCHANGED <<log, done, skipped, committed>>
    BY <2>1, Stutters DEF committedBar
  <2>2. ASSUME NEW p \in Partitions, Publish(p)
        PROVE  Consumption!Next
    <3>1. Consumption!Publish(p)
      BY <2>2 DEF Publish, Consumption!Publish
    <3> QED BY <3>1 DEF Consumption!Next
  <2>3. ASSUME NEW p \in Partitions, MarkMessage(p)
        PROVE  Consumption!Next
    BY <1>2, <2>3, MarkRefines DEF Consumption!Next
  <2>4. CASE Commit \/ ReleaseSession
    BY <1>2, <2>4, CommitRefines DEF Commit, ReleaseSession, Consumption!Next
  <2>5. CASE StartSession
    BY <1>2, <2>5, StartRefines DEF Consumption!Next
  <2>6. ASSUME \/ UNCHANGED groupVars
               \/ \E p \in Partitions : Fetch(p) \/ Receive(p)
               \/ EndSession \/ CrashAndRestart
        PROVE  UNCHANGED <<log, done, skipped, committed>>
    BY <2>6 DEF groupVars, Fetch, Receive, EndSession, CrashAndRestart
  <2> QED BY <1>2, <2>1, <2>2, <2>3, <2>4, <2>5, <2>6, GroupSteps
<1> QED
  BY <1>1, <1>2, InvariantsHold, PTL DEF Spec, ImplementsConsumption,
     Consumption!Spec
=============================================================================
