----------------------- MODULE ObjectBucketSourceProofs -----------------------
(***************************************************************************)
(* Proofs about ObjectBucketSource, for every set of sources, claims and   *)
(* event types and every bound: types, the properties SetIsHonest,         *)
(* CoveredAtRest and TestEventKept, and that it implements                 *)
(* BucketSubscription.                                                     *)
(***************************************************************************)
EXTENDS ObjectBucketSource, TLAPS

-----------------------------------------------------------------------------
(* The inductive invariant.                                                *)

\* The Reconcile that runs is one of s.
Busy(s) == work.source = s

InstallSteps == {"finalize", "claim", "noCreds", "creds", "merge", "put",
                 "set", "notSet"}
RemoveSteps  == {"deleteClaim", "deleteMerge", "deletePut", "unfinalize"}

\* What is live has a claim and a generation, and a condition is about a
\* generation that there has been.
WellFormed(o) ==
    /\ o.live => o.claim \in Claims /\ o.gen # 0
    /\ o.set.gen <= o.gen

\* o is an earlier version of the present object p: at the same generation an
\* active p tells that o was live, not deleting and had the same spec.
Precedes(o, p) ==
    /\ o.gen <= p.gen
    /\ o.gen = p.gen /\ p.live /\ ~p.deleting =>
          /\ o.live /\ ~o.deleting
          /\ o.claim = p.claim /\ o.events = p.events

\* The informer's store lags behind the API server, and knows when it does not.
StoreInOrder(s) ==
    /\ WellFormed(object[s]) /\ WellFormed(cache[s])
    /\ Precedes(cache[s], object[s])
    /\ s \notin lag => cache[s] = object[s]

\* BucketNotificationSet=True for the present generation.
Acked(s) ==
    Active(s) /\ object[s].set = [is |-> "True", gen |-> object[s].gen]

\* What is owed to s: it has been told that it is subscribed, or nothing is to
\* be done for it any more.
Owed(s) == Acked(s) \/ (Active(s) /\ AtRest(s))

\* The store has the generation of a source that is owed its events, so that
\* MergedEvents counts them, and the notification has them.
OwedIsKept(s) ==
    Owed(s) =>
        /\ cache[s].gen = object[s].gen
        /\ claim[object[s].claim] \in {"ready", "gone"}
        /\ Covered(s)

\* The working copy: of the source's history, the present version as long as
\* nobody else has written, and otherwise an event is there or to come. An
\* acknowledgement of a later generation is not given while it is at work.
CopyInOrder(s) ==
    Busy(s) =>
        /\ work.pc # "idle"
        /\ WellFormed(work.copy) /\ work.copy.live
        /\ work.copy.deleting = (work.pc \in RemoveSteps)
        /\ Precedes(work.copy, object[s])
        /\ work.copy.gen <= cache[s].gen
        /\ IF work.stale THEN s \in lag \cup queue ELSE object[s] = work.copy
        /\ Acked(s) => work.copy.gen = object[s].gen

\* What is about to be written to the storage has the events that are owed to
\* the sources of the bucket, and those of the source at work.
MergedIsEnough ==
    work.pc \in {"put", "deletePut"} =>
        /\ \A s \in Sources :
              Owed(s) /\ object[s].claim = work.copy.claim =>
                  object[s].events \subseteq work.merged
        /\ work.pc = "put" /\ ~work.stale =>
              work.copy.events \subseteq work.merged

\* Before the condition is set the storage has the events of the source.
PutIsDone ==
    work.pc = "set" /\ ~work.stale =>
        /\ claim[work.copy.claim] \in {"ready", "gone"}
        /\ claim[work.copy.claim] = "ready" =>
              work.copy.events \subseteq notification[work.copy.claim]

SourceInv(s) == StoreInOrder(s) /\ OwedIsKept(s) /\ CopyInOrder(s)

\* Types, and that a Reconcile that runs has a source.
TypeInv ==
    /\ TypeOK
    /\ work.source = NoSource => work.pc = "idle"

Inv ==
    /\ TypeInv
    /\ \A s \in Sources : SourceInv(s)
    /\ MergedIsEnough
    /\ PutIsDone

-----------------------------------------------------------------------------
(* Types.                                                                   *)

\* The objects the actions write have their type.
LEMMA ObjectTypes ==
    /\ \A gen \in 0 .. MaxGeneration :
          /\ NoObject(gen) \in Object
          /\ \A c \in Claims, es \in Requests : NewObject(gen, c, es) \in Object
    /\ \A o, p \in Object : StatusCopy(o, p) \in Object
    /\ \A o \in Object : \A is \in {"None", "True", "False"} :
          [o EXCEPT !.set = [is |-> is, gen |-> o.gen]] \in Object
    /\ \A o \in Object :
          /\ o.gen \in 0 .. MaxGeneration
          /\ o.claim \in Claims \cup {NoClaim}
          /\ o.events \in SUBSET EventTypes
          /\ [o EXCEPT !.deleting = TRUE] \in Object
          /\ [o EXCEPT !.finalizer = TRUE] \in Object
          /\ [o EXCEPT !.tested = TRUE] \in Object
          /\ o.gen < MaxGeneration =>
                /\ o.gen + 1 \in 0 .. MaxGeneration
                /\ \A c \in Claims, es \in Requests :
                      [o EXCEPT !.gen = @ + 1, !.claim = c, !.events = es]
                         \in Object
<1>1. NoCondition \in Condition
  BY BucketBoundsAssumption DEF NoCondition, Condition
<1>2. \A es \in Requests : es \in SUBSET EventTypes
  BY DEF EventTypes
<1>3. \A gen \in 0 .. MaxGeneration :
          \A c \in Claims \cup {NoClaim}, es \in SUBSET EventTypes :
             NewObject(gen, c, es) \in Object
  BY <1>1 DEF NewObject, Object
<1>4. \A gen \in 0 .. MaxGeneration : NoObject(gen) \in Object
  <2> SUFFICES ASSUME NEW gen \in 0 .. MaxGeneration
               PROVE  NoObject(gen) \in Object
    OBVIOUS
  <2>1. NewObject(gen, NoClaim, {}) \in Object
    BY <1>3
  <2> QED BY <2>1 DEF NoObject, Object
<1>5. \A o, p \in Object : StatusCopy(o, p) \in Object
  BY DEF StatusCopy, Object
<1>6. \A o \in Object : \A is \in {"None", "True", "False"} :
          [o EXCEPT !.set = [is |-> is, gen |-> o.gen]] \in Object
  BY DEF Object, Condition
<1>7. \A o \in Object :
          /\ o.gen \in 0 .. MaxGeneration
          /\ o.claim \in Claims \cup {NoClaim}
          /\ o.events \in SUBSET EventTypes
          /\ [o EXCEPT !.deleting = TRUE] \in Object
          /\ [o EXCEPT !.finalizer = TRUE] \in Object
          /\ [o EXCEPT !.tested = TRUE] \in Object
  BY DEF Object
<1>8. ASSUME NEW o \in Object, o.gen < MaxGeneration
      PROVE  /\ o.gen + 1 \in 0 .. MaxGeneration
             /\ \A c \in Claims, es \in Requests :
                   [o EXCEPT !.gen = @ + 1, !.claim = c, !.events = es]
                      \in Object
  <2>1. o.gen \in 0 .. MaxGeneration
    BY <1>7
  <2>2. o.gen + 1 \in 0 .. MaxGeneration
    BY <1>8, <2>1, BucketBoundsAssumption
  <2> QED BY <2>2, <1>2 DEF Object
<1> QED BY <1>2, <1>3, <1>4, <1>5, <1>6, <1>7, <1>8

\* No Reconcile runs.
LEMMA NoWorkType ==
    NoWork \in Work /\ NoWork.pc = "idle" /\ NoWork.source = NoSource
<1>0. 0 \in 0 .. MaxGeneration
  BY BucketBoundsAssumption
<1>1. NoObject(0) \in Object
  BY <1>0, ObjectTypes
<1> QED BY <1>1 DEF NoWork, Work, Steps

\* The steps of users, provisioner, informer and kubelet keep the types.
LEMMA EnvironmentTypes ==
    ASSUME TypeInv,
           \/ \E s \in Sources : \/ CreateSource(s) \/ ChangeSource(s)
                                 \/ DeleteSource(s) \/ HandleTestEvent(s)
                                 \/ Deliver(s)
           \/ \E c \in Claims : Provision(c) \/ WithdrawClaim(c)
           \/ CrashAndRestart
    PROVE  TypeInv'
<1> USE DEF TypeInv, TypeOK
<1>a. \A k \in Disturbances : Spend(k) => spent' \in [Disturbances -> Nat]
  BY DEF Spend
<1>b. ASSUME NEW s \in Sources, NEW o \in Object, Written(s, o)
      PROVE  /\ object' \in [Sources -> Object]
             /\ lag' \in SUBSET Sources
             /\ work' \in Work
             /\ work'.source = work.source
             /\ work'.copy = work.copy
             /\ work'.pc = work.pc
  <2>1. [work EXCEPT !.stale = TRUE] \in Work
    BY DEF Work
  <2>2. work \in Work
    OBVIOUS
  <2>3. /\ work'.source = work.source
        /\ work'.copy = work.copy
        /\ work'.pc = work.pc
    BY <1>b, <2>2 DEF Written, Work
  <2> QED BY <1>b, <2>1, <2>3 DEF Written
<1>c. \A s \in Sources : object[s] \in Object
  OBVIOUS
<1>1. ASSUME NEW s \in Sources, CreateSource(s) PROVE TypeInv'
  BY <1>1, <1>a, <1>b, <1>c, ObjectTypes
     DEF CreateSource, informerVars, storageVars, Disturbances
<1>2. ASSUME NEW s \in Sources, ChangeSource(s) PROVE TypeInv'
  BY <1>2, <1>a, <1>b, <1>c, ObjectTypes
     DEF ChangeSource, informerVars, storageVars, Disturbances
<1>3. ASSUME NEW s \in Sources, DeleteSource(s) PROVE TypeInv'
  BY <1>3, <1>b, <1>c, ObjectTypes
     DEF DeleteSource, informerVars, storageVars
<1>4. ASSUME NEW s \in Sources, HandleTestEvent(s) PROVE TypeInv'
  BY <1>4, <1>a, <1>b, <1>c, ObjectTypes
     DEF HandleTestEvent, informerVars, storageVars, Disturbances
<1>5. ASSUME NEW s \in Sources, Deliver(s) PROVE TypeInv'
  BY <1>5 DEF Deliver, storageVars
<1>6. ASSUME NEW c \in Claims, Provision(c) PROVE TypeInv'
  BY <1>6 DEF Provision, informerVars
<1>7. ASSUME NEW c \in Claims, WithdrawClaim(c) PROVE TypeInv'
  BY <1>7, <1>a DEF WithdrawClaim, informerVars, Disturbances
<1>8. ASSUME CrashAndRestart PROVE TypeInv'
  BY <1>8, NoWorkType, <1>a DEF CrashAndRestart, storageVars, Disturbances
<1> QED
  BY <1>1, <1>2, <1>3, <1>4, <1>5, <1>6, <1>7, <1>8

\* The steps of a Reconcile keep the types.
LEMMA ReconcileTypes ==
    ASSUME TypeInv, Step \/ \E s \in Sources : BeginReconcile(s)
    PROVE  TypeInv'
<1> USE DEF TypeInv, TypeOK
<1>a. /\ NoWork \in Work
      /\ NoWork.pc = "idle" /\ NoWork.source = NoSource
  BY NoWorkType
<1>b. /\ \A cond \in BOOLEAN : FailsIf(cond) => spent' \in [Disturbances -> Nat]
  BY DEF FailsIf, Spend, Disturbances
<1>c. work.pc # "idle" => work.source \in Sources
  BY DEF Work
<1>d. \A pc \in Steps :
         GoTo(pc) /\ work.pc # "idle"
            => /\ work' \in Work /\ work'.source = work.source
               /\ work'.copy = work.copy
  BY DEF GoTo, Work
<1>e. Return \/ ReturnAndRequeue =>
         (work.pc # "idle" =>
            /\ work' \in Work /\ queue' \in SUBSET Sources
            /\ work'.source = NoSource /\ work'.pc = "idle")
  BY <1>a, <1>c DEF Return, ReturnAndRequeue
<1>f. \A o \in Object : Update(o) /\ work.pc # "idle" =>
         /\ object' \in [Sources -> Object]
         /\ lag' \in SUBSET Sources
         /\ queue' \in SUBSET Sources
         /\ spent' \in [Disturbances -> Nat]
         /\ work' \in Work
         /\ work'.source = NoSource /\ work'.pc = "idle"
  BY <1>a, <1>b, <1>c, <1>e DEF Update, Work
<1>g. \A o \in Object : \A again \in BOOLEAN :
         WriteStatus(o, again) /\ work.pc # "idle" =>
            /\ object' \in [Sources -> Object]
            /\ lag' \in SUBSET Sources
            /\ spent' \in [Disturbances -> Nat]
  <2> SUFFICES ASSUME NEW o \in Object, NEW again \in BOOLEAN,
                      WriteStatus(o, again), work.pc # "idle"
               PROVE  /\ object' \in [Sources -> Object]
                      /\ lag' \in SUBSET Sources
                      /\ spent' \in [Disturbances -> Nat]
    OBVIOUS
  <2>1. StatusCopy(object[work.source], o) \in Object
    BY <1>c, ObjectTypes
  <2>2. work.stale \in BOOLEAN
    BY DEF Work
  <2> QED BY <2>1, <2>2, <1>b, <1>c DEF WriteStatus
<1>h. /\ work.copy \in Object /\ work.copy.gen \in 0 .. MaxGeneration
      /\ \A is \in {"True", "False"} : WithSet(is) \in Object
      /\ [work.copy EXCEPT !.finalizer = TRUE] \in Object
      /\ NoObject(work.copy.gen) \in Object
  <2>1. work.copy \in Object
    BY DEF Work
  <2> HIDE DEF TypeInv, TypeOK
  <2>2. /\ work.copy.gen \in 0 .. MaxGeneration
        /\ [work.copy EXCEPT !.finalizer = TRUE] \in Object
    BY <2>1, ObjectTypes
  <2>3. \A is \in {"True", "False"} : WithSet(is) \in Object
    BY <2>1, ObjectTypes DEF WithSet
  <2>4. NoObject(work.copy.gen) \in Object
    BY <2>2, ObjectTypes
  <2> QED BY <2>1, <2>2, <2>3, <2>4
<1>i. /\ PutSucceeds \/ PutFails =>
         /\ notification' \in [Claims -> SUBSET EventTypes]
         /\ spent' \in [Disturbances -> Nat]
  BY <1>b DEF PutSucceeds, PutFails, Work
<1>1. ASSUME NEW s \in Sources, BeginReconcile(s) PROVE TypeInv'
  <2> DEFINE step == CASE ~cache[s].live -> "idle"
                       [] cache[s].live /\ cache[s].deleting ->
                            IF cache[s].finalizer THEN "deleteClaim" ELSE "idle"
                       [] cache[s].live /\ ~cache[s].deleting ->
                            IF cache[s].finalizer THEN "claim" ELSE "finalize"
  <2>1. cache[s] \in Object
    OBVIOUS
  <2>2. step \in Steps /\ (step # "idle" => cache[s].live)
    BY <2>1 DEF Steps, Object
  <2>3. work' = IF step = "idle" THEN NoWork
                ELSE [NoWork EXCEPT !.pc = step, !.source = s,
                                    !.copy = cache[s], !.stale = s \in lag]
    BY <1>1 DEF BeginReconcile
  <2> HIDE DEF step
  <2>4. CASE step = "idle"
    BY <1>1, <1>a, <2>3, <2>4 DEF BeginReconcile, storageVars
  <2>5. CASE step # "idle"
    <3>1. NoWork \in [pc : Steps, source : Sources \cup {NoSource},
                      copy : Object, stale : BOOLEAN,
                      merged : SUBSET EventTypes]
      BY <1>a DEF Work
    <3> DEFINE w == [NoWork EXCEPT !.pc = step, !.source = s,
                                  !.copy = cache[s], !.stale = s \in lag]
    <3>0. (s \in lag) \in BOOLEAN
      OBVIOUS
    <3>2. work' \in Work
      <4> HIDE DEF TypeInv, TypeOK
      <4>1. w \in Work
        BY <2>1, <2>2, <3>0, <3>1 DEF Work
      <4> QED BY <2>3, <2>5, <4>1
    <3>3. work'.source = s /\ work'.copy = cache[s]
      BY <2>3, <2>5, <3>1
    <3> QED
      BY <1>1, <2>2, <2>5, <3>2, <3>3, BucketNamesAssumption
         DEF BeginReconcile, storageVars
  <2> QED BY <2>4, <2>5
<1>2. ASSUME Finalize PROVE TypeInv'
  BY <1>2, <1>f, <1>h DEF Finalize, storageVars
<1>3. ASSUME ReadClaim PROVE TypeInv'
  BY <1>3, <1>d DEF ReadClaim, Steps, informerVars, storageVars
<1>4. ASSUME ReportNoCreds PROVE TypeInv'
  BY <1>4, <1>e, <1>g, <1>h DEF ReportNoCreds, storageVars
<1>5. ASSUME ReportCreds PROVE TypeInv'
  BY <1>5, <1>d, <1>g, <1>h DEF ReportCreds, Steps, informerVars, storageVars
<1>6. ASSUME Merge \/ DeleteMerge PROVE TypeInv'
  <2>1. \A c \in Claims \cup {NoClaim}, x \in SUBSET Sources :
           MergedEvents(c, x) \in SUBSET EventTypes
    BY DEF MergedEvents, Object
  <2>2. work.copy.claim \in Claims \cup {NoClaim}
    BY <1>h DEF Object
  <2>3. \A es \in SUBSET EventTypes :
           LET w == [work EXCEPT !.pc = "put", !.merged = es]
               d == [work EXCEPT !.pc = "deletePut", !.merged = es]
           IN  /\ w \in Work /\ w.source = work.source /\ w.copy = work.copy
               /\ d \in Work /\ d.source = work.source /\ d.copy = work.copy
    BY DEF Work, Steps
  <2>4. work' \in Work /\ work'.source = work.source /\ work'.copy = work.copy
    <3>1. MergedEvents(work.copy.claim, {}) \in SUBSET EventTypes
      BY <2>1, <2>2
    <3>2. MergedEvents(work.copy.claim, {work.source}) \in SUBSET EventTypes
          \/ work.pc = "idle"
      BY <1>c, <2>1, <2>2
    <3> HIDE DEF TypeInv, TypeOK
    <3> QED BY <1>6, <2>3, <3>1, <3>2 DEF Merge, DeleteMerge
  <2> QED
    BY <1>6, <1>c, <2>4, BucketNamesAssumption
       DEF Merge, DeleteMerge, informerVars, storageVars
<1>7. ASSUME PutNotification PROVE TypeInv'
  BY <1>7, <1>d, <1>i DEF PutNotification, Steps, informerVars
<1>8. ASSUME ReportSet \/ ReportNotSet PROVE TypeInv'
  BY <1>8, <1>e, <1>g, <1>h DEF ReportSet, ReportNotSet, Return, storageVars
<1>9. ASSUME DeleteReadClaim PROVE TypeInv'
  BY <1>9, <1>d DEF DeleteReadClaim, Steps, informerVars, storageVars
<1>10. ASSUME DeletePut PROVE TypeInv'
  BY <1>10, <1>d, <1>i DEF DeletePut, Steps, informerVars
<1>11. ASSUME Unfinalize PROVE TypeInv'
  BY <1>11, <1>f, <1>h DEF Unfinalize, storageVars
<1> QED
  BY <1>1, <1>2, <1>3, <1>4, <1>5, <1>6, <1>7, <1>8, <1>9, <1>10, <1>11
     DEF Step

-----------------------------------------------------------------------------
(* The invariant and the steps of the environment.                          *)

\* o may follow the version p of a source without a Reconcile: a generation
\* keeps its spec and its test event, and is not acknowledged by others.
Follows(o, p) ==
    /\ p.gen <= o.gen
    /\ o.gen = p.gen /\ o.live /\ ~o.deleting =>
          /\ p.live /\ ~p.deleting
          /\ o.claim = p.claim /\ o.events = p.events /\ o.set = p.set
    /\ o.gen # p.gen => o.set.gen # o.gen
    /\ o.gen = p.gen /\ o.live /\ p.tested => o.tested

\* A write of another client than the Reconcile that runs keeps the invariant.
LEMMA WrittenKeepsInv ==
    ASSUME Inv, TypeInv', NEW s \in Sources, NEW o \in Object, Written(s, o),
           WellFormed(o), Follows(o, object[s]),
           UNCHANGED <<informerVars, storageVars>>
    PROVE  Inv'
<1> USE DEF Inv, informerVars, storageVars
<1>1. /\ object' = [object EXCEPT ![s] = o]
      /\ lag' = lag \cup {s}
      /\ work' = IF work.source = s THEN [work EXCEPT !.stale = TRUE] ELSE work
      /\ UNCHANGED <<cache, queue, claim, notification>>
      /\ object \in [Sources -> Object] /\ work \in Work
  BY DEF Written, TypeInv, TypeOK
<1>2. /\ work'.pc = work.pc /\ work'.source = work.source
      /\ work'.copy = work.copy /\ work'.merged = work.merged
      /\ work'.stale = (work.stale \/ work.source = s)
      /\ work.source # s => work' = work
  BY <1>1 DEF Work
<1>3. object'[s] = o /\ \A t \in Sources \ {s} : object'[t] = object[t]
  BY <1>1
<1>4. \A t \in Sources :
         Owed(t)' => /\ Owed(t)
                     /\ Acked(t)' => Acked(t) /\ object'[t].gen = object[t].gen
                     /\ object'[t].claim = object[t].claim
                     /\ object'[t].events = object[t].events
                     /\ object'[t].gen = object[t].gen
  <2>1. ASSUME NEW t \in Sources, t # s, Owed(t)'
        PROVE  Owed(t) /\ (Acked(t)' => Acked(t)) /\ object'[t] = object[t]
    BY <1>1, <1>2, <1>3, <2>1 DEF Owed, Acked, Active, AtRest
  <2>2. ASSUME Owed(s)'
        PROVE  /\ Acked(s) /\ o.claim = object[s].claim
               /\ o.events = object[s].events /\ o.gen = object[s].gen
    <3>1. o.live /\ ~o.deleting /\ o.set = [is |-> "True", gen |-> o.gen]
      BY <1>1, <1>3, <2>2 DEF Owed, Acked, Active, AtRest
    <3>2. o.gen = object[s].gen
      BY <3>1 DEF Follows
    <3> QED BY <3>1, <3>2 DEF Follows, Acked, Active
  <2> QED BY <1>3, <2>1, <2>2 DEF Owed
<1>5. ASSUME NEW t \in Sources PROVE SourceInv(t)'
  <2>1. SourceInv(t)
    OBVIOUS
  <2>2. StoreInOrder(t)'
    <3>1. CASE t # s
      BY <1>1, <1>3, <2>1, <3>1 DEF SourceInv, StoreInOrder
    <3>2. CASE t = s
      <4>1. object[s] \in Object /\ cache[s] \in Object
        BY DEF TypeInv, TypeOK
      <4>2. Precedes(cache[s], object[s])
        BY <2>1, <3>2 DEF SourceInv, StoreInOrder
      <4>3. Precedes(cache[s], o)
        BY <4>1, <4>2 DEF Precedes, Follows, Object
      <4> QED
        BY <1>1, <1>3, <2>1, <3>2, <4>3 DEF SourceInv, StoreInOrder
    <3> QED BY <3>1, <3>2
  <2>3. OwedIsKept(t)'
    BY <1>1, <1>4, <2>1 DEF SourceInv, OwedIsKept, Covered
  <2>4. CopyInOrder(t)'
    <3>1. CASE t # s
      BY <1>1, <1>2, <1>3, <2>1, <3>1
         DEF SourceInv, CopyInOrder, Busy, Acked, Active
    <3>2. CASE t = s /\ work.source = s
      <4>1. work.copy.gen <= object[s].gen /\ Precedes(work.copy, object[s])
        BY <2>1, <3>2 DEF SourceInv, CopyInOrder, Busy, Precedes
      <4>2. Precedes(work.copy, o)
        BY <4>1, <1>1 DEF Precedes, Follows, Work, Object
      <4>3. Acked(s)' => work.copy.gen = o.gen
        BY <1>3, <1>4, <2>1, <3>2
           DEF SourceInv, CopyInOrder, Busy, Owed
      <4> QED
        BY <1>1, <1>2, <1>3, <2>1, <3>2, <4>2, <4>3
           DEF SourceInv, CopyInOrder, Busy
    <3>3. CASE t = s /\ work.source # s
      BY <1>2, <3>3 DEF CopyInOrder, Busy
    <3> QED BY <3>1, <3>2, <3>3
  <2> QED BY <2>2, <2>3, <2>4 DEF SourceInv
<1>6. MergedIsEnough'
  BY <1>2, <1>4 DEF MergedIsEnough
<1>7. PutIsDone'
  BY <1>1, <1>2 DEF PutIsDone
<1> QED BY <1>5, <1>6, <1>7

\* What the users and handleTestEvent write follows what was there.
LEMMA UsersFollow ==
    ASSUME Inv, NEW s \in Sources,
           CreateSource(s) \/ ChangeSource(s) \/ DeleteSource(s)
              \/ HandleTestEvent(s)
    PROVE  \E o \in Object : /\ Written(s, o)
                             /\ WellFormed(o) /\ Follows(o, object[s])
                             /\ UNCHANGED <<informerVars, storageVars>>
<1>0. object[s] \in Object /\ object[s].gen \in Nat /\ WellFormed(object[s])
      /\ object[s].set.gen \in Nat
  BY DEF Inv, SourceInv, StoreInOrder, TypeInv, TypeOK, Object, Condition
<1>1. CASE CreateSource(s)
  <2>1. PICK c \in Claims, es \in Requests :
           Written(s, NewObject(object[s].gen + 1, c, es))
    BY <1>1 DEF CreateSource
  <2> DEFINE o == NewObject(object[s].gen + 1, c, es)
  <2>2. o \in Object
    BY <1>0, <1>1, ObjectTypes DEF CreateSource
  <2>3. WellFormed(o) /\ Follows(o, object[s])
    BY <1>0, <1>1
       DEF CreateSource, NewObject, NoCondition, WellFormed, Follows
  <2> HIDE DEF o
  <2> QED BY <1>1, <2>1, <2>2, <2>3 DEF CreateSource, o
<1>2. CASE ChangeSource(s)
  <2>1. PICK c \in Claims, es \in Requests :
           Written(s, [object[s] EXCEPT !.gen = @ + 1, !.claim = c,
                                        !.events = es])
    BY <1>2 DEF ChangeSource
  <2> DEFINE o == [object[s] EXCEPT !.gen = @ + 1, !.claim = c, !.events = es]
  <2>2. o \in Object
    BY <1>0, <1>2, ObjectTypes DEF ChangeSource
  <2>3. /\ o.gen = object[s].gen + 1 /\ o.claim = c
        /\ o.set = object[s].set
    BY <1>0 DEF Object
  <2>4. WellFormed(o) /\ Follows(o, object[s])
    BY <1>0, <2>3 DEF WellFormed, Follows
  <2> HIDE DEF o
  <2> QED BY <1>2, <2>1, <2>2, <2>4 DEF ChangeSource, o
<1>3. CASE DeleteSource(s)
  <2> DEFINE o == IF object[s].finalizer
                  THEN [object[s] EXCEPT !.deleting = TRUE]
                  ELSE NoObject(object[s].gen)
  <2>1. o \in Object
    BY <1>0, ObjectTypes
  <2>2. WellFormed(o) /\ Follows(o, object[s])
    BY <1>0 DEF WellFormed, Follows, NoObject, NewObject, NoCondition, Object
  <2> HIDE DEF o
  <2> QED BY <1>3, <2>1, <2>2 DEF DeleteSource, o
<1>4. CASE HandleTestEvent(s)
  <2> DEFINE o == [object[s] EXCEPT !.tested = TRUE]
  <2>1. o \in Object
    BY <1>0, ObjectTypes
  <2>2. WellFormed(o) /\ Follows(o, object[s])
    BY <1>0 DEF WellFormed, Follows, Object
  <2> HIDE DEF o
  <2> QED BY <1>4, <2>1, <2>2 DEF HandleTestEvent, o
<1> QED BY <1>1, <1>2, <1>3, <1>4

\* The steps of the users and of handleTestEvent keep the invariant.
LEMMA UsersKeepInv ==
    ASSUME Inv, TypeInv', NEW s \in Sources,
           CreateSource(s) \/ ChangeSource(s) \/ DeleteSource(s)
              \/ HandleTestEvent(s)
    PROVE  Inv'
BY UsersFollow, WrittenKeepsInv

\* Informer, provisioner, kubelet and the start of a Reconcile keep it.
LEMMA RuntimeKeepsInv ==
    ASSUME Inv, TypeInv',
           \/ \E s \in Sources : Deliver(s) \/ BeginReconcile(s)
           \/ \E c \in Claims : Provision(c) \/ WithdrawClaim(c)
           \/ CrashAndRestart
    PROVE  Inv'
<1>0. /\ object \in [Sources -> Object] /\ cache \in [Sources -> Object]
      /\ work \in Work /\ lag \in SUBSET Sources
      /\ claim \in [Claims -> {"absent", "bound", "ready", "gone"}]
      /\ notification \in [Claims -> SUBSET EventTypes]
  BY DEF Inv, TypeInv, TypeOK
<1>1. ASSUME NEW s \in Sources, Deliver(s) PROVE Inv'
  <2>1. /\ cache' = [cache EXCEPT ![s] = object[s]]
        /\ lag' = lag \ {s} /\ queue' = queue \cup {s}
        /\ UNCHANGED <<object, work, claim, notification>>
    BY <1>1 DEF Deliver, storageVars
  <2>2. \A t \in Sources : Owed(t)' => Owed(t)
    BY <2>1 DEF Owed, Acked, Active, AtRest
  <2>3. ASSUME NEW t \in Sources PROVE SourceInv(t)'
    <3>1. SourceInv(t) /\ StoreInOrder(s)
      BY DEF Inv, SourceInv
    <3>2. cache'[t] = cache[t] \/ (t = s /\ cache'[t] = object[t])
      BY <1>0, <2>1
    <3>3. StoreInOrder(t)'
      BY <1>0, <2>1, <3>1, <3>2
         DEF SourceInv, StoreInOrder, Precedes, Object
    <3>4. OwedIsKept(t)'
      BY <2>1, <2>2, <3>1, <3>2 DEF SourceInv, OwedIsKept, Covered
    <3>5. CopyInOrder(t)'
      <4>1. Busy(t) => work.copy.gen <= cache'[t].gen
        BY <1>0, <3>1, <3>2 DEF SourceInv, CopyInOrder, Precedes
      <4> QED
        BY <2>1, <3>1, <4>1 DEF SourceInv, CopyInOrder, Busy, Acked, Active
    <3> QED BY <3>3, <3>4, <3>5 DEF SourceInv
  <2> QED BY <2>1, <2>2, <2>3 DEF Inv, MergedIsEnough, PutIsDone
<1>2. ASSUME NEW s \in Sources, BeginReconcile(s) PROVE Inv'
  <2> DEFINE step == CASE ~cache[s].live -> "idle"
                       [] cache[s].live /\ cache[s].deleting ->
                            IF cache[s].finalizer THEN "deleteClaim" ELSE "idle"
                       [] cache[s].live /\ ~cache[s].deleting ->
                            IF cache[s].finalizer THEN "claim" ELSE "finalize"
  <2>1. cache[s] \in Object
    BY <1>0
  <2>2. /\ step \in {"idle", "deleteClaim", "claim", "finalize"}
        /\ step = "idle" => ~cache[s].live \/ cache[s].deleting
        /\ step # "idle" => /\ cache[s].live
                            /\ cache[s].deleting = (step = "deleteClaim")
    BY <2>1 DEF Object
  <2>3. work' = IF step = "idle" THEN NoWork
                ELSE [NoWork EXCEPT !.pc = step, !.source = s,
                                    !.copy = cache[s], !.stale = s \in lag]
    BY <1>2 DEF BeginReconcile
  <2> HIDE DEF step
  <2>4. /\ work'.pc = step
        /\ IF step = "idle" THEN work'.source = NoSource
           ELSE /\ work'.source = s /\ work'.copy = cache[s]
                /\ work'.stale = (s \in lag)
    BY <2>3, NoWorkType DEF Work
  <2>5. /\ work.pc = "idle" /\ queue' = queue \ {s}
        /\ UNCHANGED <<object, cache, lag, claim, notification>>
    BY <1>2 DEF BeginReconcile, storageVars
  <2>6. work.source \notin Sources
    BY <2>5 DEF Inv, SourceInv, CopyInOrder, Busy
  <2>7. ASSUME NEW t \in Sources, Owed(t)' PROVE Owed(t)
    <3>1. CASE Acked(t)'
      BY <2>5, <3>1 DEF Owed, Acked, Active
    <3>2. CASE Active(t)' /\ AtRest(t)' /\ t # s
      BY <2>5, <2>6, <3>2 DEF Owed, Active, AtRest
    <3>3. CASE Active(t)' /\ AtRest(t)' /\ t = s
      <4>1. step = "idle" /\ cache[s] = object[s]
        BY <2>4, <2>5, <3>3 DEF AtRest, Inv, SourceInv, StoreInOrder
      <4> QED BY <2>2, <2>5, <3>3, <4>1 DEF Active
    <3> QED BY <2>7, <3>1, <3>2, <3>3 DEF Owed
  <2>8. ASSUME NEW t \in Sources PROVE SourceInv(t)'
    <3>1. SourceInv(t)
      BY DEF Inv
    <3>2. StoreInOrder(t)' /\ OwedIsKept(t)'
      BY <2>5, <2>7, <3>1 DEF SourceInv, StoreInOrder, OwedIsKept, Covered
    <3>3. CopyInOrder(t)'
      <4> SUFFICES ASSUME Busy(t)' PROVE CopyInOrder(t)'
        BY DEF CopyInOrder
      <4>1. t = s /\ step # "idle"
        BY <2>4, BucketNamesAssumption DEF Busy
      <4>2. step \in RemoveSteps <=> step = "deleteClaim"
        BY <2>2 DEF RemoveSteps
      <4>3. cache[s].gen <= cache[s].gen
        BY <2>1 DEF Object
      <4>4. Acked(s)' => cache[s].gen = object[s].gen
        BY <2>5, <3>1, <4>1
           DEF SourceInv, OwedIsKept, Owed, Acked, Active
      <4>5. /\ work'.pc = step /\ work'.copy = cache[s]
            /\ work'.stale = (s \in lag)
            /\ object' = object /\ cache' = cache /\ lag' = lag
        BY <2>4, <2>5, <4>1
      <4>6. /\ WellFormed(cache[s]) /\ Precedes(cache[s], object[s])
            /\ s \notin lag => cache[s] = object[s]
        BY <3>1, <4>1 DEF SourceInv, StoreInOrder
      <4>7. WellFormed(work.copy)' /\ Precedes(work.copy, object[t])'
        BY <4>1, <4>5, <4>6 DEF WellFormed, Precedes
      <4>8. (work.copy.deleting = (work.pc \in RemoveSteps))'
        BY <2>2, <4>1, <4>2, <4>5 DEF RemoveSteps
      <4>9. IF work'.stale THEN t \in lag' \cup queue' ELSE object'[t] = work'.copy
        BY <4>1, <4>5, <4>6
      <4>10. Acked(t)' => work'.copy.gen = object'[t].gen
        BY <4>1, <4>4, <4>5
      <4> QED
        BY <2>2, <4>1, <4>3, <4>5, <4>7, <4>8, <4>9, <4>10
           DEF CopyInOrder
    <3> QED BY <3>2, <3>3 DEF SourceInv
  <2>9. MergedIsEnough' /\ PutIsDone'
    BY <2>2, <2>4 DEF MergedIsEnough, PutIsDone
  <2> QED BY <2>8, <2>9 DEF Inv
<1>3. ASSUME NEW c \in Claims, Provision(c) \/ WithdrawClaim(c) PROVE Inv'
  <2>1. /\ UNCHANGED <<object, cache, lag, queue, work>>
        /\ \A d \in Claims :
              \/ claim'[d] = claim[d] /\ notification'[d] = notification[d]
              \/ claim'[d] = "gone"
              \/ claim[d] \in {"absent", "bound"}
        /\ \A d \in Claims : claim[d] = "gone" => claim'[d] = "gone"
    BY <1>0, <1>3 DEF Provision, WithdrawClaim, informerVars
  <2>2. \A t \in Sources : Owed(t)' <=> Owed(t)
    BY <2>1 DEF Owed, Acked, Active, AtRest
  <2>3. ASSUME NEW t \in Sources PROVE SourceInv(t)'
    <3>1. SourceInv(t)
      BY DEF Inv
    <3>2. Owed(t) => object[t].claim \in Claims
      BY <3>1 DEF SourceInv, StoreInOrder, WellFormed, Owed, Acked, Active
    <3>3. OwedIsKept(t)'
      BY <2>1, <2>2, <3>1, <3>2 DEF SourceInv, OwedIsKept, Covered
    <3> QED
      BY <2>1, <3>1, <3>3
         DEF SourceInv, StoreInOrder, CopyInOrder, Busy, Acked, Active
  <2>4. PutIsDone'
    <3> SUFFICES ASSUME work.pc = "set", ~work.stale PROVE PutIsDone'
      BY <2>1 DEF PutIsDone
    <3>1. work.source \in Sources
      BY <1>0 DEF Inv, TypeInv, Work
    <3>2. work.copy.claim \in Claims
      BY <3>1 DEF Inv, SourceInv, CopyInOrder, Busy, WellFormed
    <3> QED BY <2>1, <3>2 DEF Inv, PutIsDone
  <2> QED BY <2>1, <2>2, <2>3, <2>4 DEF Inv, MergedIsEnough
<1>4. ASSUME CrashAndRestart PROVE Inv'
  <2>1. /\ cache' = object /\ lag' = {}
        /\ queue' = {s \in Sources : object[s].live}
        /\ work' = NoWork
        /\ UNCHANGED <<object, claim, notification>>
    BY <1>4 DEF CrashAndRestart, storageVars
  <2>2. \A t \in Sources : Owed(t)' => Owed(t)
    BY <2>1 DEF Owed, Acked, Active, AtRest
  <2>3. ASSUME NEW t \in Sources PROVE SourceInv(t)'
    <3>1. SourceInv(t) /\ object[t] \in Object
      BY <1>0 DEF Inv
    <3>2. StoreInOrder(t)'
      BY <2>1, <3>1 DEF SourceInv, StoreInOrder, Precedes, Object
    <3>3. OwedIsKept(t)'
      BY <2>1, <2>2, <3>1 DEF SourceInv, OwedIsKept, Covered
    <3>4. CopyInOrder(t)'
      BY <2>1, NoWorkType, BucketNamesAssumption DEF CopyInOrder, Busy
    <3> QED BY <3>2, <3>3, <3>4 DEF SourceInv
  <2> QED BY <2>1, <2>3, NoWorkType DEF Inv, MergedIsEnough, PutIsDone
<1> QED BY <1>1, <1>2, <1>3, <1>4

-----------------------------------------------------------------------------
(* The invariant and the steps of a Reconcile.                              *)

\* What the invariant says of the Reconcile that runs.
LEMMA AtWork ==
    ASSUME Inv, work.pc # "idle"
    PROVE  /\ work.source \in Sources
           /\ work.copy \in Object /\ object[work.source] \in Object
           /\ StoreInOrder(work.source) /\ OwedIsKept(work.source)
           /\ WellFormed(work.copy) /\ work.copy.live
           /\ work.copy.claim \in Claims
           /\ work.copy.deleting = (work.pc \in RemoveSteps)
           /\ Precedes(work.copy, object[work.source])
           /\ work.copy.gen <= cache[work.source].gen
           /\ IF work.stale THEN work.source \in lag \cup queue
              ELSE object[work.source] = work.copy
           /\ Acked(work.source) => work.copy.gen = object[work.source].gen
<1>1. work.source \in Sources /\ work.copy \in Object
      /\ object[work.source] \in Object
  BY DEF Inv, TypeInv, TypeOK, Work
<1>2. SourceInv(work.source)
  BY <1>1 DEF Inv
<1> QED BY <1>1, <1>2 DEF SourceInv, CopyInOrder, Busy, WellFormed

\* A status write of an up-to-date copy that changes no condition changes
\* nothing.
LEMMA SameStatus ==
    ASSUME Inv, work.pc # "idle", ~work.stale
    PROVE  StatusCopy(object[work.source], work.copy) = object[work.source]
<1>1. \A o \in Object : [o EXCEPT !.set = o.set, !.tested = o.tested] = o
  BY DEF Object
<1> QED BY <1>1, AtWork DEF StatusCopy

\* A step that goes on with the Reconcile and writes no object keeps the
\* invariant, if what it does to the storage keeps what is owed.
LEMMA MoveKeepsInv ==
    ASSUME Inv, TypeInv', work.pc # "idle", work'.pc # "idle",
           work'.pc \in RemoveSteps <=> work.pc \in RemoveSteps,
           work'.source = work.source, work'.copy = work.copy,
           work'.stale = work.stale,
           UNCHANGED <<object, cache, queue, claim>>,
           lag \subseteq lag', lag' \subseteq lag \cup {work.source},
           \A s \in Sources : Owed(s) => Covered(s)',
           MergedIsEnough', PutIsDone'
    PROVE  Inv'
<1>1. \A s \in Sources : Owed(s)' => Owed(s)
  BY DEF Owed, Acked, Active, AtRest
<1>2. ASSUME NEW s \in Sources PROVE SourceInv(s)'
  <2>1. SourceInv(s)
    BY DEF Inv
  <2>2. StoreInOrder(s)'
    BY <2>1 DEF SourceInv, StoreInOrder
  <2>3. OwedIsKept(s)'
    BY <1>1, <2>1 DEF SourceInv, OwedIsKept
  <2>4. CopyInOrder(s)'
    <3> SUFFICES ASSUME Busy(s)' PROVE CopyInOrder(s)'
      BY DEF CopyInOrder
    <3>1. Busy(s)
      BY DEF Busy
    <3>2. (work'.pc \in RemoveSteps) = (work.pc \in RemoveSteps)
      OBVIOUS
    <3>3. IF work'.stale THEN s \in lag' \cup queue' ELSE object'[s] = work'.copy
      BY <2>1, <3>1 DEF SourceInv, CopyInOrder
    <3>4. (work.copy.deleting = (work.pc \in RemoveSteps))'
      BY <2>1, <3>1, <3>2 DEF SourceInv, CopyInOrder
    <3>5. WellFormed(work.copy)' /\ Precedes(work.copy, object[s])'
      BY <2>1, <3>1 DEF SourceInv, CopyInOrder, WellFormed, Precedes
    <3> QED
      BY <2>1, <3>1, <3>3, <3>4, <3>5
         DEF SourceInv, CopyInOrder, Acked, Active
  <2> QED BY <2>2, <2>3, <2>4 DEF SourceInv
<1> QED BY <1>2 DEF Inv

\* The store counts every source that is owed its events, but not the one that
\* a Reconcile removes: nothing is owed to it.
LEMMA MergedEventsAreEnough ==
    ASSUME Inv, work.pc # "idle", NEW s \in Sources, Owed(s),
           object[s].claim = work.copy.claim
    PROVE  /\ object[s].events \subseteq MergedEvents(work.copy.claim, {})
           /\ work.pc \in RemoveSteps =>
                 object[s].events \subseteq
                    MergedEvents(work.copy.claim, {work.source})
<1>1. /\ cache[s].live /\ ~cache[s].deleting
      /\ cache[s].claim = work.copy.claim
      /\ cache[s].events = object[s].events
  BY DEF Inv, SourceInv, OwedIsKept, StoreInOrder, Precedes, Owed, Acked, Active
<1>2. ASSUME work.pc \in RemoveSteps PROVE s # work.source
  <2> SUFFICES ASSUME s = work.source PROVE FALSE
    OBVIOUS
  <2>1. Acked(s)
    BY DEF Owed, AtRest
  <2>2. /\ work.copy.gen = object[s].gen /\ Precedes(work.copy, object[s])
        /\ work.copy.deleting
    BY <1>2, <2>1, AtWork
  <2> QED BY <2>1, <2>2 DEF Precedes, Acked, Active
<1> QED BY <1>1, <1>2 DEF MergedEvents

\* An up-to-date copy is in the store, or the store has an earlier version of
\* the same generation.
LEMMA OwnEventsAreMerged ==
    ASSUME Inv, work.pc # "idle", work.pc \notin RemoveSteps, ~work.stale
    PROVE  work.copy.events \subseteq MergedEvents(work.copy.claim, {})
<1>1. /\ object[work.source] = work.copy /\ work.copy.live
      /\ ~work.copy.deleting /\ work.copy.gen <= cache[work.source].gen
      /\ Precedes(cache[work.source], work.copy) /\ work.source \in Sources
      /\ work.copy.gen \in Nat /\ cache[work.source].gen \in Nat
  BY AtWork DEF StoreInOrder, Inv, TypeInv, TypeOK, Object
<1>2. /\ cache[work.source].live /\ ~cache[work.source].deleting
      /\ cache[work.source].claim = work.copy.claim
      /\ cache[work.source].events = work.copy.events
  BY <1>1 DEF Precedes
<1> QED BY <1>1, <1>2 DEF MergedEvents

\* The reads, the lists and the condition that changes nothing.
LEMMA ReadsKeepInv ==
    ASSUME Inv, TypeInv',
           ReadClaim \/ DeleteReadClaim \/ Merge \/ DeleteMerge \/ ReportCreds
    PROVE  Inv'
<1>0. work \in Work /\ work.pc # "idle"
  BY DEF ReadClaim, DeleteReadClaim, Merge, DeleteMerge, ReportCreds, Inv,
         TypeInv, TypeOK
<1>1. UNCHANGED <<cache, queue, claim, notification>>
  BY DEF ReadClaim, DeleteReadClaim, Merge, DeleteMerge, ReportCreds,
         informerVars, storageVars
<1>2. UNCHANGED object /\ lag \subseteq lag'
      /\ lag' \subseteq lag \cup {work.source}
  <2>1. CASE ReportCreds
    <3>1. object \in [Sources -> Object] /\ work.source \in Sources
      BY <1>0, AtWork DEF Inv, TypeInv, TypeOK
    <3>2. PICK again \in BOOLEAN : WriteStatus(work.copy, again)
      BY <2>1 DEF ReportCreds
    <3>3. ~work.stale =>
             [object EXCEPT ![work.source] = StatusCopy(@, work.copy)] = object
      BY <1>0, <3>1, SameStatus
    <3> QED BY <3>2, <3>3 DEF WriteStatus
  <2>2. CASE ReadClaim \/ DeleteReadClaim \/ Merge \/ DeleteMerge
    BY <2>2 DEF ReadClaim, DeleteReadClaim, Merge, DeleteMerge
  <2> QED BY <2>1, <2>2
<1>3. \A s \in Sources : (Owed(s)' => Owed(s)) /\ (Owed(s) => Covered(s)')
  <2>1. work'.source = work.source
    BY <1>0
       DEF ReadClaim, DeleteReadClaim, Merge, DeleteMerge, ReportCreds, GoTo,
           Work
  <2> QED
    BY <1>1, <1>2, <2>1
       DEF Owed, Acked, Active, AtRest, Inv, SourceInv, OwedIsKept, Covered
<1>4. /\ work'.pc # "idle" /\ work'.source = work.source
      /\ work'.copy = work.copy /\ work'.stale = work.stale
      /\ work'.pc \in RemoveSteps <=> work.pc \in RemoveSteps
  BY <1>0
     DEF ReadClaim, DeleteReadClaim, Merge, DeleteMerge, ReportCreds, GoTo,
         Work, RemoveSteps
<1>5. MergedIsEnough'
  <2>1. CASE ReadClaim \/ DeleteReadClaim \/ ReportCreds
    <3>1. work'.pc \notin {"put", "deletePut"}
      BY <1>0, <2>1 DEF ReadClaim, DeleteReadClaim, ReportCreds, GoTo, Work
    <3> QED BY <3>1 DEF MergedIsEnough
  <2>2. CASE Merge
    <3>1. /\ work'.merged = MergedEvents(work.copy.claim, {})
          /\ work'.pc = "put" /\ work.pc = "merge"
      BY <1>0, <2>2 DEF Merge, Work
    <3>2. work.pc \notin RemoveSteps
      BY <3>1 DEF RemoveSteps
    <3> QED
      BY <1>0, <1>2, <1>3, <1>4, <3>1, <3>2, MergedEventsAreEnough,
         OwnEventsAreMerged
         DEF MergedIsEnough
  <2>3. CASE DeleteMerge
    <3>1. /\ work'.merged = MergedEvents(work.copy.claim, {work.source})
          /\ work'.pc = "deletePut" /\ work.pc = "deleteMerge"
      BY <1>0, <2>3 DEF DeleteMerge, Work
    <3>2. work.pc \in RemoveSteps
      BY <3>1 DEF RemoveSteps
    <3> QED
      BY <1>0, <1>2, <1>3, <1>4, <3>1, <3>2, MergedEventsAreEnough
         DEF MergedIsEnough
  <2> QED BY <2>1, <2>2, <2>3
<1>6. PutIsDone'
  <2>1. work'.pc # "set"
    BY <1>0
       DEF ReadClaim, DeleteReadClaim, Merge, DeleteMerge, ReportCreds, GoTo,
           Work
  <2> QED BY <2>1 DEF PutIsDone
<1> QED BY <1>0, <1>1, <1>2, <1>3, <1>4, <1>5, <1>6, MoveKeepsInv

\* What is written to the storage is enough for the sources of the bucket, and
\* the others are not concerned.
LEMMA PutsKeepInv ==
    ASSUME Inv, TypeInv', PutNotification \/ DeletePut
    PROVE  Inv'
<1>0. /\ work \in Work /\ work.pc \in {"put", "deletePut"}
      /\ notification \in [Claims -> SUBSET EventTypes]
      /\ work.copy.claim \in Claims
  BY AtWork DEF PutNotification, DeletePut, Inv, TypeInv, TypeOK
<1>1. UNCHANGED <<object, cache, queue, claim, lag>>
  BY DEF PutNotification, DeletePut, informerVars
<1>2. /\ \/ UNCHANGED notification
         \/ notification' =
               [notification EXCEPT ![work.copy.claim] = work.merged]
      /\ work'.pc = "set" =>
            /\ claim[work.copy.claim] = "ready"
            /\ notification' =
                  [notification EXCEPT ![work.copy.claim] = work.merged]
  BY <1>0
     DEF PutNotification, DeletePut, PutSucceeds, PutFails, GoTo, Work
<1>3. \A s \in Sources : Owed(s) => Covered(s)'
  <2> SUFFICES ASSUME NEW s \in Sources, Owed(s) PROVE Covered(s)'
    OBVIOUS
  <2>1. Covered(s) /\ object[s].claim \in Claims
    BY DEF Inv, SourceInv, OwedIsKept, StoreInOrder, WellFormed, Owed, Acked,
           Active
  <2>2. object[s].claim = work.copy.claim =>
           object[s].events \subseteq work.merged
    BY <1>0 DEF Inv, MergedIsEnough
  <2> QED BY <1>0, <1>1, <1>2, <2>1, <2>2 DEF Covered
<1>4. /\ work'.pc \in {"set", "notSet", "unfinalize"}
      /\ work'.source = work.source
      /\ work'.copy = work.copy /\ work'.stale = work.stale
      /\ work'.pc = "unfinalize" <=> work.pc = "deletePut"
  BY <1>0 DEF PutNotification, DeletePut, GoTo, Work
<1>5. MergedIsEnough'
  BY <1>4 DEF MergedIsEnough
<1>6. PutIsDone'
  <2> SUFFICES ASSUME work'.pc = "set", ~work.stale PROVE PutIsDone'
    BY <1>4 DEF PutIsDone
  <2>1. work.copy.events \subseteq work.merged
    BY <1>0, <1>4 DEF Inv, MergedIsEnough
  <2> QED BY <1>0, <1>1, <1>2, <1>4, <2>1 DEF PutIsDone
<1> QED
  BY <1>0, <1>1, <1>3, <1>4, <1>5, <1>6, MoveKeepsInv DEF RemoveSteps

\* A Reconcile that ends with o as the version of its source keeps the
\* invariant, if an event tells of a new o and the source gets what it is owed.
LEMMA EndKeepsInv ==
    ASSUME Inv, TypeInv', work.pc # "idle", NEW r \in Sources,
           r = work.source, NEW o \in Object,
           WellFormed(o), Precedes(cache[r], o),
           object' = [object EXCEPT ![r] = o],
           lag \subseteq lag', lag' \subseteq lag \cup {r},
           o = object[r] \/ r \in lag',
           queue \subseteq queue',
           work' = NoWork, UNCHANGED <<cache, claim, notification>>,
           OwedIsKept(r)'
    PROVE  Inv'
<1>1. /\ object \in [Sources -> Object] /\ StoreInOrder(r)
  BY AtWork DEF Inv, TypeInv, TypeOK
<1>2. work'.pc = "idle" /\ work'.source = NoSource
  BY NoWorkType
<1>3. ASSUME NEW s \in Sources PROVE SourceInv(s)'
  <2>1. SourceInv(s)
    BY DEF Inv
  <2>2. CopyInOrder(s)'
    BY <1>2, BucketNamesAssumption DEF CopyInOrder, Busy
  <2>3. CASE s = r
    <3>1. object'[s] = o /\ cache'[s] = cache[s]
      BY <1>1, <2>3
    <3>2. StoreInOrder(s)'
      BY <1>1, <2>3, <3>1 DEF StoreInOrder
    <3> QED BY <2>2, <2>3, <3>2 DEF SourceInv
  <2>4. CASE s # r
    <3>1. object'[s] = object[s] /\ cache'[s] = cache[s]
          /\ (s \in lag' <=> s \in lag)
      BY <1>1, <2>4
    <3>2. StoreInOrder(s)'
      BY <2>1, <3>1 DEF SourceInv, StoreInOrder
    <3>3. Owed(s)' => Owed(s)
      BY <2>4, <3>1 DEF Owed, Acked, Active, AtRest
    <3>4. OwedIsKept(s)'
      BY <2>1, <3>1, <3>3 DEF SourceInv, OwedIsKept, Covered
    <3> QED BY <2>2, <3>2, <3>4 DEF SourceInv
  <2> QED BY <2>3, <2>4
<1>4. MergedIsEnough' /\ PutIsDone'
  BY <1>2 DEF MergedIsEnough, PutIsDone
<1> QED BY <1>3, <1>4 DEF Inv

\* The write of the finalizer, and its removal.
LEMMA UpdatesKeepInv ==
    ASSUME Inv, TypeInv', Finalize \/ Unfinalize
    PROVE  Inv'
<1>s. PICK s \in Sources : Busy(s)
  BY AtWork DEF Busy, Finalize, Unfinalize
<1>0. /\ work.pc \in {"finalize", "unfinalize"}
      /\ UNCHANGED <<cache, claim, notification>>
  BY DEF Finalize, Unfinalize, storageVars
<1>1. /\ s \in Sources /\ work.copy \in Object /\ object[s] \in Object
      /\ StoreInOrder(s) /\ OwedIsKept(s) /\ WellFormed(work.copy)
      /\ ~work.stale => object[s] = work.copy
      /\ object \in [Sources -> Object] /\ cache[s] \in Object
  BY <1>0, <1>s, AtWork DEF Busy, Inv, TypeInv, TypeOK
<1>2. CASE UNCHANGED <<object, lag>> /\ ReturnAndRequeue
  <2>1. object' = [object EXCEPT ![s] = object[s]] /\ UNCHANGED lag
        /\ work' = NoWork /\ queue' = queue \cup {s}
    BY <1>s, <1>1, <1>2 DEF ReturnAndRequeue, Busy
  <2>2. OwedIsKept(s)'
    <3>1. Owed(s)' => Acked(s)
      BY <1>2, <2>1 DEF Owed, AtRest, Acked, Active
    <3> QED
      BY <1>0, <1>1, <1>2, <3>1 DEF OwedIsKept, Owed, Covered
  <2> QED
    BY <1>s, <1>0, <1>1, <2>1, <2>2, EndKeepsInv DEF StoreInOrder, Busy
<1>3. ASSUME NEW o \in Object, ~work.stale,
             object' = [object EXCEPT ![s] = o], lag' = lag \cup {s}, Return,
             \/ o = [work.copy EXCEPT !.finalizer = TRUE]
             \/ o = NoObject(work.copy.gen)
      PROVE  Inv'
  <2>1. work' = NoWork /\ UNCHANGED queue /\ object'[s] = o
    BY <1>1, <1>3 DEF Return
  <2>2. \/ /\ o.live = work.copy.live /\ o.deleting = work.copy.deleting
           /\ o.gen = work.copy.gen /\ o.claim = work.copy.claim
           /\ o.events = work.copy.events /\ o.set = work.copy.set
        \/ ~o.live /\ o.gen = work.copy.gen /\ o.set.gen = 0
    BY <1>1, <1>3 DEF NoObject, NewObject, NoCondition, Object
  <2>3. work.copy.gen \in Nat
    BY <1>1 DEF Object
  <2>4. WellFormed(o) /\ Precedes(cache[s], o)
    BY <1>1, <1>3, <2>2, <2>3 DEF StoreInOrder, WellFormed, Precedes
  <2>5. OwedIsKept(s)'
    <3> SUFFICES ASSUME Owed(s)' PROVE OwedIsKept(s)'
      BY DEF OwedIsKept
    <3>1. Acked(s)'
      BY <1>3 DEF Owed, AtRest
    <3>2. Acked(s) /\ o.gen = object[s].gen /\ o.claim = object[s].claim
          /\ o.events = object[s].events
      BY <1>1, <1>3, <2>1, <2>2, <3>1 DEF Acked, Active
    <3> QED
      BY <1>0, <1>1, <2>1, <3>2 DEF OwedIsKept, Owed, Covered
  <2> QED
    BY <1>s, <1>0, <1>1, <1>3, <2>1, <2>4, <2>5, EndKeepsInv DEF Busy
<1>4. ASSUME NEW o \in Object, Update(o),
             \/ o = [work.copy EXCEPT !.finalizer = TRUE]
             \/ o = NoObject(work.copy.gen)
      PROVE  Inv'
  BY <1>s, <1>2, <1>3, <1>4 DEF Update, Busy
<1>5. [work.copy EXCEPT !.finalizer = TRUE] \in Object
      /\ NoObject(work.copy.gen) \in Object
  BY <1>1, ObjectTypes
<1> QED BY <1>4, <1>5 DEF Finalize, Unfinalize

\* The status writes at the end of a Reconcile.
LEMMA ReportsKeepInv ==
    ASSUME Inv, TypeInv', ReportNoCreds \/ ReportSet \/ ReportNotSet
    PROVE  Inv'
<1>s. PICK s \in Sources : Busy(s)
  BY AtWork DEF Busy, ReportNoCreds, ReportSet, ReportNotSet
<1>0. /\ work.pc \in {"noCreds", "set", "notSet"}
      /\ UNCHANGED <<cache, claim, notification>>
      /\ work' = NoWork
      /\ ReportSet \/ queue' = queue \cup {s}
      /\ queue \subseteq queue'
  BY <1>s
     DEF ReportNoCreds, ReportSet, ReportNotSet, Return, ReturnAndRequeue,
         storageVars, Busy
<1>1. /\ s \in Sources /\ work.copy \in Object /\ object[s] \in Object
      /\ StoreInOrder(s) /\ OwedIsKept(s)
      /\ work.copy.live /\ ~work.copy.deleting /\ work.copy.claim \in Claims
      /\ work.copy.gen <= cache[s].gen
      /\ IF work.stale THEN s \in lag \cup queue ELSE object[s] = work.copy
      /\ object \in [Sources -> Object] /\ cache[s] \in Object
  BY <1>0, <1>s, AtWork DEF Busy, Inv, TypeInv, TypeOK, RemoveSteps
<1>2. ASSUME NEW o \in Object,
             object' = [object EXCEPT ![s] = o],
             lag \subseteq lag', lag' \subseteq lag \cup {s},
             o = object[s] \/ s \in lag',
             WellFormed(o), Precedes(cache[s], o), OwedIsKept(s)'
      PROVE  Inv'
  BY <1>s, <1>0, <1>2, EndKeepsInv DEF Busy
\* Nothing is written, or nothing that is new.
<1>3. ASSUME UNCHANGED object, lag \subseteq lag', lag' \subseteq lag \cup {s}
      PROVE  Inv'
  <2>1. object' = [object EXCEPT ![s] = object[s]]
    BY <1>1, <1>3
  <2>2. OwedIsKept(s)'
    <3> SUFFICES ASSUME Owed(s)' PROVE OwedIsKept(s)'
      BY DEF OwedIsKept
    <3>1. CASE Acked(s)
      BY <1>0, <1>1, <1>3, <3>1 DEF OwedIsKept, Owed, Covered
    <3>2. CASE ~Acked(s)
      <4>1. s \notin lag' /\ s \notin queue' /\ Active(s)
        BY <1>3, <3>2 DEF Owed, Acked, Active, AtRest
      <4>2. ReportSet /\ ~work.stale /\ s \notin lag
        BY <1>0, <1>1, <1>3, <4>1
      <4>3. work.pc = "set" /\ cache[s] = object[s] /\ object[s] = work.copy
        BY <1>1, <4>2 DEF ReportSet, StoreInOrder
      <4> QED
        BY <1>0, <1>3, <4>2, <4>3 DEF Inv, PutIsDone, OwedIsKept, Covered
    <3> QED BY <3>1, <3>2
  <2> QED BY <1>1, <1>2, <1>3, <2>1, <2>2 DEF StoreInOrder
<1>4. CASE ReportNoCreds
  <2>1. PICK again \in BOOLEAN : WriteStatus(work.copy, again)
    BY <1>4 DEF ReportNoCreds
  <2>2. ~work.stale =>
           [object EXCEPT ![s] = StatusCopy(@, work.copy)] = object
    BY <1>s, <1>0, <1>1, SameStatus DEF Busy
  <2> QED BY <1>s, <1>3, <2>1, <2>2 DEF WriteStatus, Busy
\* A condition is written.
<1>5. ASSUME NEW is \in {"True", "False"}, NEW again \in BOOLEAN,
             WriteStatus(WithSet(is), again),
             is = "True" => ReportSet, is = "False" => ReportNotSet
      PROVE  Inv'
  <2> DEFINE o == StatusCopy(object[s], WithSet(is))
  <2>1. CASE UNCHANGED <<object, lag>>
    BY <1>3, <2>1
  <2>2. CASE ~work.stale /\ object' = [object EXCEPT ![s] = o]
             /\ lag' = IF again \/ object' # object THEN lag \cup {s} ELSE lag
    <3>1. object[s] = work.copy
      BY <1>1, <2>2
    <3>2. o \in Object /\ object'[s] = o
      BY <1>1, <2>2, ObjectTypes DEF WithSet
    <3>3. /\ o.live = work.copy.live /\ o.deleting = work.copy.deleting
          /\ o.gen = work.copy.gen /\ o.claim = work.copy.claim
          /\ o.events = work.copy.events
          /\ o.set = [is |-> is, gen |-> work.copy.gen]
      BY <1>1, <3>1 DEF StatusCopy, WithSet, Object
    <3>4. work.copy.gen \in Nat /\ cache[s].gen \in Nat
      BY <1>1 DEF Object
    <3>5. WellFormed(o) /\ Precedes(cache[s], o)
      BY <1>1, <3>1, <3>3, <3>4 DEF StoreInOrder, WellFormed, Precedes
    <3>6. CASE o = object[s]
      BY <1>1, <1>3, <2>2, <3>6
    <3>7. CASE o # object[s]
      <4>1. lag' = lag \cup {s}
        BY <2>2, <3>2, <3>7
      <4>2. OwedIsKept(s)'
        <5> SUFFICES ASSUME Owed(s)' PROVE OwedIsKept(s)'
          BY DEF OwedIsKept
        <5>0. Acked(s)'
          BY <4>1 DEF Owed, AtRest
        <5>1. is = "True" /\ work.pc = "set"
          <6>1. object'[s].set = [is |-> "True", gen |-> object'[s].gen]
            BY <5>0 DEF Acked
          <6>2. is = "True"
            BY <3>2, <3>3, <6>1
          <6> QED BY <1>5, <6>2 DEF ReportSet
        <5>2. cache[s].gen = o.gen
          BY <1>1, <3>1, <3>3, <3>4 DEF StoreInOrder, Precedes
        <5> QED
          BY <1>0, <2>2, <3>2, <3>3, <5>1, <5>2
             DEF Inv, PutIsDone, OwedIsKept, Covered
      <4> QED BY <1>2, <2>2, <3>2, <3>5, <4>1, <4>2
    <3> QED BY <3>6, <3>7
  <2> QED BY <1>s, <1>5, <2>1, <2>2 DEF WriteStatus, Busy
<1>6. CASE ReportSet
  BY <1>5, <1>6 DEF ReportSet
<1>7. CASE ReportNotSet
  BY <1>5, <1>7 DEF ReportNotSet
<1> QED BY <1>4, <1>6, <1>7

\* At the start there is no source, and nothing is owed.
LEMMA InitInv == Init => Inv
<1> SUFFICES ASSUME Init PROVE Inv
  OBVIOUS
<1>1. /\ \A s \in Sources : object[s] = NoObject(0) /\ cache[s] = object[s]
      /\ work = NoWork
  BY DEF Init
<1>2. TypeInv
  <2>0. 0 \in 0 .. MaxGeneration
    BY BucketBoundsAssumption
  <2>1. NoObject(0) \in Object
    BY <2>0, ObjectTypes
  <2>2. NoWork \in Work /\ NoWork.pc = "idle" /\ NoWork.source = NoSource
    BY NoWorkType
  <2> QED BY <2>1, <2>2 DEF Init, TypeInv, TypeOK
<1>3. ASSUME NEW s \in Sources PROVE SourceInv(s)
  <2>1. ~object[s].live /\ object[s].gen = 0 /\ object[s].set.gen = 0
    BY <1>1 DEF NoObject, NewObject, NoCondition
  <2> QED
    BY <1>1, <2>1, NoWorkType, BucketNamesAssumption
       DEF SourceInv, StoreInOrder, WellFormed, Precedes, OwedIsKept, Owed,
           Acked, Active, CopyInOrder, Busy
<1>4. MergedIsEnough /\ PutIsDone
  BY <1>1, NoWorkType DEF MergedIsEnough, PutIsDone
<1> QED BY <1>2, <1>3, <1>4 DEF Inv

\* Each step keeps the invariant.
LEMMA NextKeepsInv == Inv /\ [Next]_vars => Inv'
<1> SUFFICES ASSUME Inv, [Next]_vars PROVE Inv'
  OBVIOUS
<1>1. ASSUME NEW s \in Sources,
             CreateSource(s) \/ ChangeSource(s) \/ DeleteSource(s)
                \/ HandleTestEvent(s)
      PROVE  Inv'
  BY <1>1, EnvironmentTypes, UsersKeepInv DEF Inv
<1>2. ASSUME NEW s \in Sources, Deliver(s) \/ BeginReconcile(s) PROVE Inv'
  BY <1>2, EnvironmentTypes, ReconcileTypes, RuntimeKeepsInv DEF Inv
<1>3. ASSUME NEW c \in Claims, Provision(c) \/ WithdrawClaim(c) PROVE Inv'
  BY <1>3, EnvironmentTypes, RuntimeKeepsInv DEF Inv
<1>4. CASE CrashAndRestart
  BY <1>4, EnvironmentTypes, RuntimeKeepsInv DEF Inv
<1>5. CASE Step
  <2>1. TypeInv'
    BY <1>5, ReconcileTypes DEF Inv
  <2> QED
    BY <1>5, <2>1, ReadsKeepInv, PutsKeepInv, UpdatesKeepInv, ReportsKeepInv
       DEF Step
<1>6. CASE UNCHANGED vars
  BY <1>6
     DEF vars, Inv, TypeInv, TypeOK, SourceInv, StoreInOrder, OwedIsKept,
         CopyInOrder, Busy, Owed, Acked, Active, AtRest, Covered,
         MergedIsEnough, PutIsDone
<1> QED BY <1>1, <1>2, <1>3, <1>4, <1>5, <1>6 DEF Next

-----------------------------------------------------------------------------
(* The theorems.                                                            *)

\* The invariant holds in every state.
LEMMA InvHolds == Spec => []Inv
BY InitInv, NextKeepsInv, PTL DEF Spec

\* Every variable has its type in every state, and the copy that a Reconcile
\* works on was read alive.
THEOREM TypeCorrect == Spec => []TypeOK
<1>1. Inv => TypeOK
  BY DEF Inv, TypeInv
<1> QED BY <1>1, InvHolds, PTL

\* BucketNotificationSet=True is true: whatever the other sources of the bucket
\* do, whoever fails, and however late the store of the informer is, setCondition
\* has told a source that it is subscribed only if the bucket has its events.
THEOREM SetStaysHonest == Spec => []SetIsHonest
<1>1. Inv => SetIsHonest
  BY DEF Inv, SourceInv, OwedIsKept, Owed, Acked, SetIsHonest
<1> QED BY <1>1, InvHolds, PTL

\* No source is forgotten: one that is neither in the queue nor at work, and of
\* which the informer has the present version, has its events.
THEOREM RestIsCovered == Spec => []CoveredAtRest
<1>1. Inv => CoveredAtRest
  BY DEF Inv, SourceInv, OwedIsKept, Owed, CoveredAtRest
<1> QED BY <1>1, InvHolds, PTL

-----------------------------------------------------------------------------
(* What a step does to the objects.                                         *)

\* What a Reconcile writes keeps all but the condition, or removes the source.
LEMMA ReconcileWrites ==
    ASSUME Inv, NEW s \in Sources, s = work.source,
           Finalize \/ Unfinalize \/ ReportNoCreds \/ ReportCreds
              \/ ReportSet \/ ReportNotSet
    PROVE  \E o \in Object :
              /\ object' = [object EXCEPT ![s] = o]
              /\ \/ ~o.live
                 \/ /\ o.live = object[s].live
                    /\ o.deleting = object[s].deleting
                    /\ o.gen = object[s].gen /\ o.claim = object[s].claim
                    /\ o.events = object[s].events
                    /\ o.tested = object[s].tested
<1> DEFINE Kept(o) == /\ o.live = object[s].live
                      /\ o.deleting = object[s].deleting
                      /\ o.gen = object[s].gen /\ o.claim = object[s].claim
                      /\ o.events = object[s].events
                      /\ o.tested = object[s].tested
<1>1. /\ work.pc # "idle" /\ object[s] \in Object /\ work.copy \in Object
      /\ ~work.stale => object[s] = work.copy
      /\ object \in [Sources -> Object]
  BY AtWork
     DEF Finalize, Unfinalize, ReportNoCreds, ReportCreds, ReportSet,
         ReportNotSet, Inv, TypeInv, TypeOK
<1>2. ASSUME NEW o \in Object, ~work.stale,
             \/ o = work.copy
             \/ \E is \in {"None", "True", "False"} : o = WithSet(is)
      PROVE  StatusCopy(object[s], o) \in Object
             /\ Kept(StatusCopy(object[s], o))
  <2>1. o.tested = object[s].tested
    BY <1>1, <1>2 DEF WithSet, Object
  <2>2. StatusCopy(object[s], o) \in Object
    BY <1>1, ObjectTypes
  <2> QED BY <1>1, <2>1, <2>2 DEF StatusCopy, Object
<1>3. ASSUME NEW o \in Object, NEW again \in BOOLEAN, WriteStatus(o, again),
             \/ o = work.copy
             \/ \E is \in {"None", "True", "False"} : o = WithSet(is)
      PROVE  \E p \in Object : /\ object' = [object EXCEPT ![s] = p]
                               /\ Kept(p)
  <2>1. CASE UNCHANGED object
    <3>1. object' = [object EXCEPT ![s] = object[s]]
      BY <1>1, <2>1
    <3> QED BY <1>1, <3>1
  <2>2. CASE ~work.stale /\ object' = [object EXCEPT ![s] =
                                          StatusCopy(object[s], o)]
    BY <1>2, <1>3, <2>2
  <2> QED BY <1>1, <1>3, <2>1, <2>2 DEF WriteStatus
<1>4. ASSUME NEW o \in Object, Update(o), ~o.live \/ (~work.stale => Kept(o))
      PROVE  \E p \in Object : /\ object' = [object EXCEPT ![s] = p]
                               /\ ~p.live \/ Kept(p)
  <2>1. object = [object EXCEPT ![s] = object[s]]
    BY <1>1
  <2> QED BY <1>1, <1>4, <2>1 DEF Update
<1>5. \A is \in {"None", "True", "False"} : WithSet(is) \in Object
  BY <1>1, ObjectTypes DEF WithSet
<1>6. [work.copy EXCEPT !.finalizer = TRUE] \in Object
      /\ (~work.stale => Kept([work.copy EXCEPT !.finalizer = TRUE]))
  <2>1. [work.copy EXCEPT !.finalizer = TRUE] \in Object
    BY <1>1, ObjectTypes
  <2>2. \A o \in Object : LET p == [o EXCEPT !.finalizer = TRUE]
                         IN  /\ p.live = o.live /\ p.deleting = o.deleting
                             /\ p.gen = o.gen /\ p.claim = o.claim
                             /\ p.events = o.events /\ p.tested = o.tested
    BY DEF Object
  <2>3. ~work.stale => Kept([work.copy EXCEPT !.finalizer = TRUE])
    BY <1>1, <2>2
  <2> QED BY <2>1, <2>3
<1>7. NoObject(work.copy.gen) \in Object /\ ~NoObject(work.copy.gen).live
  <2>1. NoObject(work.copy.gen) \in Object
    BY <1>1, ObjectTypes
  <2> QED BY <2>1 DEF NoObject, NewObject
<1> HIDE DEF Kept
<1>8. CASE Finalize \/ Unfinalize
  <2>1. \E p \in Object : /\ object' = [object EXCEPT ![s] = p]
                          /\ ~p.live \/ Kept(p)
    BY <1>4, <1>6, <1>7, <1>8 DEF Finalize, Unfinalize
  <2> QED BY <2>1 DEF Kept
<1>9. CASE ReportNoCreds \/ ReportCreds \/ ReportSet \/ ReportNotSet
  <2>1. \E p \in Object : object' = [object EXCEPT ![s] = p] /\ Kept(p)
    BY <1>1, <1>3, <1>5, <1>9
       DEF ReportNoCreds, ReportCreds, ReportSet, ReportNotSet
  <2> QED BY <2>1 DEF Kept
<1> QED BY <1>8, <1>9

\* The steps that write no object.
LEMMA OthersWriteNothing ==
    ASSUME \/ \E s \in Sources : Deliver(s) \/ BeginReconcile(s)
           \/ \E c \in Claims : Provision(c) \/ WithdrawClaim(c)
           \/ CrashAndRestart
           \/ ReadClaim \/ Merge \/ PutNotification \/ DeleteReadClaim
           \/ DeleteMerge \/ DeletePut
           \/ UNCHANGED vars
    PROVE  UNCHANGED object
BY DEF Deliver, BeginReconcile, Provision, WithdrawClaim, CrashAndRestart,
       ReadClaim, Merge, PutNotification, DeleteReadClaim, DeleteMerge,
       DeletePut, vars

\* The condition that handleTestEvent has set stays as long as the source is
\* there in that generation: a Reconcile with an older version of the status
\* has lost its resourceVersion and does not write it.
THEOREM TestEventIsKept == Spec => TestEventKept
<1> DEFINE KeptStep ==
      \A s \in Sources :
         object[s].tested /\ object'[s].live /\ object[s].gen <= object'[s].gen
            => object'[s].tested \/ object'[s].gen # object[s].gen
<1>1. ASSUME Inv, Next PROVE KeptStep
  <2>0. object \in [Sources -> Object]
    BY <1>1 DEF Inv, TypeInv, TypeOK
  <2>1. ASSUME NEW s \in Sources,
               CreateSource(s) \/ ChangeSource(s) \/ DeleteSource(s)
                  \/ HandleTestEvent(s)
        PROVE  KeptStep
    <3>1. PICK o \in Object : Written(s, o) /\ Follows(o, object[s])
      BY <1>1, <2>1, UsersFollow
    <3> QED BY <2>0, <3>1 DEF Written, Follows
  <2>2. CASE Finalize \/ Unfinalize \/ ReportNoCreds \/ ReportCreds
                \/ ReportSet \/ ReportNotSet
    <3>1. work.source \in Sources
      BY <1>1, <2>2, AtWork
         DEF Finalize, Unfinalize, ReportNoCreds, ReportCreds, ReportSet,
             ReportNotSet
    <3> QED BY <1>1, <2>0, <2>2, <3>1, ReconcileWrites
  <2>3. CASE UNCHANGED object
    BY <2>3
  <2> QED
    BY <1>1, <2>1, <2>2, <2>3, OthersWriteNothing DEF Next, Step
<1>2. ASSUME Inv, [Next]_vars PROVE [KeptStep]_vars
  BY <1>1, <1>2
<1> QED BY <1>2, InvHolds, PTL DEF Spec, TestEventKept

-----------------------------------------------------------------------------
(* The refinement of BucketSubscription.                                    *)

\* The values of its variables, as Subscription gives them.
wantBar == [s \in Sources |->
              IF Active(s) THEN {object[s].claim} \X object[s].events ELSE {}]
ackedBar == {s \in Sources :
               /\ Active(s)
               /\ object[s].set = [is |-> "True", gen |-> object[s].gen]
               /\ claim[object[s].claim] = "ready"}
notifiedBar == {p \in Claims \X EventTypes : p[2] \in notification[p[1]]}

\* A step that leaves them as they are is a stutter.
LEMMA Stutters ==
    ASSUME UNCHANGED <<wantBar, ackedBar, notifiedBar>>
    PROVE  UNCHANGED Subscription!vars
BY DEF Subscription!vars, wantBar, ackedBar, notifiedBar

\* A write of a source is a stutter, a change, or the acknowledgement of what
\* it wanted already.
LEMMA WriteRefines ==
    ASSUME Inv, Inv', NEW s \in Sources, NEW o \in Object,
           object' = [object EXCEPT ![s] = o],
           UNCHANGED <<claim, notification>>,
           Acked(s)' => /\ Active(s) /\ o.claim = object[s].claim
                        /\ o.events = object[s].events
    PROVE  [Subscription!Next]_Subscription!vars
<1>1. object \in [Sources -> Object] /\ object'[s] = o
      /\ notification \in [Claims -> SUBSET EventTypes]
  BY DEF Inv, TypeInv, TypeOK
<1> DEFINE w == IF o.live /\ ~o.deleting THEN {o.claim} \X o.events ELSE {}
<1>2. wantBar' = [wantBar EXCEPT ![s] = w]
  BY <1>1 DEF wantBar, Active
<1>3. w \in SUBSET (Claims \X EventTypes)
  <2>1. o.live => o.claim \in Claims
    BY <1>1 DEF Inv, SourceInv, StoreInOrder, WellFormed
  <2>2. o.events \in SUBSET EventTypes
    BY DEF Object
  <2> QED BY <2>1, <2>2
<1>4. notifiedBar' = notifiedBar
  BY DEF notifiedBar
<1>5. \A t \in Sources \ {s} : t \in ackedBar' <=> t \in ackedBar
  BY <1>1 DEF ackedBar, Active
<1>6. CASE s \notin ackedBar'
  <2>1. ackedBar' = ackedBar \ {s}
    BY <1>5, <1>6 DEF ackedBar
  <2>2. Subscription!Change(s)
    <3> HIDE DEF w
    <3> QED
      BY <1>2, <1>3, <1>4, <2>1
         DEF Subscription!Change, wantBar, ackedBar, notifiedBar
  <2> QED BY <2>2 DEF Subscription!Next
<1>7. CASE s \in ackedBar'
  <2>1. ackedBar' = ackedBar \cup {s}
    BY <1>5, <1>7 DEF ackedBar
  <2>2. Acked(s)'
    BY <1>7 DEF ackedBar, Acked
  <2>3. wantBar' = wantBar
    <3>1. wantBar[s] = w
      BY <1>1, <2>2 DEF wantBar, Acked, Active
    <3> QED BY <1>2, <3>1 DEF wantBar
  <2>4. wantBar[s] \subseteq notifiedBar
    <3>1. claim'[object'[s].claim] = "ready" /\ Covered(s)'
      BY <1>7, <2>2 DEF ackedBar, Inv, SourceInv, OwedIsKept, Owed
    <3>2. o.events \subseteq notification[o.claim]
      BY <1>1, <3>1 DEF Covered
    <3>3. wantBar[s] = w
      BY <1>2, <2>3 DEF wantBar
    <3>4. \A p \in w : p[1] = o.claim /\ p[2] \in o.events
      OBVIOUS
    <3>5. \A p \in w : p \in Claims \X EventTypes
      BY <1>3
    <3> HIDE DEF w
    <3> QED
      BY <3>2, <3>3, <3>4, <3>5 DEF notifiedBar
  <2>5. Subscription!Acknowledge(s)
    BY <1>4, <2>1, <2>3, <2>4
       DEF Subscription!Acknowledge, wantBar, ackedBar, notifiedBar
  <2> QED BY <2>5 DEF Subscription!Next
<1> QED BY <1>6, <1>7

\* The write of a notification configures a bucket, and takes no event from a
\* source that has its acknowledgement.
LEMMA PutRefines ==
    ASSUME Inv, Inv', UNCHANGED <<object, claim>>,
           NEW c \in Claims, NEW es \in SUBSET EventTypes,
           notification' = [notification EXCEPT ![c] = es]
    PROVE  Subscription!Next
<1>1. notification \in [Claims -> SUBSET EventTypes]
  BY DEF Inv, TypeInv, TypeOK
<1>2. UNCHANGED <<wantBar, ackedBar>>
  BY DEF wantBar, ackedBar, Active
<1>3. notifiedBar' = {p \in notifiedBar : p[1] # c} \cup ({c} \X es)
  <2>1. ASSUME NEW d \in Claims, NEW e \in EventTypes
        PROVE  <<d, e>> \in notifiedBar' <=>
                  <<d, e>> \in {p \in notifiedBar : p[1] # c} \cup ({c} \X es)
    BY <1>1 DEF notifiedBar
  <2>2. {p \in notifiedBar : p[1] # c} \cup ({c} \X es)
           \subseteq Claims \X EventTypes
    BY DEF notifiedBar
  <2>3. notifiedBar' \subseteq Claims \X EventTypes
    BY DEF notifiedBar
  <2> QED BY <2>1, <2>2, <2>3
<1>4. ASSUME NEW s \in ackedBar PROVE wantBar[s] \subseteq notifiedBar'
  <2>1. s \in Sources /\ Acked(s)' /\ claim'[object'[s].claim] = "ready"
        /\ object[s].claim \in Claims /\ object[s].events \in SUBSET EventTypes
    BY <1>2
       DEF ackedBar, Acked, Active, Inv, TypeInv, TypeOK, SourceInv,
           StoreInOrder, WellFormed, Object
  <2>2. Covered(s)'
    BY <2>1 DEF Inv, SourceInv, OwedIsKept, Owed
  <2>3. object[s].events \subseteq notification'[object[s].claim]
    BY <2>1, <2>2 DEF Covered
  <2>4. wantBar[s] = {object[s].claim} \X object[s].events
    BY <2>1 DEF wantBar, Acked, Active
  <2> QED BY <2>1, <2>3, <2>4 DEF notifiedBar
<1>5. Subscription!Configure(c)
  BY <1>2, <1>3, <1>4
     DEF Subscription!Configure, wantBar, ackedBar, notifiedBar
<1> QED BY <1>5 DEF Subscription!Next

\* A bucket that goes takes the acknowledgements of its sources with it; one
\* that comes has none.
LEMMA ProvisionerRefines ==
    ASSUME Inv, NEW c \in Claims, Provision(c) \/ WithdrawClaim(c)
    PROVE  [Subscription!Next]_Subscription!vars
<1>1. /\ notification \in [Claims -> SUBSET EventTypes]
      /\ claim \in [Claims -> {"absent", "bound", "ready", "gone"}]
  BY DEF Inv, TypeInv, TypeOK
<1>2. CASE Provision(c)
  <2>1. UNCHANGED <<wantBar, notifiedBar>>
    BY <1>2 DEF Provision, wantBar, notifiedBar, Active
  <2>2. ASSUME NEW s \in Sources, Acked(s)
        PROVE  claim'[object[s].claim] = claim[object[s].claim]
    <3>1. claim[object[s].claim] \in {"ready", "gone"}
          /\ object[s].claim \in Claims
      BY <2>2
         DEF Inv, SourceInv, StoreInOrder, WellFormed, OwedIsKept, Owed, Acked,
             Active
    <3> QED BY <1>1, <1>2, <3>1 DEF Provision
  <2>3. ackedBar' = ackedBar
    BY <1>2, <2>2 DEF ackedBar, Acked, Active, Provision
  <2> QED BY <2>1, <2>3, Stutters
<1>3. CASE WithdrawClaim(c)
  <2>1. /\ object' = object /\ claim' = [claim EXCEPT ![c] = "gone"]
        /\ notification' = [notification EXCEPT ![c] = {}]
    BY <1>3 DEF WithdrawClaim
  <2>2. wantBar' = wantBar
    BY <2>1 DEF wantBar, Active
  <2>3. notifiedBar' = {p \in notifiedBar : p[1] # c}
    BY <1>1, <2>1 DEF notifiedBar
  <2>4. ASSUME NEW s \in ackedBar'
        PROVE  s \in ackedBar /\ \A p \in wantBar[s] : p[1] # c
    <3>1. object[s].claim # c /\ s \in Sources /\ Active(s)
      BY <1>1, <2>1, <2>4 DEF ackedBar, Active
    <3>2. s \in ackedBar
      BY <1>1, <2>1, <2>4, <3>1 DEF ackedBar, Active
    <3> QED BY <3>1, <3>2 DEF wantBar
  <2>5. Subscription!Withdraw(c)
    BY <2>2, <2>3, <2>4
       DEF Subscription!Withdraw, wantBar, ackedBar, notifiedBar
  <2> QED BY <2>5 DEF Subscription!Next
<1> QED BY <1>2, <1>3

\* The subscriptions as the users see them are those of BucketSubscription, so
\* what AckStaysHonest says holds of them: each step of the reconciler, of its
\* users and of the storage is a step of BucketSubscription or none.
THEOREM ImplementsBucketSubscription == Spec => ImplementsSubscription
<1>1. Init => Subscription!Init
  <2> SUFFICES ASSUME Init PROVE Subscription!Init
    OBVIOUS
  <2>1. \A s \in Sources : ~Active(s)
    BY DEF Init, NoObject, NewObject, Active
  <2>2. \A c \in Claims : notification[c] = {}
    BY DEF Init
  <2> QED BY <2>1, <2>2 DEF Subscription!Init
<1>2. ASSUME Inv, Inv', [Next]_vars
      PROVE  [Subscription!Next]_Subscription!vars
  <2>0. object \in [Sources -> Object]
        /\ notification \in [Claims -> SUBSET EventTypes]
    BY <1>2 DEF Inv, TypeInv, TypeOK
  <2>1. ASSUME NEW s \in Sources,
               CreateSource(s) \/ ChangeSource(s) \/ DeleteSource(s)
                  \/ HandleTestEvent(s)
        PROVE  [Subscription!Next]_Subscription!vars
    <3>1. PICK o \in Object : /\ Written(s, o)
                              /\ WellFormed(o) /\ Follows(o, object[s])
                              /\ UNCHANGED storageVars
      BY <1>2, <2>1, UsersFollow
    <3>2. Acked(s)' => /\ Active(s) /\ o.claim = object[s].claim
                       /\ o.events = object[s].events
      <4>1. object'[s] = o
        BY <2>0, <3>1 DEF Written
      <4> QED BY <3>1, <4>1 DEF Acked, Active, Follows
    <3> QED BY <1>2, <3>1, <3>2, WriteRefines DEF Written, storageVars
  <2>2. CASE Finalize \/ Unfinalize \/ ReportNoCreds \/ ReportCreds
                \/ ReportSet \/ ReportNotSet
    <3>1. PICK s \in Sources : s = work.source
      BY <1>2, <2>2, AtWork
         DEF Finalize, Unfinalize, ReportNoCreds, ReportCreds, ReportSet,
             ReportNotSet
    <3>2. PICK o \in Object :
              /\ object' = [object EXCEPT ![s] = o]
              /\ \/ ~o.live
                 \/ /\ o.live = object[s].live
                    /\ o.deleting = object[s].deleting
                    /\ o.claim = object[s].claim
                    /\ o.events = object[s].events
      BY <1>2, <2>2, <3>1, ReconcileWrites
    <3>3. object'[s] = o
      BY <2>0, <3>2
    <3>4. Acked(s)' => /\ Active(s) /\ o.claim = object[s].claim
                       /\ o.events = object[s].events
      BY <3>2, <3>3 DEF Acked, Active
    <3>5. UNCHANGED <<claim, notification>>
      BY <2>2
         DEF Finalize, Unfinalize, ReportNoCreds, ReportCreds, ReportSet,
             ReportNotSet, storageVars
    <3> QED BY <1>2, <3>2, <3>4, <3>5, WriteRefines
  <2>3. CASE PutNotification \/ DeletePut
    <3>1. UNCHANGED <<object, claim>>
      BY <2>3 DEF PutNotification, DeletePut
    <3>2. \/ UNCHANGED notification
          \/ notification' =
                [notification EXCEPT ![work.copy.claim] = work.merged]
      BY <2>3 DEF PutNotification, DeletePut, PutSucceeds, PutFails
    <3>3. work.copy.claim \in Claims /\ work.merged \in SUBSET EventTypes
      BY <1>2, <2>3, AtWork
         DEF PutNotification, DeletePut, Inv, TypeInv, TypeOK, Work
    <3>4. CASE UNCHANGED notification
      BY <3>1, <3>4, Stutters DEF wantBar, ackedBar, notifiedBar, Active
    <3> QED BY <1>2, <3>1, <3>2, <3>3, <3>4, PutRefines
  <2>4. ASSUME NEW c \in Claims, Provision(c) \/ WithdrawClaim(c)
        PROVE  [Subscription!Next]_Subscription!vars
    BY <1>2, <2>4, ProvisionerRefines
  <2>5. CASE UNCHANGED <<object, claim, notification>>
    BY <2>5, Stutters DEF wantBar, ackedBar, notifiedBar, Active
  <2>6. ASSUME \/ \E s \in Sources : Deliver(s) \/ BeginReconcile(s)
               \/ CrashAndRestart \/ ReadClaim \/ Merge \/ DeleteReadClaim
               \/ DeleteMerge \/ UNCHANGED vars
        PROVE  UNCHANGED <<object, claim, notification>>
    BY <2>6
       DEF Deliver, BeginReconcile, CrashAndRestart, ReadClaim, Merge,
           DeleteReadClaim, DeleteMerge, vars, storageVars
  <2> QED
    BY <1>2, <2>1, <2>2, <2>3, <2>4, <2>5, <2>6 DEF Next, Step
<1> QED
  BY <1>1, <1>2, InvHolds, PTL DEF Spec, ImplementsSubscription,
     Subscription!Spec
=============================================================================
