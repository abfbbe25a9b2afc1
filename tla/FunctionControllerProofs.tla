----------------------- MODULE FunctionControllerProofs -----------------------
(***************************************************************************)
(* Proofs about FunctionController for every set of Functions and every    *)
(* bound: type correctness, and from the inductive invariant Inv the       *)
(* properties SpecObserved, OptOutRespected and ObservedNeverRegresses.    *)
(***************************************************************************)
EXTENDS FunctionControllerInvariant, TLAPS

-----------------------------------------------------------------------------
(* Types of the operators on statuses.                                      *)

\* The constants of the model are in their types.
LEMMA ConstantTypes ==
    /\ NoStatus \in Status
    /\ NoService \in Service
    /\ NoWork \in Work
    /\ NoObject \in Object
<1>1. NoStatus \in Status
  BY BoundsAssumption DEF NoStatus, Status, Condition, Generations
<1>2. NoService \in Service
  BY BoundsAssumption DEF NoService, Service, Versions
<1>3. NoWork \in Work
  BY <1>1, <1>2, BoundsAssumption
     DEF NoWork, Work, Steps, Generations, AutoUpdate, Stamps
<1>4. NoObject \in Object
  BY <1>1, BoundsAssumption
     DEF NoObject, Object, Generations, AutoUpdate, Stamps
<1> QED BY <1>1, <1>2, <1>3, <1>4

\* The condition helpers of function_lifecycle.go return statuses.
LEMMA LifecycleTypes ==
    ASSUME NEW s \in Status
    PROVE  /\ \A gen \in Generations : InitializeConditions(s, gen) \in Status
           /\ CalculateReadyCondition(s) \in Status
           /\ \A ready \in BOOLEAN : MarkServiceStatus(s, ready) \in Status
           /\ \A c \in Condition : /\ [s EXCEPT !.source = c] \in Status
                                   /\ [s EXCEPT !.deployed = c] \in Status
                                   /\ [s EXCEPT !.middleware = c] \in Status
<1>1. \A gen \in Generations : InitializeConditions(s, gen) \in Status
  BY DEF InitializeConditions, Status, Condition
<1>2. CalculateReadyCondition(s) \in Status
  BY DEF CalculateReadyCondition, Status, Condition
<1>3. \A ready \in BOOLEAN : MarkServiceStatus(s, ready) \in Status
  BY DEF MarkServiceStatus, Status, Condition
<1>4. \A c \in Condition : /\ [s EXCEPT !.source = c] \in Status
                           /\ [s EXCEPT !.deployed = c] \in Status
                           /\ [s EXCEPT !.middleware = c] \in Status
  BY DEF Status
<1> QED BY <1>1, <1>2, <1>3, <1>4

\* Recording an event of the past keeps the type.
LEMMA HistoryTypes ==
    ASSUME NEW s \in Status
    PROVE  /\ \A e \in HistoryEvents :
                  RecordHistoryEvent(s, e[1], e[2]) \in Status
           /\ \A ann \in Stamps : ApplyLastDeployed(s, ann) \in Status
<1>1. ASSUME NEW kind \in {"deployed", "rebuilt"},
             NEW id \in 0 .. (MaxStamp + MaxVersion)
      PROVE  RecordHistoryEvent(s, kind, id) \in Status
  <2>1. <<kind, id>> \in HistoryEvents
    BY DEF HistoryEvents
  <2>2. s.history \cup {<<kind, id>>} \in SUBSET HistoryEvents
    BY <2>1 DEF Status
  <2> QED BY <2>2 DEF RecordHistoryEvent, Status
<1>2. \A e \in HistoryEvents : RecordHistoryEvent(s, e[1], e[2]) \in Status
  BY <1>1 DEF HistoryEvents
<1>3. \A ann \in Stamps : ApplyLastDeployed(s, ann) \in Status
  <2> SUFFICES ASSUME NEW ann \in Stamps, ann # 0
               PROVE  RecordHistoryEvent(s, "deployed", ann) \in Status
    BY DEF ApplyLastDeployed
  <2>1. ann \in 0 .. (MaxStamp + MaxVersion)
    BY BoundsAssumption DEF Stamps
  <2> QED BY <2>1, <1>1
<1> QED BY <1>2, <1>3

\* The outcomes of handleMiddlewareUpdate are statuses.
LEMMA OutcomeTypes ==
    ASSUME NEW s \in Status, NEW desc \in Service, NEW latest \in Versions
    PROVE  /\ \A b \in BOOLEAN : /\ Described(s, desc, b) \in Status
                                 /\ UpToDate(s, desc, b) \in Status
           /\ Skipped(s, desc, latest) \in Status
           /\ Outdated(s, desc, latest) \in Status
           /\ Rebuilt(s, desc) \in Status
<1>0. desc.version \in 1 .. MaxVersion /\ desc.ready \in BOOLEAN
  BY DEF Service, Versions
<1>a. latest \in 0 .. MaxVersion /\ desc.version \in 0 .. MaxVersion
  BY <1>0, BoundsAssumption DEF Versions
<1>1. \A b \in BOOLEAN : Described(s, desc, b) \in Status
  BY <1>0, <1>a DEF Described, MarkServiceStatus, Status, Condition
<1>2. \A b \in BOOLEAN : UpToDate(s, desc, b) \in Status
  <2> SUFFICES ASSUME NEW b \in BOOLEAN PROVE UpToDate(s, desc, b) \in Status
    OBVIOUS
  <2> DEFINE d == Described(s, desc, b)
  <2>1. d \in Status  BY <1>1
  <2>2. UpToDate(s, desc, b) = [d EXCEPT !.middleware = "True",
                                         !.deployed = "True"]
    BY DEF UpToDate
  <2> HIDE DEF d
  <2> QED BY <2>1, <2>2 DEF Status, Condition
<1>3. Skipped(s, desc, latest) \in Status
  <2> DEFINE d == Described(s, desc, FALSE)
  <2>1. d \in Status  BY <1>1
  <2>2. Skipped(s, desc, latest) =
          [d EXCEPT !.available = latest, !.middleware = "True",
                    !.skip = TRUE, !.deployed = "True"]
    BY DEF Skipped
  <2> HIDE DEF d
  <2> QED BY <2>1, <2>2, <1>a DEF Status, Condition
<1>4. Outdated(s, desc, latest) \in Status
  <2> DEFINE d == Described(s, desc, TRUE)
  <2>1. d \in Status  BY <1>1
  <2>2. Outdated(s, desc, latest) =
          [d EXCEPT !.available = latest, !.middleware = "False",
                    !.pending = TRUE]
    BY DEF Outdated
  <2> HIDE DEF d
  <2> QED BY <2>1, <2>2, <1>a DEF Status, Condition
<1>5. Rebuilt(s, desc) \in Status
  <2> DEFINE r == RecordHistoryEvent(s, "rebuilt", s.available)
             d == [r EXCEPT !.current = desc.version, !.pending = FALSE,
                            !.available = 0, !.middleware = "True",
                            !.deployed = "True"]
  <2>1. <<"rebuilt", s.available>> \in HistoryEvents
    BY BoundsAssumption DEF Status, HistoryEvents
  <2>2. r \in Status
    <3>1. s.history \cup {<<"rebuilt", s.available>>} \in SUBSET HistoryEvents
      BY <2>1 DEF Status
    <3> QED BY <3>1 DEF RecordHistoryEvent, Status
  <2>3. d \in Status
    <3>1. 0 \in 0 .. MaxVersion
      BY BoundsAssumption
    <3> HIDE DEF r
    <3> QED BY <2>2, <3>1, <1>a DEF Status, Condition
  <2>4. Rebuilt(s, desc) = MarkServiceStatus(d, desc.ready)
    BY DEF Rebuilt
  <2> HIDE DEF d
  <2> QED BY <2>3, <2>4, <1>0, LifecycleTypes
<1> QED BY <1>1, <1>2, <1>3, <1>4, <1>5

-----------------------------------------------------------------------------
(* Type correctness.                                                        *)

\* A step that takes the final flush, or any other local step, keeps the types
\* of work when it stores a status.
LEMMA GotoTypes ==
    ASSUME TypeOK, NEW f \in Functions, NEW pc \in Steps, NEW s \in Status
    PROVE  /\ Goto(f, pc, s) => work' \in [Functions -> Work]
           /\ Abort(f, s) => work' \in [Functions -> Work]
<1>1. work[f] \in Work
  BY DEF TypeOK
<1>2. [work[f] EXCEPT !.pc = pc, !.status = s] \in Work
  BY <1>1 DEF Work
<1>3. [work[f] EXCEPT !.pc = "flush", !.status = s, !.failed = TRUE] \in Work
  BY <1>1 DEF Work, Steps
<1>4. \A w \in Work : [work EXCEPT ![f] = w] \in [Functions -> Work]
  BY DEF TypeOK
<1> QED BY <1>2, <1>3, <1>4 DEF Goto, Abort

\* A write of the status keeps the type of object.
LEMMA ObjectTypes ==
    ASSUME TypeOK, NEW f \in Functions, NEW s \in Status
    PROVE  [object EXCEPT ![f].status = s] \in [Functions -> Object]
<1>1. [object[f] EXCEPT !.status = s] \in Object
  BY DEF TypeOK, Object
<1> QED BY <1>1 DEF TypeOK

\* Disturbances are counted in naturals.
LEMMA SpendTypes ==
    ASSUME TypeOK, NEW k \in Disturbances, Spend(k)
    PROVE  spent' \in [Disturbances -> Nat]
  BY DEF TypeOK, Spend

\* The steps of users and of the cluster keep the types.
LEMMA EnvironmentTypes ==
    ASSUME TypeOK,
           \/ \E f \in Functions : UserStep(f) \/ FinishBuild(f)
           \/ UpdateCli \/ ChangeConfig
    PROVE  TypeOK'
<1>1. ASSUME NEW f \in Functions, CreateFunction(f) PROVE TypeOK'
  <2>1. object[f] \in Object /\ object[f].gen + 1 \in Generations
    BY <1>1, BoundsAssumption DEF CreateFunction, TypeOK, Object, Generations
  <2>2. \A auto \in AutoUpdate :
          [object[f] EXCEPT !.live = TRUE, !.gen = object[f].gen + 1,
                            !.auto = auto] \in Object
    BY <2>1 DEF Object
  <2>3. object' \in [Functions -> Object]
    BY <1>1, <2>2 DEF CreateFunction, TypeOK
  <2> QED BY <1>1, <2>3
          DEF CreateFunction, UserFrame, TypeOK, configVars, clusterVars
<1>2. ASSUME NEW f \in Functions, UpdateSpec(f) PROVE TypeOK'
  <2>1. object[f] \in Object /\ object[f].gen + 1 \in Generations
    BY <1>2, BoundsAssumption DEF UpdateSpec, TypeOK, Object, Generations
  <2>2. \A auto \in AutoUpdate :
          [object[f] EXCEPT !.gen = object[f].gen + 1, !.auto = auto] \in Object
    BY <2>1 DEF Object
  <2>3. object' \in [Functions -> Object]
    BY <1>2, <2>2 DEF UpdateSpec, TypeOK
  <2> QED BY <1>2, <2>3
          DEF UpdateSpec, UserFrame, TypeOK, configVars, clusterVars
<1>3. ASSUME NEW f \in Functions, DeleteFunction(f) PROVE TypeOK'
  BY <1>3, ConstantTypes
     DEF DeleteFunction, UserFrame, TypeOK, Object, configVars, clusterVars
<1>4. ASSUME NEW f \in Functions, Annotate(f) PROVE TypeOK'
  <2>1. object[f] \in Object /\ object[f].stamped + 1 \in Stamps
    BY <1>4, BoundsAssumption DEF Annotate, TypeOK, Object, Stamps
  <2>2. [object[f] EXCEPT !.ann = object[f].stamped + 1,
                          !.stamped = object[f].stamped + 1] \in Object
    BY <2>1 DEF Object
  <2>3. object' \in [Functions -> Object]
    BY <1>4, <2>2 DEF Annotate, TypeOK
  <2> QED BY <1>4, <2>3
          DEF Annotate, UserFrame, TypeOK, configVars, clusterVars
<1>5. ASSUME NEW f \in Functions, ChangeService(f) PROVE TypeOK'
  <2>1. spent' \in [Disturbances -> Nat]
    BY <1>5, SpendTypes DEF ChangeService, Disturbances
  <2>2. service' \in [Functions -> Service]
    BY <1>5, ConstantTypes DEF ChangeService, TypeOK, Service
  <2> QED BY <1>5, <2>1, <2>2 DEF ChangeService, TypeOK, configVars
<1>6. ASSUME NEW f \in Functions, FinishBuild(f) PROVE TypeOK'
  BY <1>6 DEF FinishBuild, TypeOK, Service, configVars
<1>7. CASE UpdateCli
  <2>1. spent' \in [Disturbances -> Nat]
    BY <1>7, SpendTypes DEF UpdateCli, Disturbances
  <2> QED BY <1>7, <2>1, BoundsAssumption
          DEF UpdateCli, TypeOK, Versions, configVars
<1>8. CASE ChangeConfig
  <2>1. spent' \in [Disturbances -> Nat]
    BY <1>8, SpendTypes DEF ChangeConfig, Disturbances
  <2> QED BY <1>8, <2>1, ConfigAssumption
          DEF ChangeConfig, TypeOK, clusterVars
<1> QED BY <1>1, <1>2, <1>3, <1>4, <1>5, <1>6, <1>7, <1>8 DEF UserStep

\* The informers, the event handlers, the start of a Reconcile and a restart of
\* the operator keep the types.
LEMMA RuntimeTypes ==
    ASSUME TypeOK,
           \/ \E f \in Functions : Deliver(f) \/ Dispatch(f) \/ Start(f)
           \/ DeliverConfig \/ DispatchConfig \/ Restart
    PROVE  TypeOK'
<1>1. ASSUME NEW f \in Functions, Deliver(f) PROVE TypeOK'
  BY <1>1 DEF Deliver, TypeOK, configVars, clusterVars
<1>2. ASSUME NEW f \in Functions, Dispatch(f) PROVE TypeOK'
  BY <1>2 DEF Dispatch, TypeOK, configVars, clusterVars
<1>3. CASE DeliverConfig
  BY <1>3 DEF DeliverConfig, TypeOK, clusterVars
<1>4. CASE DispatchConfig
  BY <1>4 DEF DispatchConfig, TypeOK, clusterVars
<1>5. ASSUME NEW f \in Functions, Start(f) PROVE TypeOK'
  <2> DEFINE c == cache[f]
             s == InitializeConditions(c.status, c.gen)
             w == [NoWork EXCEPT !.pc = "source", !.gen = c.gen,
                                 !.auto = c.auto, !.ann = c.ann, !.status = s]
  <2>1. c \in Object
    BY DEF TypeOK
  <2>2. s \in Status
    BY <2>1, LifecycleTypes DEF Object
  <2>3. w \in Work
    <3> HIDE DEF s, c
    <3> QED BY <2>1, <2>2, ConstantTypes DEF Work, Object, Steps
  <2>4. work' = IF c.live THEN [work EXCEPT ![f] = w] ELSE work
    BY <1>5 DEF Start
  <2>5. work' \in [Functions -> Work]
    <3> HIDE DEF w
    <3> QED BY <2>3, <2>4 DEF TypeOK
  <2> QED BY <1>5, <2>5 DEF Start, TypeOK, configVars, clusterVars
<1>6. CASE Restart
  <2>1. spent' \in [Disturbances -> Nat]
    BY <1>6, SpendTypes DEF Restart, Disturbances
  <2> QED BY <1>6, <2>1, ConstantTypes
          DEF Restart, TypeOK, AllConfigValues, clusterVars
<1> QED BY <1>1, <1>2, <1>3, <1>4, <1>5, <1>6

\* The steps of a Reconcile keep the types.
LEMMA ReconcileTypes ==
    ASSUME TypeOK, NEW f \in Functions, ReconcileStep(f)
    PROVE  TypeOK'
<1> DEFINE s == work[f].status
<1>0. /\ s \in Status /\ work[f].desc \in Service /\ work[f].ann \in Stamps
      /\ work[f].enabled \in BOOLEAN /\ cli \in Versions
      /\ service[f] \in Service
  BY DEF TypeOK, Work
<1>s. spent' = spent \/ Spend("fault") => spent' \in [Disturbances -> Nat]
  BY SpendTypes DEF TypeOK, Disturbances
<1>c. \A c \in {"True", "False"} : /\ [s EXCEPT !.source = c] \in Status
                                   /\ [s EXCEPT !.deployed = c] \in Status
                                   /\ [s EXCEPT !.middleware = c] \in Status
  BY <1>0, LifecycleTypes DEF Condition
<1>r. CalculateReadyCondition(s) \in Status
  BY <1>0, LifecycleTypes
<1>w. /\ work[f] \in Work
      /\ \A w \in Work : [work EXCEPT ![f] = w] \in [Functions -> Work]
  BY DEF TypeOK
<1> HIDE DEF s
<1>1. CASE PrepareSource(f)
  <2>1. work' \in [Functions -> Work]
    BY <1>1, <1>c, GotoTypes DEF PrepareSource, Steps, s
  <2> QED BY <1>1, <1>s, <2>1
          DEF PrepareSource, LocalFrame, TypeOK, configVars, clusterVars
<1>2. CASE Describe(f)
  <2>1. ApplyLastDeployed(s, work[f].ann) \in Status
    BY <1>0, HistoryTypes
  <2>2. work' \in [Functions -> Work]
    <3> DEFINE w == [work[f] EXCEPT
                       !.pc = "setting", !.desc = service[f],
                       !.status = ApplyLastDeployed(s, work[f].ann)]
    <3>1. CASE work' = [work EXCEPT ![f] = w]
      <4>1. w \in Work
        BY <2>1, <1>0, <1>w DEF Work, Steps, s
      <4> QED BY <3>1, <4>1, <1>w
    <3>2. CASE \/ Goto(f, "annotations", [s EXCEPT !.deployed = "False"])
               \/ Abort(f, [s EXCEPT !.deployed = "False"])
      BY <3>2, <1>c, GotoTypes DEF Steps
    <3> QED BY <1>2, <3>1, <3>2 DEF Describe, s
  <2>3. spent' \in [Disturbances -> Nat]
    BY <1>2, <1>s DEF Describe
  <2> QED BY <1>2, <2>2, <2>3
          DEF Describe, LocalFrame, TypeOK, configVars, clusterVars
<1>3. CASE ResolveSetting(f)
  <2>1. work' \in [Functions -> Work]
    <3>1. ASSUME NEW b \in BOOLEAN,
                 work' = [work EXCEPT ![f] =
                            [@ EXCEPT !.pc = "latest", !.enabled = b]]
          PROVE  work' \in [Functions -> Work]
      <4>1. [work[f] EXCEPT !.pc = "latest", !.enabled = b] \in Work
        BY <1>w DEF Work, Steps
      <4> QED BY <3>1, <4>1, <1>w
    <3>2. CASE Abort(f, [s EXCEPT !.middleware = "False"])
      BY <3>2, <1>c, GotoTypes DEF Steps
    <3> QED BY <1>3, <3>1, <3>2 DEF ResolveSetting, s
  <2> QED BY <1>3, <2>1
          DEF ResolveSetting, LocalFrame, TypeOK, configVars, clusterVars
<1>4. CASE CheckLatest(f)
  <2>1. /\ UpToDate(s, work[f].desc, work[f].enabled) \in Status
        /\ Skipped(s, work[f].desc, cli) \in Status
        /\ Outdated(s, work[f].desc, cli) \in Status
    BY <1>0, OutcomeTypes
  <2>2. work' \in [Functions -> Work]
    BY <1>4, <2>1, <1>c, GotoTypes DEF CheckLatest, Steps, s
  <2> QED BY <1>4, <1>s, <2>2
          DEF CheckLatest, LocalFrame, TypeOK, configVars, clusterVars
<1>5. CASE PreFlush(f)
  <2> DEFINE r == CalculateReadyCondition(s)
  <2>1. work' \in [Functions -> Work]
    <3> DEFINE w == [work[f] EXCEPT !.pc = "deploy", !.status = r, !.sent = r]
    <3>0. r \in Status
      BY <1>r
    <3>1. CASE work' = [work EXCEPT ![f] = w]
      <4>1. w \in Work
        <5> HIDE DEF r
        <5> QED BY <3>0, <1>w DEF Work, Steps
      <4> QED BY <3>1, <4>1, <1>w
    <3>2. CASE Goto(f, "deploy", r)
      BY <3>0, <3>2, GotoTypes DEF Steps
    <3> QED BY <1>5, <3>1, <3>2 DEF PreFlush, s
  <2>2. object' \in [Functions -> Object]
    <3>1. object' = [object EXCEPT ![f].status = r] \/ object' = object
      BY <1>5 DEF PreFlush, s
    <3> HIDE DEF r
    <3> QED BY <3>1, <1>r, ObjectTypes DEF TypeOK, r
  <2> QED BY <1>5, <1>s, <2>1, <2>2
          DEF PreFlush, FailsIf, TypeOK, configVars, clusterVars
<1>6. CASE StartDeploy(f)
  <2>1. work' \in [Functions -> Work]
    <3> DEFINE w == [work[f] EXCEPT !.pc = "wait", !.job = cli]
    <3>1. CASE work' = [work EXCEPT ![f] = w]
      <4>0. cli \in 0 .. MaxVersion
        BY <1>0, BoundsAssumption DEF Versions
      <4>1. w \in Work
        BY <4>0, <1>w DEF Work, Steps
      <4> QED BY <3>1, <4>1, <1>w
    <3>2. CASE Abort(f, [s EXCEPT !.deployed = "False"])
      BY <3>2, <1>c, GotoTypes DEF Steps
    <3> QED BY <1>6, <3>1, <3>2 DEF StartDeploy, s
  <2>2. builds' \in [Functions -> SUBSET Versions]
    BY <1>6, <1>0 DEF StartDeploy, TypeOK
  <2> QED BY <1>6, <1>s, <2>1, <2>2 DEF StartDeploy, TypeOK, configVars
<1>7. CASE AwaitDeploy(f)
  <2>1. work' \in [Functions -> Work]
    BY <1>7, <1>0, <1>c, GotoTypes DEF AwaitDeploy, Steps, s
  <2>2. builds' \in [Functions -> SUBSET Versions]
    BY <1>7 DEF AwaitDeploy, TypeOK
  <2> QED BY <1>7, <1>s, <2>1, <2>2 DEF AwaitDeploy, TypeOK, configVars
<1>8. CASE Redescribe(f)
  <2>1. Rebuilt(s, service[f]) \in Status
    BY <1>0, OutcomeTypes
  <2>2. work' \in [Functions -> Work]
    BY <1>8, <1>0, <2>1, GotoTypes DEF Redescribe, Steps, s
  <2> QED BY <1>8, <1>s, <2>2
          DEF Redescribe, FailsIf, LocalFrame, TypeOK, configVars, clusterVars
<1>9. CASE RemoveAnnotations(f)
  <2>1. work' \in [Functions -> Work]
    BY <1>9, <1>0, GotoTypes DEF RemoveAnnotations, Steps, s
  <2>2. object' \in [Functions -> Object]
    <3>1. [object[f] EXCEPT !.ann = 0] \in Object
      BY BoundsAssumption DEF TypeOK, Object, Stamps
    <3> QED BY <1>9, <3>1 DEF RemoveAnnotations, TypeOK
  <2> QED BY <1>9, <1>s, <2>1, <2>2
          DEF RemoveAnnotations, FailsIf, TypeOK, configVars, clusterVars
<1>10. CASE FinalFlush(f)
  <2> DEFINE r == CalculateReadyCondition(s)
  <2>1. work' \in [Functions -> Work] /\ queue' \subseteq Functions
    BY <1>10, <1>w, ConstantTypes DEF FinalFlush, Return, TypeOK
  <2>2. object' \in [Functions -> Object]
    <3>1. object' = [object EXCEPT ![f].status = r] \/ object' = object
      BY <1>10 DEF FinalFlush, s
    <3> HIDE DEF r
    <3> QED BY <3>1, <1>r, ObjectTypes DEF TypeOK, r
  <2> QED BY <1>10, <1>s, <2>1, <2>2
          DEF FinalFlush, FailsIf, TypeOK, configVars, clusterVars
<1> QED BY <1>1, <1>2, <1>3, <1>4, <1>5, <1>6, <1>7, <1>8, <1>9, <1>10
        DEF ReconcileStep

\* The initial states are well typed.
LEMMA InitTypes == Init => TypeOK
<1> SUFFICES ASSUME Init PROVE TypeOK
  OBVIOUS
<1>1. object \in [Functions -> Object] /\ cache \in [Functions -> Object]
  BY ConstantTypes DEF Init
<1>2. work \in [Functions -> Work] /\ service \in [Functions -> Service]
  BY ConstantTypes DEF Init
<1>3. builds \in [Functions -> SUBSET Versions] /\ cli \in Versions
  BY BoundsAssumption DEF Init, Versions
<1>4. spent \in [Disturbances -> Nat]
  BY DEF Init
<1> QED BY <1>1, <1>2, <1>3, <1>4 DEF Init, TypeOK, AllConfigValues

\* Every step keeps the types.
LEMMA NextTypes == TypeOK /\ [Next]_vars => TypeOK'
<1> SUFFICES ASSUME TypeOK, [Next]_vars PROVE TypeOK'
  OBVIOUS
<1>1. CASE UNCHANGED vars
  BY <1>1 DEF vars, configVars, clusterVars, TypeOK
<1> QED BY <1>1, EnvironmentTypes, RuntimeTypes, ReconcileTypes DEF Next

\* Every reachable state is well typed.
THEOREM TypeCorrect == Spec => []TypeOK
  BY InitTypes, NextTypes, PTL DEF Spec

-----------------------------------------------------------------------------
(* The inductive invariant.                                                 *)

\* Everything FunctionInv(g) speaks of is left alone, except that g may be
\* queued: all its parts are weaker for a Function that is.
LEMMA Frame ==
    ASSUME NEW g \in Functions, FunctionInv(g),
           object'[g] = object[g], cache'[g] = cache[g], work'[g] = work[g],
           Told(g) => Told(g)', g \in lag => g \in lag'
    PROVE  FunctionInv(g)'
  BY DEF FunctionInv, NoLagIsEqual, VersionsInOrder, DeletedIsBare,
     ObservationsInOrder, SentIsStored, GenerationCovered,
     AnnotationCovered, SpecOfGeneration,
     Busy

\* The types of what FunctionInv(f) speaks of, in a form arithmetic can use.
LEMMA Components ==
    ASSUME TypeOK, NEW f \in Functions
    PROVE  /\ object[f] \in Object /\ cache[f] \in Object /\ work[f] \in Work
           /\ {object[f].gen, cache[f].gen, work[f].gen} \subseteq Nat
           /\ {object[f].ann, cache[f].ann, object[f].stamped} \subseteq Nat
           /\ {object[f].status.observed, work[f].status.observed} \subseteq Nat
           /\ object[f].status \in Status /\ cache[f].status \in Status
           /\ work[f].status \in Status
<1>1. object[f] \in Object /\ cache[f] \in Object /\ work[f] \in Work
  BY DEF TypeOK
<1>2. /\ {object[f].gen, cache[f].gen, work[f].gen} \subseteq Nat
      /\ {object[f].ann, cache[f].ann, object[f].stamped} \subseteq Nat
  BY <1>1, BoundsAssumption DEF Object, Work, Generations, Stamps
<1>3. /\ object[f].status \in Status /\ cache[f].status \in Status
      /\ work[f].status \in Status
  BY <1>1 DEF Object, Work
<1>4. \A s \in Status : s.observed \in Nat
  BY BoundsAssumption DEF Status, Generations
<1> QED BY <1>1, <1>2, <1>3, <1>4

\* No outcome of a Reconcile changes the generation the status is about.
LEMMA ObservedKept ==
    ASSUME NEW s \in Status
    PROVE  /\ CalculateReadyCondition(s).observed = s.observed
           /\ CalculateReadyCondition(s) # NoStatus
           /\ \A ann \in Stamps : ApplyLastDeployed(s, ann).observed = s.observed
           /\ \A c \in Condition :
                /\ [s EXCEPT !.source = c].observed = s.observed
                /\ [s EXCEPT !.deployed = c].observed = s.observed
                /\ [s EXCEPT !.middleware = c].observed = s.observed
           /\ \A desc \in Service, latest \in Versions, b \in BOOLEAN :
                /\ UpToDate(s, desc, b).observed = s.observed
                /\ Skipped(s, desc, latest).observed = s.observed
                /\ Outdated(s, desc, latest).observed = s.observed
                /\ Rebuilt(s, desc).observed = s.observed
<1>1. CalculateReadyCondition(s).observed = s.observed
  BY DEF CalculateReadyCondition, Status
<1>2. CalculateReadyCondition(s).ready \in {"True", "False"}
  BY DEF CalculateReadyCondition, Status
<1>3. CalculateReadyCondition(s) # NoStatus
  BY <1>2 DEF NoStatus
<1>4. \A ann \in Stamps : ApplyLastDeployed(s, ann).observed = s.observed
  BY DEF ApplyLastDeployed, RecordHistoryEvent, Status
<1>5. \A c \in Condition :
        /\ [s EXCEPT !.source = c].observed = s.observed
        /\ [s EXCEPT !.deployed = c].observed = s.observed
        /\ [s EXCEPT !.middleware = c].observed = s.observed
  BY DEF Status
<1>6. \A desc \in Service, latest \in Versions, b \in BOOLEAN :
        /\ UpToDate(s, desc, b).observed = s.observed
        /\ Skipped(s, desc, latest).observed = s.observed
        /\ Outdated(s, desc, latest).observed = s.observed
        /\ Rebuilt(s, desc).observed = s.observed
  BY DEF UpToDate, Skipped, Outdated, Rebuilt, Described, MarkServiceStatus,
         RecordHistoryEvent, Status
<1> QED BY <1>1, <1>3, <1>4, <1>5, <1>6

\* What the steps of a Reconcile that write nothing to the API server do to f.
LocalEffect(f) ==
    /\ object' = object /\ cache' = cache /\ lag' = lag
    /\ events' = events /\ queue' = queue
    /\ \A g \in Functions \ {f} : work'[g] = work[g]
    /\ work[f].pc # "idle" /\ work'[f].pc # "idle"
    /\ work'[f].gen = work[f].gen /\ work'[f].auto = work[f].auto
    /\ work'[f].sent = work[f].sent
    /\ work'[f].status.observed = work[f].status.observed
    /\ work'[f].pc = "flush" => work'[f].failed
    /\ work'[f].pc = "latest" /\ work'[f].enabled => work[f].auto # "off"
    /\ work'[f].pc \in {"preflush", "deploy", "wait"} => work[f].auto # "off"

\* A step that writes nothing to the API server keeps the invariant of f.
LEMMA LocalEffectKeepsInv ==
    ASSUME NEW f \in Functions, FunctionInv(f), LocalEffect(f)
    PROVE  FunctionInv(f)'
  BY DEF FunctionInv, NoLagIsEqual, VersionsInOrder, DeletedIsBare,
     ObservationsInOrder, SentIsStored, GenerationCovered,
     AnnotationCovered, SpecOfGeneration,
     Busy, Told, LocalEffect

\* The reconcile steps without a write have that effect.
LEMMA LocalSteps ==
    ASSUME TypeOK, NEW f \in Functions, FunctionInv(f),
           \/ PrepareSource(f) \/ Describe(f) \/ ResolveSetting(f)
           \/ CheckLatest(f) \/ StartDeploy(f) \/ AwaitDeploy(f)
           \/ Redescribe(f)
    PROVE  LocalEffect(f)
<1> DEFINE s == work[f].status
<1>0. /\ work[f] \in Work /\ s \in Status /\ work \in [Functions -> Work]
      /\ work[f].desc \in Service /\ work[f].ann \in Stamps
      /\ work[f].enabled \in BOOLEAN /\ cli \in Versions
      /\ service[f] \in Service
  BY DEF TypeOK, Work
\* Goto to a step other than flush and latest, and Abort, have the effect when
\* the status is about the same generation.
<1>g. ASSUME NEW pc \in Steps \ {"idle", "latest", "flush"}, NEW t \in Status,
             t.observed = s.observed, Goto(f, pc, t), work[f].pc # "idle",
             LocalFrame,
             pc \in {"preflush", "deploy", "wait"} => work[f].auto # "off"
      PROVE  LocalEffect(f)
  <2>1. /\ work'[f] = [work[f] EXCEPT !.pc = pc, !.status = t]
        /\ \A g \in Functions \ {f} : work'[g] = work[g]
    BY <1>0, <1>g DEF Goto
  <2>2. /\ work'[f].pc = pc /\ work'[f].status = t
        /\ work'[f].gen = work[f].gen /\ work'[f].auto = work[f].auto
        /\ work'[f].sent = work[f].sent
    BY <1>0, <2>1 DEF Work
  <2> QED BY <1>g, <2>1, <2>2 DEF LocalEffect, LocalFrame
<1>a. ASSUME NEW t \in Status, t.observed = s.observed, Abort(f, t),
             work[f].pc # "idle",
             UNCHANGED <<object, cache, lag, events, queue>>
      PROVE  LocalEffect(f)
  <2>1. /\ work'[f] = [work[f] EXCEPT !.pc = "flush", !.status = t,
                                      !.failed = TRUE]
        /\ \A g \in Functions \ {f} : work'[g] = work[g]
    BY <1>0, <1>a DEF Abort
  <2>2. /\ work'[f].pc = "flush" /\ work'[f].status = t /\ work'[f].failed
        /\ work'[f].gen = work[f].gen /\ work'[f].auto = work[f].auto
        /\ work'[f].sent = work[f].sent
    BY <1>0, <2>1 DEF Work
  <2> QED BY <1>a, <2>1, <2>2 DEF LocalEffect
<1>c. \A c \in {"True", "False"} :
        /\ [s EXCEPT !.source = c] \in Status
        /\ [s EXCEPT !.source = c].observed = s.observed
        /\ [s EXCEPT !.deployed = c] \in Status
        /\ [s EXCEPT !.deployed = c].observed = s.observed
        /\ [s EXCEPT !.middleware = c] \in Status
        /\ [s EXCEPT !.middleware = c].observed = s.observed
  <2>1. {"True", "False"} \subseteq Condition
    BY DEF Condition
  <2>2. \A c \in {"True", "False"} : /\ [s EXCEPT !.source = c] \in Status
                                    /\ [s EXCEPT !.deployed = c] \in Status
                                    /\ [s EXCEPT !.middleware = c] \in Status
    BY <1>0, <2>1, LifecycleTypes
  <2>3. \A c \in {"True", "False"} :
          /\ [s EXCEPT !.source = c].observed = s.observed
          /\ [s EXCEPT !.deployed = c].observed = s.observed
          /\ [s EXCEPT !.middleware = c].observed = s.observed
    BY <1>0, <2>1, ObservedKept
  <2> QED BY <2>2, <2>3
<1>1. CASE PrepareSource(f)
  BY <1>1, <1>g, <1>a, <1>c DEF PrepareSource, LocalFrame, Steps
<1>2. CASE Describe(f)
  <2>1. CASE work' = [work EXCEPT ![f] =
               [@ EXCEPT !.pc = "setting", !.desc = service[f],
                         !.status = ApplyLastDeployed(s, work[f].ann)]]
    <3> DEFINE t == ApplyLastDeployed(s, work[f].ann)
    <3>1. t.observed = s.observed
      BY <1>0, ObservedKept
    <3> HIDE DEF t
    <3>2. /\ work'[f] = [work[f] EXCEPT !.pc = "setting", !.desc = service[f],
                                        !.status = t]
          /\ \A g \in Functions \ {f} : work'[g] = work[g]
      BY <1>0, <2>1 DEF t
    <3>3. /\ work'[f].pc = "setting" /\ work'[f].status = t
          /\ work'[f].gen = work[f].gen /\ work'[f].auto = work[f].auto
          /\ work'[f].sent = work[f].sent
      BY <1>0, <3>2 DEF Work
    <3> QED BY <1>2, <3>1, <3>2, <3>3 DEF Describe, LocalFrame, LocalEffect
  <2>2. CASE \/ Goto(f, "annotations", [s EXCEPT !.deployed = "False"])
             \/ Abort(f, [s EXCEPT !.deployed = "False"])
    BY <1>2, <2>2, <1>g, <1>a, <1>c DEF Describe, LocalFrame, Steps
  <2> QED BY <1>2, <2>1, <2>2 DEF Describe
<1>3. CASE ResolveSetting(f)
  <2>1. ASSUME NEW b \in BOOLEAN,
               work' = [work EXCEPT ![f] =
                          [@ EXCEPT !.pc = "latest", !.enabled = b]],
               b => Setting(work[f].auto, configCache) = "on"
        PROVE  LocalEffect(f)
    <3>1. /\ work'[f] = [work[f] EXCEPT !.pc = "latest", !.enabled = b]
          /\ \A g \in Functions \ {f} : work'[g] = work[g]
      BY <1>0, <2>1
    <3>2. /\ work'[f].pc = "latest" /\ work'[f].enabled = b
          /\ work'[f].gen = work[f].gen /\ work'[f].auto = work[f].auto
          /\ work'[f].sent = work[f].sent /\ work'[f].status = s
      BY <1>0, <3>1 DEF Work
    <3>3. b => work[f].auto # "off"
      BY <2>1 DEF Setting
    <3> QED BY <1>3, <3>1, <3>2, <3>3
            DEF ResolveSetting, LocalFrame, LocalEffect
  <2>2. CASE Abort(f, [s EXCEPT !.middleware = "False"])
    BY <1>3, <2>2, <1>a, <1>c DEF ResolveSetting, LocalFrame
  <2> QED BY <1>3, <2>1, <2>2 DEF ResolveSetting
<1>4. CASE CheckLatest(f)
  <2>1. /\ UpToDate(s, work[f].desc, work[f].enabled) \in Status
        /\ UpToDate(s, work[f].desc, work[f].enabled).observed = s.observed
        /\ Skipped(s, work[f].desc, cli) \in Status
        /\ Skipped(s, work[f].desc, cli).observed = s.observed
        /\ Outdated(s, work[f].desc, cli) \in Status
        /\ Outdated(s, work[f].desc, cli).observed = s.observed
    <3>1. /\ UpToDate(s, work[f].desc, work[f].enabled) \in Status
          /\ Skipped(s, work[f].desc, cli) \in Status
          /\ Outdated(s, work[f].desc, cli) \in Status
      BY <1>0, OutcomeTypes
    <3>2. /\ UpToDate(s, work[f].desc, work[f].enabled).observed = s.observed
          /\ Skipped(s, work[f].desc, cli).observed = s.observed
          /\ Outdated(s, work[f].desc, cli).observed = s.observed
      BY <1>0, ObservedKept
    <3> QED BY <3>1, <3>2
  <2>2. work[f].pc = "latest" /\ LocalFrame
    BY <1>4 DEF CheckLatest
  <2>3. CASE Goto(f, "annotations", UpToDate(s, work[f].desc, work[f].enabled))
    BY <2>1, <2>2, <2>3, <1>g DEF Steps
  <2>4. CASE Goto(f, "annotations", Skipped(s, work[f].desc, cli))
    BY <2>1, <2>2, <2>4, <1>g DEF Steps
  <2>5. CASE work[f].enabled /\ Goto(f, "preflush", Outdated(s, work[f].desc, cli))
    <3>1. work[f].auto # "off"
      BY <2>2, <2>5 DEF FunctionInv, SpecOfGeneration
    <3> QED BY <2>1, <2>2, <2>5, <3>1, <1>g DEF Steps
  <2>6. CASE Abort(f, [s EXCEPT !.middleware = "False"])
    BY <2>2, <2>6, <1>a, <1>c DEF LocalFrame
  <2> QED BY <1>4, <2>3, <2>4, <2>5, <2>6 DEF CheckLatest
<1>5. CASE StartDeploy(f)
  <2>1. CASE work' = [work EXCEPT ![f] = [@ EXCEPT !.pc = "wait", !.job = cli]]
    <3>1. /\ work'[f] = [work[f] EXCEPT !.pc = "wait", !.job = cli]
          /\ \A g \in Functions \ {f} : work'[g] = work[g]
      BY <1>0, <2>1
    <3>2. /\ work'[f].pc = "wait" /\ work'[f].status = s
          /\ work'[f].gen = work[f].gen /\ work'[f].auto = work[f].auto
          /\ work'[f].sent = work[f].sent
      BY <1>0, <3>1 DEF Work
    <3>3. work[f].auto # "off"
      BY <1>5 DEF StartDeploy, FunctionInv, SpecOfGeneration
    <3> QED BY <1>5, <3>1, <3>2, <3>3 DEF StartDeploy, LocalEffect
  <2>2. CASE Abort(f, [s EXCEPT !.deployed = "False"])
    BY <1>5, <2>2, <1>a, <1>c DEF StartDeploy
  <2> QED BY <1>5, <2>1, <2>2 DEF StartDeploy
<1>6. CASE AwaitDeploy(f)
  <2>1. CASE Goto(f, "redescribe", s) /\ UNCHANGED builds
    BY <1>6, <2>1, <1>0, <1>g
       DEF AwaitDeploy, LocalFrame, Steps, configVars, clusterVars
  <2>2. CASE Abort(f, [s EXCEPT !.deployed = "False"])
    BY <1>6, <2>2, <1>a, <1>c DEF AwaitDeploy
  <2> QED BY <1>6, <2>1, <2>2 DEF AwaitDeploy
<1>7. CASE Redescribe(f)
  <2>1. /\ Rebuilt(s, service[f]) \in Status
        /\ Rebuilt(s, service[f]).observed = s.observed
    BY <1>0, OutcomeTypes, ObservedKept
  <2> QED BY <1>7, <1>0, <2>1, <1>g, <1>a DEF Redescribe, LocalFrame, Steps
<1> QED BY <1>1, <1>2, <1>3, <1>4, <1>5, <1>6, <1>7

\* The three steps that write to the API server keep the invariant of f.
LEMMA WritingSteps ==
    ASSUME TypeOK, NEW f \in Functions, FunctionInv(f),
           PreFlush(f) \/ RemoveAnnotations(f) \/ FinalFlush(f)
    PROVE  FunctionInv(f)'
<1> DEFINE s == work[f].status
           r == CalculateReadyCondition(s)
<1>0. /\ object[f] \in Object /\ work[f] \in Work /\ s \in Status
      /\ object \in [Functions -> Object] /\ work \in [Functions -> Work]
      /\ {object[f].gen, cache[f].gen, work[f].gen} \subseteq Nat
      /\ {object[f].ann, cache[f].ann, object[f].stamped} \subseteq Nat
      /\ {object[f].status.observed, s.observed} \subseteq Nat
  BY Components DEF TypeOK
<1>r. r \in Status /\ r.observed = s.observed /\ r # NoStatus
  BY <1>0, LifecycleTypes, ObservedKept
<1> HIDE DEF r
<1>1. CASE PreFlush(f)
  <2>0. /\ work[f].pc = "preflush"
        /\ cache' = cache /\ events' = events /\ queue' = queue
    BY <1>1 DEF PreFlush
  <2>1. CASE /\ Current(f) /\ f \in lag'
             /\ object' = [object EXCEPT ![f].status = r]
             /\ work' = [work EXCEPT ![f] =
                           [@ EXCEPT !.pc = "deploy", !.status = r, !.sent = r]]
    <3>1. /\ work'[f].pc = "deploy" /\ work'[f].status = r
          /\ work'[f].sent = r
          /\ work'[f].gen = work[f].gen /\ work'[f].auto = work[f].auto
      BY <1>0, <2>1 DEF Work
    <3>2. /\ object'[f].status = r
          /\ object'[f].live = object[f].live /\ object'[f].gen = object[f].gen
          /\ object'[f].auto = object[f].auto /\ object'[f].ann = object[f].ann
          /\ object'[f].stamped = object[f].stamped
      BY <1>0, <2>1 DEF Object
    <3>3. object[f].live
      BY <2>1 DEF Current, FunctionInv, NoLagIsEqual
    <3> QED BY <2>0, <2>1, <3>1, <3>2, <3>3, <1>0, <1>r
            DEF FunctionInv, NoLagIsEqual, VersionsInOrder, DeletedIsBare,
                ObservationsInOrder, SentIsStored, GenerationCovered,
                AnnotationCovered, SpecOfGeneration, Busy, Told
  <2>2. CASE Goto(f, "deploy", r) /\ object' = object /\ lag' = lag
    <3>1. /\ work'[f].pc = "deploy" /\ work'[f].status = r
          /\ work'[f].sent = work[f].sent
          /\ work'[f].gen = work[f].gen /\ work'[f].auto = work[f].auto
      BY <1>0, <2>2 DEF Work, Goto
    <3> QED BY <2>0, <2>2, <3>1, <1>0, <1>r
            DEF FunctionInv, NoLagIsEqual, VersionsInOrder, DeletedIsBare,
                ObservationsInOrder, SentIsStored, GenerationCovered,
                AnnotationCovered, SpecOfGeneration, Busy, Told
  <2> QED BY <1>1, <2>1, <2>2 DEF PreFlush, r
<1>2. CASE RemoveAnnotations(f)
  <2>0. /\ work[f].pc = "annotations"
        /\ cache' = cache /\ events' = events /\ queue' = queue
    BY <1>2 DEF RemoveAnnotations
  <2>1. CASE /\ cache[f].ann = 0 /\ Goto(f, "flush", s)
             /\ object' = object /\ lag' = lag
    <3>1. /\ work'[f].pc = "flush" /\ work'[f].status = s
          /\ work'[f].sent = work[f].sent
          /\ work'[f].gen = work[f].gen /\ work'[f].auto = work[f].auto
      BY <1>0, <2>1 DEF Work, Goto
    <3> QED BY <2>0, <2>1, <3>1, <1>0
            DEF FunctionInv, NoLagIsEqual, VersionsInOrder, DeletedIsBare,
                ObservationsInOrder, SentIsStored, GenerationCovered,
                AnnotationCovered, SpecOfGeneration, Busy, Told
  <2>2. CASE /\ object' = [object EXCEPT ![f].ann = 0] /\ f \in lag'
             /\ Goto(f, "flush", s)
    <3>1. /\ work'[f].pc = "flush" /\ work'[f].status = s
          /\ work'[f].sent = work[f].sent
          /\ work'[f].gen = work[f].gen /\ work'[f].auto = work[f].auto
      BY <1>0, <2>2 DEF Work, Goto
    <3>2. /\ object'[f].ann = 0
          /\ object'[f].live = object[f].live /\ object'[f].gen = object[f].gen
          /\ object'[f].auto = object[f].auto
          /\ object'[f].status = object[f].status
          /\ object'[f].stamped = object[f].stamped
      BY <1>0, <2>2 DEF Object
    <3> QED BY <2>0, <2>2, <3>1, <3>2, <1>0
            DEF FunctionInv, NoLagIsEqual, VersionsInOrder, DeletedIsBare,
                ObservationsInOrder, SentIsStored, GenerationCovered,
                AnnotationCovered, SpecOfGeneration, Busy, Told
  <2>3. CASE Abort(f, s) /\ object' = object /\ lag' = lag
    <3>1. /\ work'[f].pc = "flush" /\ work'[f].status = s /\ work'[f].failed
          /\ work'[f].sent = work[f].sent
          /\ work'[f].gen = work[f].gen /\ work'[f].auto = work[f].auto
      BY <1>0, <2>3 DEF Work, Abort
    <3> QED BY <2>0, <2>3, <3>1, <1>0
            DEF FunctionInv, NoLagIsEqual, VersionsInOrder, DeletedIsBare,
                ObservationsInOrder, SentIsStored, GenerationCovered,
                AnnotationCovered, SpecOfGeneration, Busy, Told
  <2> QED BY <1>2, <2>1, <2>2, <2>3 DEF RemoveAnnotations
<1>3. CASE FinalFlush(f)
  <2>0. /\ work[f].pc = "flush"
        /\ cache' = cache /\ events' = events
    BY <1>3 DEF FinalFlush
  <2>w. \A err \in BOOLEAN : Return(f, err) =>
          /\ work'[f].pc = "idle"
          /\ f \in queue => f \in queue'
          /\ err => f \in queue'
    BY <1>0 DEF Return, NoWork
  <2>b. work[f].failed \in BOOLEAN
    BY <1>0 DEF Work
  <2>1. CASE /\ r = work[f].sent /\ Return(f, work[f].failed)
             /\ object' = object /\ lag' = lag
    BY <2>0, <2>1, <2>w, <2>b, <1>0, <1>r
       DEF FunctionInv, NoLagIsEqual, VersionsInOrder, DeletedIsBare,
           ObservationsInOrder, SentIsStored, GenerationCovered,
           AnnotationCovered, SpecOfGeneration, Busy, Told
  <2>2. CASE /\ Current(f) /\ object' = [object EXCEPT ![f].status = r]
             /\ f \in lag'
             /\ Return(f, work[f].failed)
    <3>2. /\ object'[f].status = r
          /\ object'[f].live = object[f].live /\ object'[f].gen = object[f].gen
          /\ object'[f].auto = object[f].auto /\ object'[f].ann = object[f].ann
          /\ object'[f].stamped = object[f].stamped
      BY <1>0, <2>2 DEF Object
    <3>3. object[f].live
      BY <2>2 DEF Current, FunctionInv, NoLagIsEqual
    <3> QED BY <2>0, <2>2, <2>w, <2>b, <3>2, <3>3, <1>0, <1>r
            DEF FunctionInv, NoLagIsEqual, VersionsInOrder, DeletedIsBare,
                ObservationsInOrder, SentIsStored, GenerationCovered,
                AnnotationCovered, SpecOfGeneration, Busy, Told
  <2>3. CASE Return(f, TRUE) /\ object' = object /\ lag' = lag
    BY <2>0, <2>3, <2>w, <1>0
       DEF FunctionInv, NoLagIsEqual, VersionsInOrder, DeletedIsBare,
           ObservationsInOrder, SentIsStored, GenerationCovered,
           AnnotationCovered, SpecOfGeneration, Busy, Told
  <2> QED BY <1>3, <2>1, <2>2, <2>3 DEF FinalFlush, r
<1> QED BY <1>1, <1>2, <1>3

\* Users keep the invariant: a new spec version, and a new stamp, is one that
\* neither the informer nor a Reconcile has seen.
LEMMA UserStepKeepsInv ==
    ASSUME TypeOK, NEW f \in Functions, FunctionInv(f), UserStep(f)
    PROVE  FunctionInv(f)'
<1>0. /\ object[f] \in Object /\ object \in [Functions -> Object]
      /\ {object[f].gen, cache[f].gen, work[f].gen} \subseteq Nat
      /\ {object[f].ann, cache[f].ann, object[f].stamped} \subseteq Nat
      /\ {object[f].status.observed, work[f].status.observed} \subseteq Nat
  BY Components DEF TypeOK
<1>1. CASE CreateFunction(f)
  <2>1. PICK auto \in AutoUpdate :
          object' = [object EXCEPT ![f] =
                      [@ EXCEPT !.live = TRUE, !.gen = object[f].gen + 1,
                                !.auto = auto]]
    BY <1>1 DEF CreateFunction
  <2>2. /\ object'[f].live /\ object'[f].gen = object[f].gen + 1
        /\ object'[f].ann = object[f].ann
        /\ object'[f].stamped = object[f].stamped
        /\ object'[f].status = object[f].status
    BY <1>0, <2>1 DEF Object
  <2>3. ~object[f].live
    BY <1>1 DEF CreateFunction
  <2>4. object[f].ann = 0 /\ object[f].status.observed = 0
    BY <2>3 DEF FunctionInv, DeletedIsBare
  <2>5. f \in lag' /\ UNCHANGED <<cache, events, queue, work>>
    BY <1>1 DEF CreateFunction, UserFrame
  <2> QED BY <1>0, <2>2, <2>3, <2>4, <2>5
          DEF FunctionInv, NoLagIsEqual, VersionsInOrder, DeletedIsBare,
              ObservationsInOrder, SentIsStored, GenerationCovered,
              AnnotationCovered, SpecOfGeneration, Busy, Told
<1>2. CASE UpdateSpec(f)
  <2>1. PICK auto \in AutoUpdate :
          object' = [object EXCEPT ![f] =
                      [@ EXCEPT !.gen = object[f].gen + 1, !.auto = auto]]
    BY <1>2 DEF UpdateSpec
  <2>2. /\ object'[f].live = object[f].live
        /\ object'[f].gen = object[f].gen + 1
        /\ object'[f].ann = object[f].ann
        /\ object'[f].stamped = object[f].stamped
        /\ object'[f].status = object[f].status
    BY <1>0, <2>1 DEF Object
  <2>3. f \in lag' /\ UNCHANGED <<cache, events, queue, work>>
    BY <1>2 DEF UpdateSpec, UserFrame
  <2> QED BY <1>0, <2>2, <2>3
          DEF FunctionInv, NoLagIsEqual, VersionsInOrder, DeletedIsBare,
              ObservationsInOrder, SentIsStored, GenerationCovered,
              AnnotationCovered, SpecOfGeneration, Busy, Told
<1>3. CASE DeleteFunction(f)
  <2>1. /\ ~object'[f].live /\ object'[f].gen = object[f].gen
        /\ object'[f].ann = 0 /\ object'[f].stamped = object[f].stamped
        /\ object'[f].status = NoStatus
    BY <1>0, <1>3 DEF DeleteFunction, NoObject
  <2>2. f \in lag' /\ UNCHANGED <<cache, events, queue, work>>
    BY <1>3 DEF DeleteFunction, UserFrame
  <2> QED BY <1>0, <2>1, <2>2
          DEF FunctionInv, NoLagIsEqual, VersionsInOrder, DeletedIsBare,
              ObservationsInOrder, SentIsStored, GenerationCovered,
              AnnotationCovered, SpecOfGeneration, Busy, Told, NoStatus
<1>4. CASE Annotate(f)
  <2>1. /\ object'[f].live = object[f].live /\ object'[f].gen = object[f].gen
        /\ object'[f].auto = object[f].auto
        /\ object'[f].ann = object[f].stamped + 1
        /\ object'[f].stamped = object[f].stamped + 1
        /\ object'[f].status = object[f].status
    BY <1>0, <1>4 DEF Annotate, Object
  <2>2. object[f].live /\ f \in lag' /\ UNCHANGED <<cache, events, queue, work>>
    BY <1>4 DEF Annotate, UserFrame
  <2> QED BY <1>0, <2>1, <2>2
          DEF FunctionInv, NoLagIsEqual, VersionsInOrder, DeletedIsBare,
              ObservationsInOrder, SentIsStored, GenerationCovered,
              AnnotationCovered, SpecOfGeneration, Busy, Told
<1>5. CASE ChangeService(f)
  BY <1>5, Frame DEF ChangeService, Told
<1> QED BY <1>1, <1>2, <1>3, <1>4, <1>5 DEF UserStep

\* So do the informer, the event handlers and the start of a Reconcile.
LEMMA RuntimeKeepsInv ==
    ASSUME TypeOK, NEW f \in Functions, FunctionInv(f),
           Deliver(f) \/ Dispatch(f) \/ Start(f)
    PROVE  FunctionInv(f)'
<1>0. /\ cache[f] \in Object /\ work \in [Functions -> Work]
      /\ cache \in [Functions -> Object]
      /\ {object[f].gen, cache[f].gen, work[f].gen} \subseteq Nat
      /\ {object[f].ann, cache[f].ann, object[f].stamped} \subseteq Nat
      /\ {object[f].status.observed, work[f].status.observed} \subseteq Nat
      /\ cache[f].status \in Status
  BY Components DEF TypeOK
<1>1. CASE Deliver(f)
  <2>1. /\ cache'[f] = object[f]
        /\ f \in events => f \in events'
        /\ PassesPredicate(cache[f], object[f]) => f \in events'
        /\ UNCHANGED <<object, queue, work>>
    BY <1>0, <1>1 DEF Deliver
  <2> QED BY <1>0, <2>1
          DEF FunctionInv, NoLagIsEqual, VersionsInOrder, DeletedIsBare,
              ObservationsInOrder, SentIsStored, GenerationCovered,
              AnnotationCovered, SpecOfGeneration, Busy, Told,
              PassesPredicate
<1>2. CASE Dispatch(f)
  BY <1>2, Frame DEF Dispatch, Told
<1>3. CASE Start(f)
  <2>0. work[f].pc = "idle" /\ UNCHANGED <<object, cache, lag, events>>
    BY <1>3 DEF Start
  <2>1. CASE cache[f].live
    <3> DEFINE s == InitializeConditions(cache[f].status, cache[f].gen)
    <3>1. s.observed = cache[f].gen
      BY <1>0 DEF InitializeConditions, Status
    <3> HIDE DEF s
    <3>2. work'[f] = [NoWork EXCEPT !.pc = "source", !.gen = cache[f].gen,
                                    !.auto = cache[f].auto,
                                    !.ann = cache[f].ann, !.status = s]
      BY <1>0, <1>3, <2>1 DEF Start, s
    <3>3. /\ work'[f].pc = "source" /\ work'[f].gen = cache[f].gen
          /\ work'[f].auto = cache[f].auto /\ work'[f].status = s
          /\ work'[f].sent = NoStatus
      BY <3>2 DEF NoWork
    <3> QED BY <1>0, <2>0, <2>1, <3>1, <3>3
            DEF FunctionInv, NoLagIsEqual, VersionsInOrder, DeletedIsBare,
                ObservationsInOrder, SentIsStored, GenerationCovered,
                AnnotationCovered, SpecOfGeneration, Busy, Told
  <2>2. CASE ~cache[f].live
    <3>1. work' = work
      BY <1>3, <2>2 DEF Start
    <3> QED BY <1>0, <2>0, <2>2, <3>1
            DEF FunctionInv, NoLagIsEqual, VersionsInOrder, DeletedIsBare,
                ObservationsInOrder, SentIsStored, GenerationCovered,
                AnnotationCovered, SpecOfGeneration, Busy, Told
  <2> QED BY <2>1, <2>2
<1> QED BY <1>1, <1>2, <1>3

\* A restart: every Function that exists gets an event.
LEMMA RestartKeepsInv ==
    ASSUME TypeOK, NEW f \in Functions, FunctionInv(f), Restart
    PROVE  FunctionInv(f)'
<1>0. /\ {object[f].gen, cache[f].gen} \subseteq Nat
      /\ {object[f].ann, object[f].stamped} \subseteq Nat
      /\ {object[f].status.observed} \subseteq Nat
  BY Components
<1>1. /\ cache' = object /\ object' = object /\ work'[f].pc = "idle"
      /\ object[f].live => f \in events'
  BY DEF Restart, NoWork
<1> QED BY <1>0, <1>1
        DEF FunctionInv, NoLagIsEqual, VersionsInOrder, DeletedIsBare,
            ObservationsInOrder, SentIsStored, GenerationCovered,
            AnnotationCovered, SpecOfGeneration, Busy, Told

\* The steps of one Function leave the others alone.
LEMMA OthersLeftAlone ==
    ASSUME TypeOK, NEW f \in Functions, NEW g \in Functions, g # f,
           \/ UserStep(f) \/ FinishBuild(f) \/ Deliver(f) \/ Dispatch(f)
           \/ Start(f) \/ ReconcileStep(f)
    PROVE  /\ object'[g] = object[g] /\ cache'[g] = cache[g]
           /\ work'[g] = work[g]
           /\ Told(g) => Told(g)'
           /\ g \in lag => g \in lag'
<1>0. /\ object \in [Functions -> Object] /\ cache \in [Functions -> Object]
      /\ work \in [Functions -> Work]
  BY DEF TypeOK
<1>1. object'[g] = object[g]
  <2>1. CASE UserStep(f)
    BY <1>0, <2>1 DEF UserStep, CreateFunction, UpdateSpec, DeleteFunction,
                      Annotate, ChangeService
  <2>2. CASE ReconcileStep(f)
    BY <1>0, <2>2
       DEF ReconcileStep, PrepareSource, Describe, ResolveSetting, CheckLatest,
           PreFlush, StartDeploy, AwaitDeploy, Redescribe, RemoveAnnotations,
           FinalFlush, LocalFrame
  <2>3. CASE FinishBuild(f) \/ Deliver(f) \/ Dispatch(f) \/ Start(f)
    BY <2>3 DEF FinishBuild, Deliver, Dispatch, Start
  <2> QED BY <2>1, <2>2, <2>3
<1>2. cache'[g] = cache[g]
  <2>1. CASE UserStep(f)
    BY <2>1 DEF UserStep, CreateFunction, UpdateSpec, DeleteFunction,
                Annotate, ChangeService, UserFrame
  <2>2. CASE ReconcileStep(f)
    BY <2>2
       DEF ReconcileStep, PrepareSource, Describe, ResolveSetting, CheckLatest,
           PreFlush, StartDeploy, AwaitDeploy, Redescribe, RemoveAnnotations,
           FinalFlush, LocalFrame
  <2>3. CASE FinishBuild(f) \/ Deliver(f) \/ Dispatch(f) \/ Start(f)
    BY <1>0, <2>3 DEF FinishBuild, Deliver, Dispatch, Start
  <2> QED BY <2>1, <2>2, <2>3
<1>3. work'[g] = work[g]
  <2>1. CASE UserStep(f)
    BY <2>1 DEF UserStep, CreateFunction, UpdateSpec, DeleteFunction,
                Annotate, ChangeService, UserFrame
  <2>2. CASE ReconcileStep(f)
    BY <1>0, <2>2
       DEF ReconcileStep, PrepareSource, Describe, ResolveSetting, CheckLatest,
           PreFlush, StartDeploy, AwaitDeploy, Redescribe, RemoveAnnotations,
           FinalFlush, Goto, Abort, Return
  <2>3. CASE FinishBuild(f) \/ Deliver(f) \/ Dispatch(f) \/ Start(f)
    BY <1>0, <2>3 DEF FinishBuild, Deliver, Dispatch, Start
  <2> QED BY <2>1, <2>2, <2>3
<1>4. Told(g) => Told(g)'
  <2>1. CASE UserStep(f)
    BY <2>1 DEF UserStep, CreateFunction, UpdateSpec, DeleteFunction,
                Annotate, ChangeService, UserFrame, Told
  <2>2. CASE ReconcileStep(f)
    BY <2>2
       DEF ReconcileStep, PrepareSource, Describe, ResolveSetting, CheckLatest,
           PreFlush, StartDeploy, AwaitDeploy, Redescribe, RemoveAnnotations,
           FinalFlush, LocalFrame, Return, Told
  <2>3. CASE FinishBuild(f) \/ Deliver(f) \/ Dispatch(f) \/ Start(f)
    BY <2>3 DEF FinishBuild, Deliver, Dispatch, Start, Told
  <2> QED BY <2>1, <2>2, <2>3
<1>5. g \in lag => g \in lag'
  <2>1. CASE UserStep(f)
    BY <2>1 DEF UserStep, CreateFunction, UpdateSpec, DeleteFunction,
                Annotate, ChangeService, UserFrame
  <2>2. CASE ReconcileStep(f)
    BY <2>2
       DEF ReconcileStep, PrepareSource, Describe, ResolveSetting, CheckLatest,
           PreFlush, StartDeploy, AwaitDeploy, Redescribe, RemoveAnnotations,
           FinalFlush, LocalFrame
  <2>3. CASE FinishBuild(f) \/ Deliver(f) \/ Dispatch(f) \/ Start(f)
    BY <2>3 DEF FinishBuild, Deliver, Dispatch, Start
  <2> QED BY <2>1, <2>2, <2>3
<1> QED BY <1>1, <1>2, <1>3, <1>4, <1>5

\* So they keep the invariant of the others.
LEMMA OthersKeepInv ==
    ASSUME TypeOK, NEW f \in Functions, NEW g \in Functions, g # f,
           FunctionInv(g),
           \/ UserStep(f) \/ FinishBuild(f) \/ Deliver(f) \/ Dispatch(f)
           \/ Start(f) \/ ReconcileStep(f)
    PROVE  FunctionInv(g)'
  BY OthersLeftAlone, Frame

\* The invariant is inductive.
LEMMA InvInductive ==
    /\ Init => Inv
    /\ Inv /\ [Next]_vars => Inv'
<1>1. Init => Inv
  <2> SUFFICES ASSUME Init, NEW f \in Functions PROVE TypeOK /\ FunctionInv(f)
    BY InitTypes DEF Inv
  <2>1. /\ object[f] = NoObject /\ cache[f] = NoObject /\ work[f] = NoWork
        /\ f \notin events /\ f \notin queue
    BY DEF Init
  <2> QED BY <2>1, InitTypes
          DEF FunctionInv, NoLagIsEqual, VersionsInOrder, DeletedIsBare,
              ObservationsInOrder, SentIsStored, GenerationCovered,
              AnnotationCovered, SpecOfGeneration, Busy, Told, NoObject, NoWork, NoStatus
<1>2. Inv /\ [Next]_vars => Inv'
  <2> SUFFICES ASSUME Inv, [Next]_vars PROVE Inv'
    OBVIOUS
  <2>0. TypeOK /\ TypeOK'
    BY NextTypes DEF Inv
  <2> SUFFICES ASSUME NEW g \in Functions PROVE FunctionInv(g)'
    BY <2>0 DEF Inv
  <2>g. FunctionInv(g)
    BY DEF Inv
  <2>1. CASE \/ UNCHANGED vars \/ UpdateCli \/ ChangeConfig
             \/ DeliverConfig \/ DispatchConfig
    <3>1. /\ UNCHANGED <<object, cache, lag, work, events>>
          /\ queue \subseteq queue'
      BY <2>1 DEF vars, UpdateCli, ChangeConfig, DeliverConfig, DispatchConfig
    <3> QED BY <3>1, <2>g, Frame DEF Told
  <2>2. CASE Restart
    BY <2>0, <2>2, <2>g, RestartKeepsInv
  <2>3. ASSUME NEW f \in Functions,
               \/ UserStep(f) \/ FinishBuild(f) \/ Deliver(f) \/ Dispatch(f)
               \/ Start(f) \/ ReconcileStep(f)
        PROVE  FunctionInv(g)'
    <3>1. CASE f # g
      BY <2>0, <2>3, <2>g, <3>1, OthersKeepInv
    <3>2. CASE f = g
      <4>1. CASE FinishBuild(g)
        BY <2>g, <4>1, Frame DEF FinishBuild, Told
      <4>2. CASE \/ PrepareSource(g) \/ Describe(g) \/ ResolveSetting(g)
                 \/ CheckLatest(g) \/ StartDeploy(g) \/ AwaitDeploy(g)
                 \/ Redescribe(g)
        BY <2>0, <2>g, <4>2, LocalSteps, LocalEffectKeepsInv
      <4>3. CASE PreFlush(g) \/ RemoveAnnotations(g) \/ FinalFlush(g)
        BY <2>0, <2>g, <4>3, WritingSteps
      <4>4. CASE UserStep(g)
        BY <2>0, <2>g, <4>4, UserStepKeepsInv
      <4>5. CASE Deliver(g) \/ Dispatch(g) \/ Start(g)
        BY <2>0, <2>g, <4>5, RuntimeKeepsInv
      <4> QED BY <2>3, <3>2, <4>1, <4>2, <4>3, <4>4, <4>5 DEF ReconcileStep
    <3> QED BY <3>1, <3>2
  <2> QED BY <2>1, <2>2, <2>3 DEF Next
<1> QED BY <1>1, <1>2

-----------------------------------------------------------------------------
(* The properties.                                                          *)

\* The inductive invariant holds in every reachable state.
THEOREM InvHolds == Spec => []Inv
  BY InvInductive, PTL DEF Spec

\* No change of a spec and no annotation is lost: at rest the status is about
\* the present spec and no annotation is left.
THEOREM SpecIsObserved == Spec => []SpecObserved
<1>1. Inv => SpecObserved
  <2> SUFFICES ASSUME Inv, NEW f \in Functions, Quiescent(f), object[f].live
               PROVE  /\ object[f].status.observed = object[f].gen
                      /\ object[f].ann = 0
    BY DEF SpecObserved
  <2>1. FunctionInv(f)
    BY DEF Inv
  <2> QED BY <2>1 DEF FunctionInv, NoLagIsEqual, GenerationCovered,
                      AnnotationCovered, Quiescent, Busy, Told
<1> QED BY <1>1, InvHolds, PTL

\* A Function whose status is about a spec that opts out is not being rebuilt.
THEOREM OptOutIsRespected == Spec => []OptOutRespected
<1>1. Inv => OptOutRespected
  <2> SUFFICES ASSUME Inv, NEW f \in Functions,
                      object[f].live, object[f].auto = "off",
                      object[f].status.observed = object[f].gen,
                      work[f].pc \in {"preflush", "deploy", "wait"}
               PROVE  FALSE
    BY DEF OptOutRespected
  <2>1. FunctionInv(f)
    BY DEF Inv
  <2>2. {object[f].gen, cache[f].gen, work[f].gen} \subseteq Nat
    BY Components DEF Inv
  <2>3. Busy(f)
    BY DEF Busy
  <2>4. work[f].gen = object[f].gen
    BY <2>1, <2>2, <2>3
       DEF FunctionInv, VersionsInOrder, ObservationsInOrder
  <2> QED BY <2>1, <2>3, <2>4 DEF FunctionInv, SpecOfGeneration
<1> QED BY <1>1, InvHolds, PTL

\* No write of a status is about an older spec than the write before.
THEOREM ObservedIsMonotonic == Spec => ObservedNeverRegresses
<1> DEFINE Kept == \A f \in Functions :
               object[f].live /\ object'[f].live =>
                 object[f].status.observed <= object'[f].status.observed
<1>1. Inv /\ [Next]_vars => Kept
  <2> SUFFICES ASSUME Inv, [Next]_vars, NEW f \in Functions,
                      object[f].live, object'[f].live
               PROVE  object[f].status.observed <= object'[f].status.observed
    OBVIOUS
  <2>0. /\ TypeOK /\ FunctionInv(f) /\ object \in [Functions -> Object]
        /\ object[f] \in Object /\ object[f].status.observed \in Nat
        /\ work[f].status \in Status /\ work[f].gen \in Nat
    BY Components DEF Inv, TypeOK
  <2>1. CASE object'[f].status = object[f].status
    BY <2>0, <2>1
  <2>2. CASE /\ PreFlush(f) \/ FinalFlush(f)
             /\ object' = [object EXCEPT ![f].status =
                             CalculateReadyCondition(work[f].status)]
    <3>1. object'[f].status = CalculateReadyCondition(work[f].status)
      BY <2>0, <2>2 DEF Object
    <3>2. object'[f].status.observed = work[f].status.observed
      BY <2>0, <3>1, ObservedKept
    <3>3. Busy(f)
      BY <2>2 DEF PreFlush, FinalFlush, Busy
    <3> QED BY <2>0, <3>2, <3>3
            DEF FunctionInv, VersionsInOrder, ObservationsInOrder
  <2>3. \/ object'[f].status = object[f].status
        \/ /\ PreFlush(f) \/ FinalFlush(f)
           /\ object' = [object EXCEPT ![f].status =
                           CalculateReadyCondition(work[f].status)]
    <3>1. CASE \/ UNCHANGED vars \/ UpdateCli \/ ChangeConfig
               \/ DeliverConfig \/ DispatchConfig \/ Restart
      BY <3>1 DEF vars, UpdateCli, ChangeConfig, DeliverConfig, DispatchConfig,
                  Restart
    <3>2. ASSUME NEW g \in Functions, UserStep(g)
          PROVE  object'[f].status = object[f].status
      <4>1. CASE CreateFunction(g)
        BY <2>0, <4>1 DEF CreateFunction, Object
      <4>2. CASE UpdateSpec(g)
        BY <2>0, <4>2 DEF UpdateSpec, Object
      <4>3. CASE DeleteFunction(g)
        BY <2>0, <4>3 DEF DeleteFunction, Object, NoObject
      <4>4. CASE Annotate(g)
        BY <2>0, <4>4 DEF Annotate, Object
      <4>5. CASE ChangeService(g)
        BY <4>5 DEF ChangeService
      <4> QED BY <3>2, <4>1, <4>2, <4>3, <4>4, <4>5 DEF UserStep
    <3>3. ASSUME NEW g \in Functions,
                 \/ FinishBuild(g) \/ Deliver(g) \/ Dispatch(g) \/ Start(g)
                 \/ PrepareSource(g) \/ Describe(g) \/ ResolveSetting(g)
                 \/ CheckLatest(g) \/ StartDeploy(g) \/ AwaitDeploy(g)
                 \/ Redescribe(g)
          PROVE  object'[f].status = object[f].status
      BY <3>3
         DEF FinishBuild, Deliver, Dispatch, Start, PrepareSource, Describe,
             ResolveSetting, CheckLatest, StartDeploy, AwaitDeploy, Redescribe,
             LocalFrame
    <3>4. ASSUME NEW g \in Functions, RemoveAnnotations(g)
          PROVE  object'[f].status = object[f].status
      BY <2>0, <3>4 DEF RemoveAnnotations, Object
    <3>5. ASSUME NEW g \in Functions, PreFlush(g) \/ FinalFlush(g), g # f
          PROVE  object'[f].status = object[f].status
      BY <2>0, <3>5 DEF PreFlush, FinalFlush
    <3>6. ASSUME PreFlush(f) \/ FinalFlush(f)
          PROVE  \/ object'[f].status = object[f].status
                 \/ object' = [object EXCEPT ![f].status =
                                 CalculateReadyCondition(work[f].status)]
      BY <3>6 DEF PreFlush, FinalFlush
    <3> QED BY <3>1, <3>2, <3>3, <3>4, <3>5, <3>6 DEF Next, ReconcileStep
  <2> QED BY <2>1, <2>2, <2>3
<1>2. Inv /\ [Next]_vars => [Kept]_vars
  BY <1>1
<1> QED BY <1>2, InvHolds, PTL DEF Spec, ObservedNeverRegresses
=============================================================================
