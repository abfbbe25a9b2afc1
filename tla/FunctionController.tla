------------------------- MODULE FunctionController -------------------------
(***************************************************************************)
(* The FunctionReconciler of internal/controller/function_controller.go    *)
(* with its StatusTracker (status_tracker.go), its event predicates        *)
(* (function_predicate.go) and the condition helpers of                    *)
(* api/v1alpha1/function_lifecycle.go, together with the parts of          *)
(* controller-runtime and of the cluster it runs against.                  *)
(*                                                                         *)
(* One Reconcile is cut into the steps between which another actor can     *)
(* move: every read of the informer cache, every run of the func CLI and   *)
(* every write to the API server is a step of its own (work[f].pc).        *)
(*                                                                         *)
(* Abstractions.                                                           *)
(*  - gen stands for the pair of metadata.uid and metadata.generation, so  *)
(*    a Function that is deleted and created again gets a fresh one.       *)
(*  - ann is the value of the functions.knative.dev/last-deployed          *)
(*    annotation, 0 when there is no functions.knative.dev/ annotation;    *)
(*    stamped is the last value it was given (these are times and grow).   *)
(*  - The informer may skip intermediate versions of an object.            *)
(*  - A retry on conflict (retry.DefaultRetry, about 50 ms) succeeds when  *)
(*    the cache holds the version on the API server, and otherwise fails.  *)
(*  - The history is the set of the events it lists.                       *)
(*  - Every write of a status changes the object, because conditions and   *)
(*    lastChecked carry the time. The times are left out; lag records that *)
(*    there was a write.                                                   *)
(***************************************************************************)
EXTENDS Naturals, FiniteSets

CONSTANTS
    Functions,      \* names of the Functions in the watched namespaces
    MaxGeneration,  \* spec versions of one Function, over all incarnations
    MaxStamp,       \* last-deployed annotations put on one Function
    MaxVersion,     \* middleware versions the func CLI can carry
    ConfigValues,   \* values the autoUpdateMiddleware key can be given
    Limit           \* how often each disturbance may happen

Disturbances == {"config", "service", "release", "fault", "crash"}

AllConfigValues == {"true", "false", "nokey", "bad", "absent"}

ASSUME BoundsAssumption ==
    /\ MaxGeneration \in Nat \ {0}
    /\ MaxStamp \in Nat
    /\ MaxVersion \in Nat \ {0}
    /\ Limit \in [Disturbances -> Nat]

ASSUME ConfigAssumption ==
    /\ ConfigValues \subseteq AllConfigValues
    /\ "true" \in ConfigValues

VARIABLES
    object,     \* object[f]: the Function on the API server
    cache,      \* cache[f]: the Function in the informer's store
    lag,        \* Functions written since the informer got its last version
    events,     \* Functions with an event on its way to the work queue
    queue,      \* Functions in the work queue, those awaiting a retry included
    work,       \* work[f]: the Reconcile of f that runs, NoWork when none does
    config,     \* autoUpdateMiddleware in the controller-config ConfigMap
    configCache, \* the same in the informer's store
    configEvent, \* a ConfigMap event is on its way to findFunctionsForConfigMap
    service,    \* service[f]: what func describe reports
    builds,     \* builds[f]: versions that pipeline runs of f are building
    cli,        \* middleware version of the installed func CLI
    spent       \* spent[k]: how often disturbance k has happened

vars == <<object, cache, lag, events, queue, work, config, configCache,
          configEvent, service, builds, cli, spent>>

configVars  == <<config, configCache, configEvent>>
clusterVars == <<service, builds, cli>>

-----------------------------------------------------------------------------
(* The data.                                                               *)

Generations == 0 .. MaxGeneration
Stamps      == 0 .. MaxStamp
Versions    == 1 .. MaxVersion
Condition   == {"True", "False", "Unknown"}
AutoUpdate  == {"unset", "on", "off"}

\* An entry of status.history: a deployment stamped by the user's func CLI, or
\* a rebuild by the operator to a middleware version.
HistoryEvents == {"deployed", "rebuilt"} \X (0 .. (MaxStamp + MaxVersion))

\* The status subresource. skip: MiddlewareUpToDate carries the reason
\* SkipMiddlewareUpdate. observed: the observedGeneration of the conditions.
\* current, available, revision: middleware versions, 0 for none; revision is
\* the version of the service revision that deployment.revision names.
Status ==
    [ source : Condition, deployed : Condition, middleware : Condition,
      serviceReady : Condition, ready : Condition,
      skip : BOOLEAN, pending : BOOLEAN, auto : BOOLEAN,
      observed : Generations,
      current : 0 .. MaxVersion, available : 0 .. MaxVersion,
      revision : 0 .. MaxVersion,
      history : SUBSET HistoryEvents ]

NoStatus ==
    [ source |-> "Unknown", deployed |-> "Unknown", middleware |-> "Unknown",
      serviceReady |-> "Unknown", ready |-> "Unknown",
      skip |-> FALSE, pending |-> FALSE, auto |-> FALSE,
      observed |-> 0, current |-> 0, available |-> 0, revision |-> 0,
      history |-> {} ]

Object ==
    [ live : BOOLEAN, gen : Generations, auto : AutoUpdate, ann : Stamps,
      stamped : Stamps, status : Status ]

Steps == {"idle", "source", "describe", "setting", "latest", "preflush",
          "deploy", "wait", "redescribe", "annotations", "flush"}

Service == [ up : BOOLEAN, version : Versions, ready : BOOLEAN ]

NoService == [ up |-> FALSE, version |-> 1, ready |-> FALSE ]

\* The state of one Reconcile: the working copy of the Function (gen, auto,
\* ann, status), the status its tracker wrote last (sent, NoStatus before the
\* first write), what func describe answered (desc), the resolved setting
\* (enabled), the version its func deploy builds (job) and whether it returns
\* an error (failed).
Work ==
    [ pc : Steps, gen : Generations, auto : AutoUpdate, ann : Stamps,
      status : Status, sent : Status, desc : Service, enabled : BOOLEAN,
      job : 0 .. MaxVersion, failed : BOOLEAN ]

NoWork ==
    [ pc |-> "idle", gen |-> 0, auto |-> "unset", ann |-> 0,
      status |-> NoStatus, sent |-> NoStatus, desc |-> NoService,
      enabled |-> FALSE, job |-> 0, failed |-> FALSE ]

Spend(k) ==
    /\ spent[k] < Limit[k]
    /\ spent' = [spent EXCEPT ![k] = @ + 1]

\* A call fails because of cond, or for a reason outside the model.
FailsIf(cond) ==
    \/ cond /\ UNCHANGED spent
    \/ Spend("fault")

-----------------------------------------------------------------------------
(* api/v1alpha1/function_lifecycle.go: the conditions of a status.          *)

InitializeConditions(s, gen) ==
    [s EXCEPT !.source = "Unknown", !.deployed = "Unknown",
              !.middleware = "Unknown", !.serviceReady = "Unknown",
              !.ready = "Unknown", !.skip = FALSE, !.observed = gen]

\* Mutant: MarkNotReady sets no ObservedGeneration.
CalculateReadyUnobserved(s) ==
    IF {s.source, s.deployed, s.middleware, s.serviceReady} = {"True"}
    THEN [s EXCEPT !.ready = "True"]
    ELSE [s EXCEPT !.ready = "False", !.observed = 0]

CalculateReadyCondition(s) ==
    [s EXCEPT !.ready =
        IF {s.source, s.deployed, s.middleware, s.serviceReady} = {"True"}
        THEN "True" ELSE "False"]

\* Mutant: the answer of func describe becomes the condition's status as it is.
MarkServiceStatusRaw(s, ready) ==
    [s EXCEPT !.serviceReady = IF ready THEN "true" ELSE "false"]

MarkServiceStatus(s, ready) ==
    [s EXCEPT !.serviceReady = IF ready THEN "True" ELSE "False"]

RecordHistoryEvent(s, kind, id) ==
    [s EXCEPT !.history = @ \cup {<<kind, id>>}]

\* applyLastDeployedAnnotation: the annotation as it was when f was read.
ApplyLastDeployed(s, ann) ==
    IF ann = 0 THEN s ELSE RecordHistoryEvent(s, "deployed", ann)

\* Mutant: the operator-wide default overrides the Function's own setting.
SettingOfOperator(auto, cm) ==
    CASE cm \in {"true", "nokey"} -> "on"
      [] cm = "false"             -> "off"
      [] OTHER                    -> "error"

\* isMiddlewareUpdateEnabled: the Function's own setting wins; otherwise the
\* ConfigMap decides, with true for a missing key.
Setting(auto, cm) ==
    CASE auto = "on"                                -> "on"
      [] auto = "off"                               -> "off"
      [] auto = "unset" /\ cm \in {"true", "nokey"} -> "on"
      [] auto = "unset" /\ cm = "false"             -> "off"
      [] OTHER                                      -> "error"

\* Mutant: the effective setting is not reported.
DescribedWithoutSetting(s, desc, enabled) ==
    MarkServiceStatus(
        [s EXCEPT !.revision = desc.version, !.current = desc.version,
                  !.pending = FALSE],
        desc.ready)

\* What both branches of handleMiddlewareUpdate take from the description and
\* the setting before they differ.
Described(s, desc, enabled) ==
    MarkServiceStatus(
        [s EXCEPT !.revision = desc.version, !.current = desc.version,
                  !.auto = enabled, !.pending = FALSE],
        desc.ready)

UpToDate(s, desc, enabled) ==
    [Described(s, desc, enabled) EXCEPT !.middleware = "True",
                                        !.deployed = "True"]

Skipped(s, desc, latest) ==
    [Described(s, desc, FALSE) EXCEPT
        !.available = latest, !.middleware = "True", !.skip = TRUE,
        !.deployed = "True"]

Outdated(s, desc, latest) ==
    [Described(s, desc, TRUE) EXCEPT
        !.available = latest, !.middleware = "False", !.pending = TRUE]

\* Mutant: a rebuild that is done stays pending.
RebuiltStillPending(s, desc) ==
    MarkServiceStatus(
        [RecordHistoryEvent(s, "rebuilt", s.available) EXCEPT
            !.current = desc.version, !.available = 0,
            !.middleware = "True", !.deployed = "True"],
        desc.ready)

\* The history entry names the version that was available when f was checked.
Rebuilt(s, desc) ==
    MarkServiceStatus(
        [RecordHistoryEvent(s, "rebuilt", s.available) EXCEPT
            !.current = desc.version, !.pending = FALSE, !.available = 0,
            !.middleware = "True", !.deployed = "True"],
        desc.ready)

-----------------------------------------------------------------------------
(* The initial state: a fresh cluster and an operator that has just started *)
(* and created its default ConfigMap.                                       *)

NoObject == [ live |-> FALSE, gen |-> 0, auto |-> "unset", ann |-> 0,
              stamped |-> 0, status |-> NoStatus ]

Init ==
    /\ object = [f \in Functions |-> NoObject]
    /\ cache = object
    /\ lag = {}
    /\ events = {}
    /\ queue = {}
    /\ work = [f \in Functions |-> NoWork]
    /\ config = "true"
    /\ configCache = "true"
    /\ configEvent = FALSE
    /\ service = [f \in Functions |-> NoService]
    /\ builds = [f \in Functions |-> {}]
    /\ cli = 1
    /\ spent = [k \in Disturbances |-> 0]

-----------------------------------------------------------------------------
(* Users and the cluster.                                                   *)

\* What a user's change of the Function f does apart from changing object[f].
UserFrame(f) ==
    /\ lag' = lag \cup {f}
    /\ UNCHANGED <<cache, events, queue, work, configVars, clusterVars, spent>>

CreateFunction(f) ==
    /\ ~object[f].live
    /\ object[f].gen < MaxGeneration
    /\ \E auto \in AutoUpdate :
         object' = [object EXCEPT ![f] =
                      [@ EXCEPT !.live = TRUE, !.gen = object[f].gen + 1,
                                !.auto = auto]]
    /\ UserFrame(f)

\* Any change of the spec increments the generation.
UpdateSpec(f) ==
    /\ object[f].live
    /\ object[f].gen < MaxGeneration
    /\ \E auto \in AutoUpdate :
         object' = [object EXCEPT ![f] =
                      [@ EXCEPT !.gen = object[f].gen + 1, !.auto = auto]]
    /\ UserFrame(f)

DeleteFunction(f) ==
    /\ object[f].live
    /\ object' = [object EXCEPT ![f] =
                     [NoObject EXCEPT !.gen = object[f].gen,
                                      !.stamped = object[f].stamped]]
    /\ UserFrame(f)

\* The user's func CLI stamps the Function after a deploy.
Annotate(f) ==
    /\ object[f].live
    /\ object[f].stamped < MaxStamp
    /\ LET stamp == object[f].stamped + 1 IN
         object' = [object EXCEPT ![f] =
                     [@ EXCEPT !.ann = stamp, !.stamped = stamp]]
    /\ UserFrame(f)

\* A user deploys, undeploys or breaks the service of f.
ChangeService(f) ==
    /\ Spend("service")
    /\ \E svc \in {NoService} \cup [up : {TRUE}, version : Versions,
                                   ready : BOOLEAN] :
         /\ svc # service[f]
         /\ service' = [service EXCEPT ![f] = svc]
    /\ UNCHANGED <<object, cache, lag, events, queue, work, configVars, builds,
                   cli>>

\* A pipeline run that func deploy --remote has started rolls out its image.
FinishBuild(f) ==
    /\ \E v \in builds[f], ready \in BOOLEAN :
         /\ builds' = [builds EXCEPT ![f] = @ \ {v}]
         /\ service' = [service EXCEPT ![f] =
                          [up |-> TRUE, version |-> v, ready |-> ready]]
    /\ UNCHANGED <<object, cache, lag, events, queue, work, configVars, cli,
                   spent>>

\* FuncCliManager installs a new release of the CLI. It tells nobody.
UpdateCli ==
    /\ Spend("release")
    /\ cli < MaxVersion
    /\ cli' = cli + 1
    /\ UNCHANGED <<object, cache, lag, events, queue, work, configVars,
                   service, builds>>

ChangeConfig ==
    /\ Spend("config")
    /\ \E v \in ConfigValues \ {config} : config' = v
    /\ UNCHANGED <<object, cache, lag, events, queue, work, configCache,
                   configEvent, clusterVars>>

-----------------------------------------------------------------------------
(* controller-runtime: informers, predicates, event handlers.               *)

\* Mutant: GenerationChangedPredicate alone.
PassesGenerationOnly(old, new) ==
    old.live # new.live \/ old.gen # new.gen

\* Mutant: no predicate.
PassesAlways(old, new) == TRUE

\* The predicates of For(&Function{}): creations and deletions pass, updates
\* when the generation has changed or the new version is annotated.
PassesPredicate(old, new) ==
    \/ old.live # new.live
    \/ old.gen # new.gen
    \/ new.ann # 0

\* The informer stores the version on the API server ...
Deliver(f) ==
    /\ f \in lag
    /\ lag' = lag \ {f}
    /\ cache' = [cache EXCEPT ![f] = object[f]]
    /\ events' = IF PassesPredicate(cache[f], object[f])
                 THEN events \cup {f} ELSE events
    /\ UNCHANGED <<object, queue, work, configVars, clusterVars, spent>>

\* ... and its event handler adds the key to the work queue some time later.
Dispatch(f) ==
    /\ f \in events
    /\ events' = events \ {f}
    /\ queue' = queue \cup {f}
    /\ UNCHANGED <<object, cache, lag, work, configVars, clusterVars, spent>>

DeliverConfig ==
    /\ configCache # config
    /\ configCache' = config
    /\ configEvent' = TRUE
    /\ UNCHANGED <<object, cache, lag, events, queue, work, config,
                   clusterVars, spent>>

\* findFunctionsForConfigMap lists the informer's store.
DispatchConfig ==
    /\ configEvent
    /\ configEvent' = FALSE
    /\ queue' = queue \cup
                  {f \in Functions : cache[f].live /\ cache[f].auto = "unset"}
    /\ UNCHANGED <<object, cache, lag, events, work, config, configCache,
                   clusterVars, spent>>

-----------------------------------------------------------------------------
(* Reconcile.                                                               *)

\* A reconcile step changes work[f] only, and moves to step pc with status s.
Goto(f, pc, s) ==
    work' = [work EXCEPT ![f] = [@ EXCEPT !.pc = pc, !.status = s]]

\* Mutant: the error is logged and not returned.
AbortSilently(f, s) == Goto(f, "flush", s)

\* An error return of reconcile(): Reconcile goes on with the final flush.
Abort(f, s) ==
    work' = [work EXCEPT ![f] =
               [@ EXCEPT !.pc = "flush", !.status = s, !.failed = TRUE]]

\* Mutant: Reconcile returns no error.
ReturnWithoutRetry(f, err) ==
    /\ work' = [work EXCEPT ![f] = NoWork]
    /\ queue' = queue

\* The end of Reconcile: the rate limiter takes the key again after an error.
Return(f, err) ==
    /\ work' = [work EXCEPT ![f] = NoWork]
    /\ queue' = IF err THEN queue \cup {f} ELSE queue

\* A step that changes nothing but work.
LocalFrame ==
    UNCHANGED <<object, cache, lag, events, queue, configVars, clusterVars>>

\* The cached Function carries the resource version of the API server, so that
\* an update built from it is accepted.
Current(f) == cache[f].live /\ f \notin lag

\* A worker takes a key that is not being processed, reads the Function and
\* starts its tracker. A key without a Function is dropped.
Start(f) ==
    /\ f \in queue
    /\ work[f].pc = "idle"
    /\ queue' = queue \ {f}
    /\ work' = IF cache[f].live
               THEN [work EXCEPT ![f] =
                      [NoWork EXCEPT
                        !.pc = "source", !.gen = cache[f].gen,
                        !.auto = cache[f].auto, !.ann = cache[f].ann,
                        !.status = InitializeConditions(cache[f].status,
                                                        cache[f].gen)]]
               ELSE work
    /\ UNCHANGED <<object, cache, lag, events, configVars, clusterVars, spent>>

\* The auth secret, the clone and func.yaml.
PrepareSource(f) ==
    /\ work[f].pc = "source"
    /\ \/ /\ Goto(f, "describe", [work[f].status EXCEPT !.source = "True"])
          /\ UNCHANGED spent
       \/ /\ Spend("fault")
          /\ Abort(f, [work[f].status EXCEPT !.source = "False"])
    /\ LocalFrame

\* reconcileDeployment up to handleMiddlewareUpdate.
Describe(f) ==
    /\ work[f].pc = "describe"
    /\ \/ /\ ~service[f].up
          /\ Goto(f, "annotations",
                  [work[f].status EXCEPT !.deployed = "False"])
          /\ UNCHANGED spent
       \/ /\ service[f].up
          /\ work' = [work EXCEPT ![f] =
                        [@ EXCEPT
                          !.pc = "setting", !.desc = service[f],
                          !.status = ApplyLastDeployed(work[f].status,
                                                       work[f].ann)]]
          /\ UNCHANGED spent
       \/ /\ Spend("fault")
          /\ Abort(f, [work[f].status EXCEPT !.deployed = "False"])
    /\ LocalFrame

\* getAutoUpdateStatus. The ConfigMap is read from the informer's store.
ResolveSetting(f) ==
    /\ work[f].pc = "setting"
    /\ LET setting == Setting(work[f].auto, configCache) IN
         \/ /\ setting # "error"
            /\ work' = [work EXCEPT ![f] =
                          [@ EXCEPT !.pc = "latest",
                                    !.enabled = setting = "on"]]
         \/ /\ setting = "error"
            /\ Abort(f, [work[f].status EXCEPT !.middleware = "False"])
    /\ UNCHANGED spent
    /\ LocalFrame

\* GetLatestMiddlewareVersion, the comparison with the deployed version and
\* handleMiddlewareUpdate up to the mid-reconcile flush.
CheckLatest(f) ==
    /\ work[f].pc = "latest"
    /\ LET w == work[f] IN
         \/ /\ w.desc.version = cli
            /\ Goto(f, "annotations", UpToDate(w.status, w.desc, w.enabled))
            /\ UNCHANGED spent
         \/ /\ w.desc.version # cli
            /\ ~w.enabled
            /\ Goto(f, "annotations", Skipped(w.status, w.desc, cli))
            /\ UNCHANGED spent
         \/ /\ w.desc.version # cli
            /\ w.enabled
            /\ Goto(f, "preflush", Outdated(w.status, w.desc, cli))
            /\ UNCHANGED spent
         \/ /\ Spend("fault")
            /\ Abort(f, [w.status EXCEPT !.middleware = "False"])
    /\ LocalFrame

\* FlushStatus before a redeployment. Its error is logged and ignored.
PreFlush(f) ==
    /\ work[f].pc = "preflush"
    /\ LET s == CalculateReadyCondition(work[f].status) IN
         \/ /\ Current(f)
            /\ object' = [object EXCEPT ![f].status = s]
            /\ lag' = lag \cup {f}
            /\ work' = [work EXCEPT ![f] =
                          [@ EXCEPT !.pc = "deploy", !.status = s, !.sent = s]]
            /\ UNCHANGED spent
         \/ /\ FailsIf(~Current(f))
            /\ Goto(f, "deploy", s)
            /\ UNCHANGED <<object, lag>>
    /\ UNCHANGED <<cache, events, queue, configVars, clusterVars>>

\* deploy(): pipeline RBAC, registry secret, then func deploy starts a pipeline
\* run that builds with the middleware of the binary that runs.
StartDeploy(f) ==
    /\ work[f].pc = "deploy"
    /\ \/ /\ builds' = [builds EXCEPT ![f] = @ \cup {cli}]
          /\ work' = [work EXCEPT ![f] = [@ EXCEPT !.pc = "wait", !.job = cli]]
          /\ UNCHANGED spent
       \/ /\ Spend("fault")
          /\ Abort(f, [work[f].status EXCEPT !.deployed = "False"])
          /\ UNCHANGED builds
    /\ UNCHANGED <<object, cache, lag, events, queue, configVars, service, cli>>

\* func deploy returns when its pipeline run has ended, or fails: the run may
\* have failed, or go on without the operator.
AwaitDeploy(f) ==
    /\ work[f].pc = "wait"
    /\ \/ /\ work[f].job \notin builds[f]
          /\ Goto(f, "redescribe", work[f].status)
          /\ UNCHANGED <<builds, spent>>
       \/ /\ Spend("fault")
          /\ Abort(f, [work[f].status EXCEPT !.deployed = "False"])
          /\ \E rest \in {builds[f], builds[f] \ {work[f].job}} :
               builds' = [builds EXCEPT ![f] = rest]
    /\ UNCHANGED <<object, cache, lag, events, queue, configVars, service, cli>>

\* The second func describe. A service that is gone by now is an error too.
Redescribe(f) ==
    /\ work[f].pc = "redescribe"
    /\ \/ /\ service[f].up
          /\ Goto(f, "annotations", Rebuilt(work[f].status, service[f]))
          /\ UNCHANGED spent
       \/ /\ FailsIf(~service[f].up)
          /\ Abort(f, work[f].status)
    /\ LocalFrame

\* removeFuncAnnotations works on the Function as the informer has it now.
RemoveAnnotations(f) ==
    /\ work[f].pc = "annotations"
    /\ \/ /\ cache[f].live
          /\ cache[f].ann = 0
          /\ Goto(f, "flush", work[f].status)
          /\ UNCHANGED <<object, lag, spent>>
       \/ /\ Current(f)
          /\ cache[f].ann # 0
          /\ object' = [object EXCEPT ![f].ann = 0]
          /\ lag' = lag \cup {f}
          /\ Goto(f, "flush", work[f].status)
          /\ UNCHANGED spent
       \/ /\ \/ ~cache[f].live /\ UNCHANGED spent
             \/ /\ cache[f].ann # 0
                /\ FailsIf(~Current(f))
          /\ Abort(f, work[f].status)
          /\ UNCHANGED <<object, lag>>
    /\ UNCHANGED <<cache, events, queue, configVars, clusterVars>>

\* The final flush and the return from Reconcile. Nothing is written when the
\* status equals the one the mid-reconcile flush wrote.
FinalFlush(f) ==
    /\ work[f].pc = "flush"
    /\ LET s == CalculateReadyCondition(work[f].status) IN
         \/ /\ s = work[f].sent
            /\ Return(f, work[f].failed)
            /\ UNCHANGED <<object, lag, spent>>
         \/ /\ s # work[f].sent
            /\ Current(f)
            /\ object' = [object EXCEPT ![f].status = s]
            /\ lag' = lag \cup {f}
            /\ Return(f, work[f].failed)
            /\ UNCHANGED spent
         \/ /\ s # work[f].sent
            /\ FailsIf(~Current(f))
            /\ Return(f, TRUE)
            /\ UNCHANGED <<object, lag>>
    /\ UNCHANGED <<cache, events, configVars, clusterVars>>

\* The operator stops and starts again: the new process lists every Function,
\* its queue gets one key each, and main creates the default ConfigMap when it
\* is missing. Pipeline runs go on.
Restart ==
    /\ Spend("crash")
    /\ work' = [f \in Functions |-> NoWork]
    /\ cache' = object
    /\ lag' = {}
    /\ events' = {f \in Functions : object[f].live}
    /\ queue' = {}
    /\ config' = IF config = "absent" THEN "true" ELSE config
    /\ configCache' = config'
    /\ configEvent' = TRUE
    /\ UNCHANGED <<object, clusterVars>>

-----------------------------------------------------------------------------

ReconcileStep(f) ==
    \/ PrepareSource(f) \/ Describe(f) \/ ResolveSetting(f) \/ CheckLatest(f)
    \/ PreFlush(f) \/ StartDeploy(f) \/ AwaitDeploy(f) \/ Redescribe(f)
    \/ RemoveAnnotations(f) \/ FinalFlush(f)

UserStep(f) ==
    \/ CreateFunction(f) \/ UpdateSpec(f) \/ DeleteFunction(f) \/ Annotate(f)
    \/ ChangeService(f)

Next ==
    \/ \E f \in Functions :
         \/ UserStep(f) \/ FinishBuild(f)
         \/ Deliver(f) \/ Dispatch(f) \/ Start(f) \/ ReconcileStep(f)
    \/ UpdateCli \/ ChangeConfig \/ DeliverConfig \/ DispatchConfig \/ Restart

Spec == Init /\ [][Next]_vars

\* The informer catches up while no worker has the key.
DeliverAtRest(f) == Deliver(f) /\ work[f].pc = "idle"

\* The informers, the event handlers and the workers keep running, and a
\* pipeline run ends. Nothing is assumed of users or of the CLI's updates. A key
\* that keeps failing waits longer and longer before its next Reconcile (the
\* work queue's exponential backoff), so that the informer cannot lag behind
\* the failing Reconcile's own status writes every time: strong fairness.
Fairness ==
    /\ \A f \in Functions :
         /\ WF_vars(Deliver(f))
         /\ SF_vars(DeliverAtRest(f))
         /\ WF_vars(Dispatch(f))
         /\ WF_vars(Start(f))
         /\ WF_vars(ReconcileStep(f))
         /\ WF_vars(FinishBuild(f))
    /\ WF_vars(DeliverConfig)
    /\ WF_vars(DispatchConfig)

FairSpec == Spec /\ Fairness

-----------------------------------------------------------------------------
(* What the controller promises.                                            *)

\* Types of the variables.
TypeOK ==
    /\ object \in [Functions -> Object]
    /\ cache \in [Functions -> Object]
    /\ lag \subseteq Functions
    /\ events \subseteq Functions
    /\ queue \subseteq Functions
    /\ work \in [Functions -> Work]
    /\ config \in AllConfigValues
    /\ configCache \in AllConfigValues
    /\ configEvent \in BOOLEAN
    /\ service \in [Functions -> Service]
    /\ builds \in [Functions -> SUBSET Versions]
    /\ cli \in Versions
    /\ spent \in [Disturbances -> Nat]

\* Nothing is under way for f: no worker, no key, no event, no lag.
Quiescent(f) ==
    /\ work[f].pc = "idle"
    /\ f \notin queue
    /\ f \notin events
    /\ f \notin lag

ConfigQuiescent == configCache = config /\ ~configEvent

\* No change of a spec is lost between the predicates, the work queue, the
\* informer's lag and the conflicts of status updates: when nothing is under
\* way for a Function, its status is about its present spec, and no
\* functions.knative.dev/ annotation is left on it (README, "Trigger").
SpecObserved ==
    \A f \in Functions : Quiescent(f) /\ object[f].live =>
        /\ object[f].status.observed = object[f].gen
        /\ object[f].ann = 0

\* A change of the operator-wide default reaches every Function that relies on
\* it, whatever it interleaves with (findFunctionsForConfigMap enqueues only
\* the Functions whose cached copy has no setting of its own): at rest the
\* auto-update setting a deployed Function reports is the one in force.
SettingObserved ==
    \A f \in Functions :
        /\ Quiescent(f) /\ ConfigQuiescent
        /\ object[f].live /\ object[f].status.deployed = "True"
        => Setting(object[f].auto, config) =
               IF object[f].status.auto THEN "on" ELSE "off"

\* Once the status says that the operator has seen a spec that opts out, no
\* rebuild of that Function is started or waited for: a Reconcile of an older
\* spec cannot still be running.
OptOutRespected ==
    \A f \in Functions :
        /\ object[f].live /\ object[f].auto = "off"
        /\ object[f].status.observed = object[f].gen
        => work[f].pc \notin {"preflush", "deploy", "wait"}

\* pendingRebuild is raised by the mid-reconcile flush and survives failed
\* rebuilds, retries and restarts; it is never shown with a Deployed, an
\* up-to-date or a Ready condition that is True.
PendingIsHonest ==
    \A f \in Functions :
        LET s == object[f].status IN
        s.pending => "True" \notin {s.deployed, s.middleware, s.ready}

\* What fails is tried again until it is done, whatever has been flushed, lost
\* in a conflict or cut off by a restart in between: a status at rest is that of
\* a Reconcile that has come to its end. Either there is no service, or it runs
\* with the middleware it is to have, and no rebuild is announced.
FailuresAreRetried ==
    \A f \in Functions : Quiescent(f) /\ object[f].live =>
        LET s == object[f].status IN
        /\ s.source = "True"
        /\ \/ s.deployed = "False" /\ s.middleware = "Unknown"
           \/ s.deployed = "True" /\ s.middleware = "True" /\ ~s.pending

\* A later write of the status is never about an older spec: the Reconcile that
\* started from a lagging informer does not take an observation back.
ObservedNeverRegresses ==
    [][\A f \in Functions :
         object[f].live /\ object'[f].live =>
             object[f].status.observed <= object'[f].status.observed]_vars

\* Every finite series of disturbances is digested: the controller's own writes
\* do not wake it up again, retries end, and everything comes to rest, unless
\* the ConfigMap cannot be read (isMiddlewareUpdateEnabled then fails forever).
Settles ==
    <>[](\A f \in Functions :
           Quiescent(f) \/ Setting(object[f].auto, config) = "error")

\* A spec change or an annotation the informer has not delivered yet.
TriggerPending(f) ==
    \/ object[f].gen # cache[f].gen
    \/ object[f].ann \notin {0, cache[f].ann}

\* A trigger on an opted-in Function whose service runs another middleware than
\* the operator's func CLI carries leads to a rebuild with that middleware,
\* through failed deploys, failed status updates and restarts of the operator,
\* as long as the CLI stays as it is.
RebuildHappens ==
    \A f \in Functions :
        /\ object[f].live /\ object[f].auto = "on"
        /\ service[f].up /\ TriggerPending(f)
        ~> \/ ~object[f].live \/ object[f].auto # "on"
           \/ ~service[f].up \/ service[f].version = cli

=============================================================================
