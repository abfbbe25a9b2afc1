------------------------- MODULE FunctionStatusProofs -------------------------
(***************************************************************************)
(* Proofs about what the status of a Function tells: PendingIsHonest,      *)
(* SettingObserved and FailuresAreRetried of FunctionController, for every *)
(* set of Functions and every bound. They rest on Inv of                   *)
(* FunctionControllerInvariant.                                            *)
(***************************************************************************)
EXTENDS FunctionControllerProofs

-----------------------------------------------------------------------------
(* The inductive invariant.                                                 *)

\* The setting as the status reports it.
OnOff(b) == IF b THEN "on" ELSE "off"

\* b is what the setting auto of f resolves to, unless a Reconcile of f is to
\* come: then it may be the answer of an older ConfigMap, but not one that
\* contradicts the Function's own setting.
InForce(f, auto, b) ==
    /\ auto # "unset" => auto = OnOff(b)
    /\ ~Told(f) /\ ~configEvent /\ cache[f].live =>
          Setting(auto, configCache) = OnOff(b)

\* A pending rebuild comes with no condition that says otherwise.
Honest(s) == s.pending => "True" \notin {s.deployed, s.middleware, s.ready}

\* The status on the API server.
StoredInv(f) ==
    LET s == object[f].status IN
    /\ Honest(s)
    /\ object[f].live /\ s.deployed = "True" /\ s.observed = object[f].gen =>
          /\ object[f].auto # "unset" => object[f].auto = OnOff(s.auto)
          /\ ~Busy(f) => InForce(f, object[f].auto, s.auto)
    /\ Busy(f) /\ work[f].sent # NoStatus => s.deployed # "True"

\* The working copy: Deployed and Ready are not claimed before the middleware
\* has been compared, Deployed not before the Function is up to date.
CopyInv(f) ==
    LET s == work[f].status IN
    /\ Honest(s)
    /\ work[f].pc \in {"source", "describe", "setting", "latest"} =>
          s.ready # "True"
    /\ work[f].pc \in {"preflush", "deploy", "wait", "redescribe"} =>
          work[f].enabled /\ s.auto
    /\ s.deployed = "True" =>
          work[f].pc \in {"annotations", "flush"} /\ s.auto = work[f].enabled

\* The setting that the Reconcile has resolved.
SettingInv(f) ==
    /\ Busy(f) /\ cache[f].live /\ work[f].gen = cache[f].gen =>
          work[f].auto = cache[f].auto
    /\ (\/ work[f].pc \in {"latest", "preflush", "deploy", "wait", "redescribe"}
        \/ work[f].status.deployed = "True") =>
          InForce(f, work[f].auto, work[f].enabled)

StatusInv(f) == StoredInv(f) /\ CopyInv(f) /\ SettingInv(f)

AllStatusInv == \A f \in Functions : StatusInv(f)

-----------------------------------------------------------------------------
(* The conditions.                                                          *)

\* What the condition helpers of function_lifecycle.go leave and set.
LEMMA ConditionEffects ==
    ASSUME NEW s \in Status
    PROVE  /\ \A gen \in Generations :
                 LET r == InitializeConditions(s, gen)
                 IN  {r.deployed, r.middleware, r.ready} = {"Unknown"}
           /\ LET r == CalculateReadyCondition(s)
              IN  /\ r.deployed = s.deployed /\ r.pending = s.pending
                  /\ r.auto = s.auto /\ r.observed = s.observed
                  /\ r # NoStatus /\ (Honest(s) => Honest(r))
           /\ LET r == [s EXCEPT !.deployed = "False"]
              IN  /\ r.deployed = "False" /\ r.auto = s.auto
                  /\ r.ready = s.ready /\ (Honest(s) => Honest(r))
           /\ LET r == [s EXCEPT !.middleware = "False"]
              IN  /\ r.deployed = s.deployed /\ r.auto = s.auto
                  /\ r.ready = s.ready /\ (Honest(s) => Honest(r))
           /\ \A c \in Condition :
                 LET r == [s EXCEPT !.source = c]
                 IN  /\ r.deployed = s.deployed /\ r.auto = s.auto
                     /\ r.ready = s.ready /\ (Honest(s) => Honest(r))
           /\ \A ann \in Stamps :
                 LET r == ApplyLastDeployed(s, ann)
                 IN  /\ r.deployed = s.deployed /\ r.auto = s.auto
                     /\ r.ready = s.ready /\ (Honest(s) => Honest(r))
<1>1. \A gen \in Generations :
         LET r == InitializeConditions(s, gen)
         IN  {r.deployed, r.middleware, r.ready} = {"Unknown"}
  BY DEF InitializeConditions, Status
<1>2. LET r == CalculateReadyCondition(s)
      IN  /\ r.deployed = s.deployed /\ r.pending = s.pending
          /\ r.auto = s.auto /\ r.observed = s.observed
          /\ r # NoStatus /\ (Honest(s) => Honest(r))
  <2>1. PICK c \in {"True", "False"} :
           /\ CalculateReadyCondition(s) = [s EXCEPT !.ready = c]
           /\ c = "True" => s.deployed = "True"
    BY DEF CalculateReadyCondition
  <2>2. LET r == [s EXCEPT !.ready = c]
        IN  /\ r.deployed = s.deployed /\ r.pending = s.pending
            /\ r.middleware = s.middleware /\ r.ready = c
            /\ r.auto = s.auto /\ r.observed = s.observed
    BY DEF Status
  <2> QED BY <2>1, <2>2, ObservedKept DEF Honest
<1>3. LET r == [s EXCEPT !.deployed = "False"]
      IN  /\ r.deployed = "False" /\ r.auto = s.auto
          /\ r.ready = s.ready /\ (Honest(s) => Honest(r))
  BY DEF Status, Honest
<1>4. LET r == [s EXCEPT !.middleware = "False"]
      IN  /\ r.deployed = s.deployed /\ r.auto = s.auto
          /\ r.ready = s.ready /\ (Honest(s) => Honest(r))
  BY DEF Status, Honest
<1>5. \A c \in Condition :
         LET r == [s EXCEPT !.source = c]
         IN  /\ r.deployed = s.deployed /\ r.auto = s.auto
             /\ r.ready = s.ready /\ (Honest(s) => Honest(r))
  BY DEF Status, Honest
<1>6. \A ann \in Stamps :
         LET r == ApplyLastDeployed(s, ann)
         IN  /\ r.deployed = s.deployed /\ r.auto = s.auto
             /\ r.ready = s.ready /\ (Honest(s) => Honest(r))
  BY DEF Status, Honest, ApplyLastDeployed, RecordHistoryEvent
<1> QED BY <1>1, <1>2, <1>3, <1>4, <1>5, <1>6

\* What handleMiddlewareUpdate makes of them.
LEMMA OutcomeEffects ==
    ASSUME NEW s \in Status, NEW desc \in Service, NEW latest \in Versions,
           NEW b \in BOOLEAN
    PROVE  /\ UpToDate(s, desc, b).auto = b /\ ~UpToDate(s, desc, b).pending
           /\ ~Skipped(s, desc, latest).auto /\ ~Skipped(s, desc, latest).pending
           /\ LET r == Outdated(s, desc, latest)
              IN  /\ r.deployed = s.deployed /\ r.ready = s.ready
                  /\ r.auto /\ r.middleware = "False"
           /\ Rebuilt(s, desc).auto = s.auto /\ ~Rebuilt(s, desc).pending
BY DEF UpToDate, Skipped, Outdated, Rebuilt, Described, MarkServiceStatus,
       RecordHistoryEvent, Status

-----------------------------------------------------------------------------
(* Steps of others.                                                         *)

\* Everything StatusInv(g) speaks of is left alone; what is in force may have
\* become uncertain.
LEMMA StatusFrame ==
    ASSUME NEW g \in Functions, StatusInv(g),
           object'[g] = object[g], cache'[g] = cache[g], work'[g] = work[g],
           Told(g) => Told(g)',
           ~configEvent' => ~configEvent /\ configCache' = configCache
    PROVE  StatusInv(g)'
<1>1. \A auto, b : InForce(g, auto, b) => InForce(g, auto, b)'
  BY DEF InForce
<1> QED BY <1>1 DEF StatusInv, StoredInv, CopyInv, SettingInv, Busy

\* findFunctionsForConfigMap leaves out the Functions with a setting of their
\* own: the ConfigMap is nothing to them.
LEMMA DispatchConfigKeepsStatus ==
    ASSUME TypeOK, NEW g \in Functions, FunctionInv(g), StatusInv(g),
           DispatchConfig
    PROVE  StatusInv(g)'
<1>0. /\ object[g] \in Object /\ cache[g] \in Object /\ work[g] \in Work
      /\ {object[g].gen, cache[g].gen, work[g].gen} \subseteq Nat
      /\ {object[g].status.observed, work[g].status.observed} \subseteq Nat
  BY Components
<1>1. /\ UNCHANGED <<object, cache, work, configCache, events>>
      /\ ~configEvent' /\ queue \subseteq queue'
      /\ cache[g].live /\ cache[g].auto = "unset" => g \in queue'
  BY DEF DispatchConfig, configVars
<1>2. Told(g) => Told(g)'
  BY <1>1 DEF Told
<1>3. ASSUME NEW auto \in AutoUpdate, NEW b \in BOOLEAN, InForce(g, auto, b),
             ~Told(g)' /\ cache[g].live => auto = cache[g].auto
      PROVE  InForce(g, auto, b)'
  <2> SUFFICES ASSUME ~Told(g)', cache[g].live
               PROVE  Setting(auto, configCache) = OnOff(b)
    BY <1>1, <1>3 DEF InForce
  <2>1. auto = cache[g].auto /\ auto # "unset"
    BY <1>1, <1>3 DEF Told
  <2>2. auto = OnOff(b) /\ auto \in {"on", "off"}
    BY <1>3, <2>1 DEF InForce, AutoUpdate
  <2> QED BY <2>2 DEF Setting
<1>4. StoredInv(g)'
  <2>1. /\ object[g].auto \in AutoUpdate
        /\ object[g].status.auto \in BOOLEAN
    BY <1>0 DEF Object, Status
  <2>2. /\ object[g].live /\ object[g].status.observed = object[g].gen
        /\ cache[g].live
        => object[g].auto = cache[g].auto
    BY <1>0
       DEF FunctionInv, ObservationsInOrder, VersionsInOrder, SpecOfGeneration
  <2> QED BY <1>1, <1>3, <2>1, <2>2 DEF StatusInv, StoredInv, Busy
<1>5. CopyInv(g)'
  BY <1>1 DEF StatusInv, CopyInv
<1>6. SettingInv(g)'
  <2>1. work[g].auto \in AutoUpdate /\ work[g].enabled \in BOOLEAN
    BY <1>0 DEF Work
  <2>2. Busy(g) /\ ~Told(g)' /\ cache[g].live => work[g].auto = cache[g].auto
    BY <1>2 DEF StatusInv, SettingInv, FunctionInv, GenerationCovered
  <2>3. (\/ work[g].pc \in {"latest", "preflush", "deploy", "wait", "redescribe"}
         \/ work[g].status.deployed = "True") => Busy(g)
    BY DEF Busy, StatusInv, CopyInv
  <2> QED BY <1>1, <1>3, <2>1, <2>2, <2>3 DEF StatusInv, SettingInv, Busy
<1> QED BY <1>4, <1>5, <1>6 DEF StatusInv

\* A new process has an event for every Function.
LEMMA RestartKeepsStatus ==
    ASSUME TypeOK, NEW g \in Functions, FunctionInv(g), StatusInv(g), Restart
    PROVE  StatusInv(g)'
<1>1. /\ object' = object /\ cache' = object /\ work'[g] = NoWork
      /\ object[g].live => g \in events'
      /\ configEvent' = TRUE
  BY DEF Restart
<1> QED
  BY <1>1
     DEF StatusInv, StoredInv, CopyInv, SettingInv, InForce, Told, Busy,
         NoWork, NoStatus, Honest

-----------------------------------------------------------------------------
(* The steps of a Reconcile.                                                *)

\* A step that writes nothing to the API server leaves the stored status as
\* honest as it was.
LEMMA LocalEffectKeepsStatus ==
    ASSUME NEW f \in Functions, StatusInv(f), LocalEffect(f),
           UNCHANGED configVars, CopyInv(f)',
           \/ work'[f].pc \in {"latest", "preflush", "deploy", "wait",
                               "redescribe"}
           \/ work'[f].status.deployed = "True"
           => InForce(f, work[f].auto, work'[f].enabled)
    PROVE  StatusInv(f)'
<1>1. /\ object' = object /\ cache' = cache /\ Busy(f) /\ Busy(f)'
      /\ work'[f].gen = work[f].gen /\ work'[f].auto = work[f].auto
      /\ work'[f].sent = work[f].sent
  BY DEF LocalEffect, Busy
<1>2. \A auto, b : InForce(f, auto, b) => InForce(f, auto, b)'
  BY DEF LocalEffect, configVars, InForce, Told
<1>3. StoredInv(f)'
  BY <1>1, <1>2 DEF StatusInv, StoredInv
<1>4. SettingInv(f)'
  BY <1>1, <1>2 DEF StatusInv, SettingInv
<1> QED BY <1>3, <1>4 DEF StatusInv

\* The reconcile steps without a write.
LEMMA LocalStepsKeepStatus ==
    ASSUME TypeOK, NEW f \in Functions, FunctionInv(f), StatusInv(f),
           \/ PrepareSource(f) \/ Describe(f) \/ ResolveSetting(f)
           \/ CheckLatest(f) \/ StartDeploy(f) \/ AwaitDeploy(f)
           \/ Redescribe(f)
    PROVE  StatusInv(f)'
<1> DEFINE s == work[f].status
           Resolved == {"latest", "preflush", "deploy", "wait", "redescribe"}
<1>0. /\ work[f] \in Work /\ s \in Status /\ work \in [Functions -> Work]
      /\ work[f].desc \in Service /\ work[f].ann \in Stamps
      /\ work[f].enabled \in BOOLEAN /\ cli \in Versions
      /\ service[f] \in Service /\ s.auto \in BOOLEAN
  BY DEF TypeOK, Work, Status
<1>l. LocalEffect(f)
  BY LocalSteps
<1>u. UNCHANGED configVars
  BY DEF PrepareSource, Describe, ResolveSetting, CheckLatest, StartDeploy,
         AwaitDeploy, Redescribe, LocalFrame
<1>i. /\ Honest(s)
      /\ work[f].pc \in {"source", "describe", "setting", "latest"} =>
            s.ready # "True"
      /\ work[f].pc \in {"preflush", "deploy", "wait", "redescribe"} =>
            work[f].enabled /\ s.auto
      /\ s.deployed = "True" => work[f].pc \in {"annotations", "flush"}
      /\ work[f].pc \in Resolved => InForce(f, work[f].auto, work[f].enabled)
  BY DEF StatusInv, CopyInv, SettingInv
<1> HIDE DEF s
\* The step leads to step pc with status t and setting b.
<1>p. ASSUME NEW pc \in Steps, NEW t, NEW b,
             work'[f].pc = pc, work'[f].status = t, work'[f].enabled = b,
             Honest(t),
             pc \in {"source", "describe", "setting", "latest"} =>
                t.ready # "True",
             pc \in {"preflush", "deploy", "wait", "redescribe"} => b /\ t.auto,
             t.deployed = "True" => pc = "annotations" /\ t.auto = b,
             pc \in Resolved \/ t.deployed = "True" =>
                InForce(f, work[f].auto, b)
      PROVE  StatusInv(f)'
  <2>1. CopyInv(f)'
    BY <1>p DEF CopyInv
  <2> QED BY <1>p, <1>l, <1>u, <2>1, LocalEffectKeepsStatus
<1>g. ASSUME NEW pc \in Steps, NEW t, Goto(f, pc, t)
      PROVE  /\ work'[f].pc = pc /\ work'[f].status = t
             /\ work'[f].enabled = work[f].enabled
  BY <1>0, <1>g DEF Goto, Work
<1>a. ASSUME NEW t, Abort(f, t), Honest(t), t.deployed # "True"
      PROVE  StatusInv(f)'
  <2>1. work'[f].pc = "flush" /\ work'[f].status = t
    BY <1>0, <1>a DEF Abort, Work
  <2> QED BY <1>a, <2>1, <1>p DEF Steps
<1>c. /\ [s EXCEPT !.deployed = "False"].deployed # "True"
      /\ Honest([s EXCEPT !.deployed = "False"])
      /\ Honest([s EXCEPT !.middleware = "False"])
      /\ [s EXCEPT !.middleware = "False"].deployed = s.deployed
      /\ \A c \in Condition :
           /\ Honest([s EXCEPT !.source = c])
           /\ [s EXCEPT !.source = c].deployed = s.deployed
           /\ [s EXCEPT !.source = c].ready = s.ready
  BY <1>0, <1>i, ConditionEffects
<1>1. CASE PrepareSource(f)
  <2>0. /\ work[f].pc = "source" /\ s.ready # "True" /\ s.deployed # "True"
        /\ "True" \in Condition /\ "False" \in Condition
    BY <1>1, <1>i DEF PrepareSource, Condition
  <2>1. CASE Goto(f, "describe", [s EXCEPT !.source = "True"])
    <3> DEFINE t == [s EXCEPT !.source = "True"]
    <3>1. Honest(t) /\ t.deployed # "True" /\ t.ready # "True"
      BY <1>c, <2>0
    <3> HIDE DEF t
    <3>2. work'[f].pc = "describe" /\ work'[f].status = t
      BY <2>1, <1>g DEF Steps, t
    <3> QED BY <3>1, <3>2, <1>p DEF Steps
  <2>2. CASE Abort(f, [s EXCEPT !.source = "False"])
    BY <2>0, <2>2, <1>c, <1>a
  <2> QED BY <1>1, <2>1, <2>2 DEF PrepareSource, s
<1>2. CASE Describe(f)
  <2>0. work[f].pc = "describe" /\ s.ready # "True" /\ s.deployed # "True"
    BY <1>2, <1>i DEF Describe
  <2>1. CASE Goto(f, "annotations", [s EXCEPT !.deployed = "False"])
    <3> DEFINE t == [s EXCEPT !.deployed = "False"]
    <3>1. Honest(t) /\ t.deployed # "True"
      BY <1>c
    <3> HIDE DEF t
    <3>2. work'[f].pc = "annotations" /\ work'[f].status = t
      BY <2>1, <1>g DEF Steps, t
    <3> QED BY <3>1, <3>2, <1>p DEF Steps
  <2>2. CASE work' = [work EXCEPT ![f] =
               [@ EXCEPT !.pc = "setting", !.desc = service[f],
                         !.status = ApplyLastDeployed(s, work[f].ann)]]
    <3> DEFINE t == ApplyLastDeployed(s, work[f].ann)
    <3>1. Honest(t) /\ t.deployed # "True" /\ t.ready # "True"
      BY <1>0, <1>i, <2>0, ConditionEffects
    <3> HIDE DEF t
    <3>2. work'[f] = [work[f] EXCEPT !.pc = "setting", !.desc = service[f],
                                     !.status = t]
      BY <1>0, <2>2 DEF t
    <3>3. work'[f].pc = "setting" /\ work'[f].status = t
      BY <1>0, <3>2 DEF Work
    <3> QED BY <3>1, <3>3, <1>p DEF Steps
  <2>3. CASE Abort(f, [s EXCEPT !.deployed = "False"])
    BY <2>3, <1>c, <1>a
  <2> QED BY <1>2, <2>1, <2>2, <2>3 DEF Describe, s
<1>3. CASE ResolveSetting(f)
  <2>0. work[f].pc = "setting" /\ s.ready # "True" /\ s.deployed # "True"
    BY <1>3, <1>i DEF ResolveSetting
  <2>1. ASSUME Setting(work[f].auto, configCache) # "error",
               work' = [work EXCEPT ![f] =
                 [@ EXCEPT !.pc = "latest",
                           !.enabled = Setting(work[f].auto, configCache) = "on"]]
        PROVE  StatusInv(f)'
    <3> DEFINE b == Setting(work[f].auto, configCache) = "on"
    <3>1. Setting(work[f].auto, configCache) = OnOff(b)
      BY <2>1 DEF Setting, OnOff
    <3>2. work[f].auto # "unset" =>
            work[f].auto = Setting(work[f].auto, configCache)
      BY <1>0 DEF Setting, Work, AutoUpdate
    <3>3. InForce(f, work[f].auto, b)
      BY <3>1, <3>2 DEF InForce
    <3> HIDE DEF b
    <3>4. work'[f] = [work[f] EXCEPT !.pc = "latest", !.enabled = b]
      BY <1>0, <2>1 DEF b
    <3>5. work'[f].pc = "latest" /\ work'[f].enabled = b /\ work'[f].status = s
      BY <1>0, <3>4 DEF Work, s
    <3> QED BY <2>0, <3>3, <3>5, <1>i, <1>p DEF Steps
  <2>2. CASE Abort(f, [s EXCEPT !.middleware = "False"])
    BY <2>0, <2>2, <1>c, <1>a
  <2> QED BY <1>3, <2>1, <2>2 DEF ResolveSetting, s
<1>4. CASE CheckLatest(f)
  <2>0. /\ work[f].pc = "latest" /\ s.ready # "True" /\ s.deployed # "True"
        /\ InForce(f, work[f].auto, work[f].enabled)
    BY <1>4, <1>i DEF CheckLatest
  <2>1. CASE Goto(f, "annotations", UpToDate(s, work[f].desc, work[f].enabled))
    <3> DEFINE t == UpToDate(s, work[f].desc, work[f].enabled)
    <3>1. ~t.pending /\ t.auto = work[f].enabled
      BY <1>0, OutcomeEffects
    <3> HIDE DEF t
    <3>2. /\ work'[f].pc = "annotations" /\ work'[f].status = t
          /\ work'[f].enabled = work[f].enabled
      BY <2>1, <1>g DEF Steps, t
    <3> QED BY <2>0, <3>1, <3>2, <1>p DEF Steps, Honest
  <2>2. CASE ~work[f].enabled /\ Goto(f, "annotations",
                                      Skipped(s, work[f].desc, cli))
    <3> DEFINE t == Skipped(s, work[f].desc, cli)
    <3>1. ~t.pending /\ t.auto = FALSE
      BY <1>0, OutcomeEffects, OutcomeTypes DEF Status
    <3> HIDE DEF t
    <3>2. /\ work'[f].pc = "annotations" /\ work'[f].status = t
          /\ work'[f].enabled = work[f].enabled
      BY <2>2, <1>g DEF Steps, t
    <3>3. work[f].enabled = FALSE
      BY <1>0, <2>2
    <3> QED BY <2>0, <3>1, <3>2, <3>3, <1>p DEF Steps, Honest
  <2>3. CASE work[f].enabled /\ Goto(f, "preflush",
                                     Outdated(s, work[f].desc, cli))
    <3> DEFINE t == Outdated(s, work[f].desc, cli)
    <3>1. /\ t.deployed = s.deployed /\ t.ready = s.ready /\ t.auto
          /\ t.middleware = "False"
      BY <1>0, OutcomeEffects
    <3>2. Honest(t)
      BY <2>0, <3>1 DEF Honest
    <3> HIDE DEF t
    <3>3. /\ work'[f].pc = "preflush" /\ work'[f].status = t
          /\ work'[f].enabled = work[f].enabled
      BY <2>3, <1>g DEF Steps, t
    <3> QED BY <2>0, <2>3, <3>1, <3>2, <3>3, <1>p DEF Steps
  <2>4. CASE Abort(f, [s EXCEPT !.middleware = "False"])
    BY <2>0, <2>4, <1>c, <1>a
  <2> QED BY <1>4, <2>1, <2>2, <2>3, <2>4 DEF CheckLatest, s
<1>5. CASE StartDeploy(f)
  <2>0. work[f].pc = "deploy"
    BY <1>5 DEF StartDeploy
  <2>1. CASE work' = [work EXCEPT ![f] = [@ EXCEPT !.pc = "wait", !.job = cli]]
    <3>1. work'[f] = [work[f] EXCEPT !.pc = "wait", !.job = cli]
      BY <1>0, <2>1
    <3>2. /\ work'[f].pc = "wait" /\ work'[f].status = s
          /\ work'[f].enabled = work[f].enabled
      BY <1>0, <3>1 DEF Work, s
    <3> QED BY <2>0, <3>2, <1>i, <1>p DEF Steps
  <2>2. CASE Abort(f, [s EXCEPT !.deployed = "False"])
    BY <2>2, <1>c, <1>a
  <2> QED BY <1>5, <2>1, <2>2 DEF StartDeploy, s
<1>6. CASE AwaitDeploy(f)
  <2>0. work[f].pc = "wait"
    BY <1>6 DEF AwaitDeploy
  <2>1. CASE Goto(f, "redescribe", s)
    <3>1. /\ work'[f].pc = "redescribe" /\ work'[f].status = s
          /\ work'[f].enabled = work[f].enabled
      BY <2>1, <1>g DEF Steps
    <3> QED BY <2>0, <3>1, <1>i, <1>p DEF Steps
  <2>2. CASE Abort(f, [s EXCEPT !.deployed = "False"])
    BY <2>2, <1>c, <1>a
  <2> QED BY <1>6, <2>1, <2>2 DEF AwaitDeploy, s
<1>7. CASE Redescribe(f)
  <2>0. /\ work[f].pc = "redescribe" /\ work[f].enabled /\ s.auto
        /\ InForce(f, work[f].auto, work[f].enabled)
    BY <1>7, <1>i DEF Redescribe
  <2>1. CASE Goto(f, "annotations", Rebuilt(s, service[f]))
    <3> DEFINE t == Rebuilt(s, service[f])
    <3>1. ~t.pending /\ t.auto = s.auto
      BY <1>0, OutcomeEffects
    <3> HIDE DEF t
    <3>2. /\ work'[f].pc = "annotations" /\ work'[f].status = t
          /\ work'[f].enabled = work[f].enabled
      BY <2>1, <1>g DEF Steps, t
    <3>3. t.auto = work[f].enabled
      BY <1>0, <2>0, <3>1
    <3> QED BY <2>0, <3>1, <3>2, <3>3, <1>p DEF Steps, Honest
  <2>2. CASE Abort(f, s)
    BY <2>0, <2>2, <1>i, <1>a
  <2> QED BY <1>7, <2>1, <2>2 DEF Redescribe, s
<1> QED BY <1>1, <1>2, <1>3, <1>4, <1>5, <1>6, <1>7

\* The steps that write to the API server. A status with Deployed=True leaves
\* the working copy in the final flush only, with the setting that was resolved
\* for this very spec; a flush that fails leaves the key in the queue.
LEMMA WritingStepsKeepStatus ==
    ASSUME TypeOK, NEW f \in Functions, FunctionInv(f), StatusInv(f),
           PreFlush(f) \/ RemoveAnnotations(f) \/ FinalFlush(f)
    PROVE  StatusInv(f)'
<1> DEFINE s == work[f].status
           r == CalculateReadyCondition(s)
<1>0. /\ object[f] \in Object /\ work[f] \in Work /\ s \in Status
      /\ object \in [Functions -> Object] /\ work \in [Functions -> Work]
      /\ work[f].failed \in BOOLEAN
  BY Components DEF TypeOK, Work
<1>r. /\ r.deployed = s.deployed /\ r.auto = s.auto /\ r.observed = s.observed
      /\ r # NoStatus /\ Honest(r)
  BY <1>0, ConditionEffects DEF StatusInv, CopyInv
<1> HIDE DEF r
<1>u. UNCHANGED <<cache, events, configVars>>
  BY DEF PreFlush, RemoveAnnotations, FinalFlush
<1>f. (Told(f) => Told(f)') =>
          \A auto, b : InForce(f, auto, b) => InForce(f, auto, b)'
  BY <1>u DEF InForce, configVars
<1>1. CASE PreFlush(f)
  <2>0. work[f].pc = "preflush" /\ queue' = queue
    BY <1>1 DEF PreFlush
  <2>t. \A auto, b : InForce(f, auto, b) => InForce(f, auto, b)'
    BY <2>0, <1>u, <1>f DEF Told
  <2>1. CASE /\ object' = [object EXCEPT ![f].status = r]
             /\ work' = [work EXCEPT ![f] =
                           [@ EXCEPT !.pc = "deploy", !.status = r, !.sent = r]]
    <3>1. /\ work'[f].pc = "deploy" /\ work'[f].status = r
          /\ work'[f].enabled = work[f].enabled
          /\ work'[f].gen = work[f].gen /\ work'[f].auto = work[f].auto
      BY <1>0, <2>1 DEF Work
    <3>2. object'[f].status = r
      BY <1>0, <2>1 DEF Object
    <3> QED BY <2>0, <2>t, <3>1, <3>2, <1>r, <1>u
            DEF StatusInv, StoredInv, CopyInv, SettingInv, Busy
  <2>2. CASE Goto(f, "deploy", r) /\ object' = object
    <3>1. /\ work'[f].pc = "deploy" /\ work'[f].status = r
          /\ work'[f].sent = work[f].sent
          /\ work'[f].enabled = work[f].enabled
          /\ work'[f].gen = work[f].gen /\ work'[f].auto = work[f].auto
      BY <1>0, <2>2 DEF Work, Goto
    <3> QED BY <2>0, <2>2, <2>t, <3>1, <1>r, <1>u
            DEF StatusInv, StoredInv, CopyInv, SettingInv, Busy
  <2> QED BY <1>1, <2>1, <2>2 DEF PreFlush, r
<1>2. CASE RemoveAnnotations(f)
  <2>0. work[f].pc = "annotations" /\ queue' = queue
    BY <1>2 DEF RemoveAnnotations
  <2>t. \A auto, b : InForce(f, auto, b) => InForce(f, auto, b)'
    BY <2>0, <1>u, <1>f DEF Told
  <2>1. Goto(f, "flush", s) \/ Abort(f, s)
    BY <1>2 DEF RemoveAnnotations
  <2>2. /\ work'[f].pc = "flush" /\ work'[f].status = s
        /\ work'[f].sent = work[f].sent
        /\ work'[f].enabled = work[f].enabled
        /\ work'[f].gen = work[f].gen /\ work'[f].auto = work[f].auto
    <3>1. CASE Goto(f, "flush", s)
      BY <1>0, <3>1 DEF Work, Goto
    <3>2. CASE Abort(f, s)
      BY <1>0, <3>2 DEF Work, Abort
    <3> QED BY <2>1, <3>1, <3>2
  <2>3. /\ object'[f].live = object[f].live /\ object'[f].gen = object[f].gen
        /\ object'[f].auto = object[f].auto
        /\ object'[f].status = object[f].status
    <3>1. object' = object \/ object' = [object EXCEPT ![f].ann = 0]
      BY <1>2 DEF RemoveAnnotations
    <3> QED BY <1>0, <3>1 DEF Object
  <2> QED BY <2>0, <2>t, <2>2, <2>3, <1>u
          DEF StatusInv, StoredInv, CopyInv, SettingInv, Busy
<1>3. CASE FinalFlush(f)
  <2>0. work[f].pc = "flush" /\ Busy(f)
    BY <1>3 DEF FinalFlush, Busy
  <2>w. \A err \in BOOLEAN : Return(f, err) =>
          /\ work'[f] = NoWork
          /\ queue \subseteq queue' /\ (err => f \in queue')
    BY <1>0 DEF Return
  <2>n. work'[f] = NoWork /\ (Told(f) => Told(f)')
    BY <1>0, <1>3, <1>u, <2>w DEF FinalFlush, Told
  <2>c. CopyInv(f)' /\ SettingInv(f)'
    <3>1. /\ work'[f].pc = "idle" /\ ~work'[f].status.pending
          /\ work'[f].status.deployed = "Unknown"
      BY <2>n DEF NoWork, NoStatus
    <3> QED BY <3>1 DEF CopyInv, SettingInv, Honest, Busy
  <2>1. CASE r = work[f].sent /\ object' = object
    BY <2>0, <2>1, <2>c, <2>n, <1>r DEF StatusInv, StoredInv, Busy, NoWork
  <2>2. CASE object' = [object EXCEPT ![f].status = r]
    <3>1. /\ object'[f].status = r
          /\ object'[f].live = object[f].live /\ object'[f].gen = object[f].gen
          /\ object'[f].auto = object[f].auto
      BY <1>0, <2>2 DEF Object
    <3>2. ASSUME object[f].live, r.deployed = "True", r.observed = object[f].gen
          PROVE  /\ object[f].auto # "unset" => object[f].auto = OnOff(r.auto)
                 /\ \A auto, b : auto = object[f].auto /\ b = r.auto =>
                      InForce(f, auto, b)'
      <4>1. work[f].gen = object[f].gen /\ object[f].auto = work[f].auto
        BY <3>2, <2>0, <1>r DEF FunctionInv, VersionsInOrder, SpecOfGeneration
      <4>2. InForce(f, work[f].auto, r.auto)
        BY <3>2, <1>r DEF StatusInv, CopyInv, SettingInv
      <4>3. \A auto, b : InForce(f, auto, b) => InForce(f, auto, b)'
        BY <2>n, <1>f
      <4> QED BY <4>1, <4>2, <4>3 DEF InForce
    <3>3. StoredInv(f)'
      BY <2>n, <3>1, <3>2, <1>r DEF StoredInv, Busy, NoWork
    <3> QED BY <2>c, <3>3 DEF StatusInv
  <2>3. CASE Return(f, TRUE) /\ object' = object
    <3>1. Told(f)'
      BY <2>3, <2>w DEF Told
    <3> QED BY <2>3, <2>c, <2>n, <3>1
            DEF StatusInv, StoredInv, InForce, Busy, NoWork
  <2> QED BY <1>3, <2>1, <2>2, <2>3 DEF FinalFlush, r
<1> QED BY <1>1, <1>2, <1>3

-----------------------------------------------------------------------------
(* Users and the controller runtime.                                        *)

\* A new spec is one that no status is about.
LEMMA UserStepKeepsStatus ==
    ASSUME TypeOK, NEW f \in Functions, FunctionInv(f), StatusInv(f),
           UserStep(f)
    PROVE  StatusInv(f)'
<1>0. /\ object[f] \in Object /\ object \in [Functions -> Object]
      /\ {object[f].gen, cache[f].gen, work[f].gen} \subseteq Nat
      /\ {object[f].status.observed, work[f].status.observed} \subseteq Nat
  BY Components DEF TypeOK
<1>u. UNCHANGED <<cache, events, queue, work, configVars>>
  BY DEF UserStep, CreateFunction, UpdateSpec, DeleteFunction, Annotate,
         ChangeService, UserFrame
<1>f. \A auto, b : InForce(f, auto, b) => InForce(f, auto, b)'
  BY <1>u DEF InForce, Told, configVars
<1>c. CopyInv(f)' /\ SettingInv(f)'
  BY <1>u, <1>f DEF StatusInv, CopyInv, SettingInv, Busy
\* No status is about the object's new spec.
<1>n. ASSUME object'[f].status = object[f].status,
             object'[f].status.observed # object'[f].gen
      PROVE  StatusInv(f)'
  BY <1>n, <1>u, <1>c DEF StatusInv, StoredInv, Busy
<1>1. CASE CreateFunction(f)
  <2>1. PICK auto \in AutoUpdate :
          object' = [object EXCEPT ![f] =
                      [@ EXCEPT !.live = TRUE, !.gen = object[f].gen + 1,
                                !.auto = auto]]
    BY <1>1 DEF CreateFunction
  <2>2. /\ object'[f].gen = object[f].gen + 1
        /\ object'[f].status = object[f].status
    BY <1>0, <2>1 DEF Object
  <2>3. object[f].status.observed = 0
    BY <1>1 DEF CreateFunction, FunctionInv, DeletedIsBare
  <2> QED BY <1>0, <2>2, <2>3, <1>n
<1>2. CASE UpdateSpec(f)
  <2>1. PICK auto \in AutoUpdate :
          object' = [object EXCEPT ![f] =
                      [@ EXCEPT !.gen = object[f].gen + 1, !.auto = auto]]
    BY <1>2 DEF UpdateSpec
  <2>2. /\ object'[f].gen = object[f].gen + 1
        /\ object'[f].status = object[f].status
    BY <1>0, <2>1 DEF Object
  <2>3. object[f].status.observed <= object[f].gen
    BY <1>0, <1>2
       DEF UpdateSpec, FunctionInv, ObservationsInOrder, VersionsInOrder
  <2> QED BY <1>0, <2>2, <2>3, <1>n
<1>3. CASE DeleteFunction(f)
  <2>1. object'[f].status = NoStatus
    BY <1>0, <1>3 DEF DeleteFunction, NoObject
  <2> QED BY <2>1, <1>c DEF StatusInv, StoredInv, NoStatus, Honest
<1>4. CASE Annotate(f)
  <2>1. /\ object'[f].live = object[f].live /\ object'[f].gen = object[f].gen
        /\ object'[f].auto = object[f].auto
        /\ object'[f].status = object[f].status
    BY <1>0, <1>4 DEF Annotate, Object
  <2> QED BY <2>1, <1>u, <1>f, <1>c DEF StatusInv, StoredInv, Busy
<1>5. CASE ChangeService(f)
  BY <1>5, <1>u, <1>f, <1>c DEF ChangeService, StatusInv, StoredInv, Busy
<1> QED BY <1>1, <1>2, <1>3, <1>4, <1>5 DEF UserStep

\* A version of the spec that the informer delivers passes the predicates, so
\* that a Reconcile is to come; a Reconcile that starts takes over from the
\* stored status.
LEMMA RuntimeKeepsStatus ==
    ASSUME TypeOK, NEW f \in Functions, FunctionInv(f), StatusInv(f),
           Deliver(f) \/ Dispatch(f) \/ Start(f)
    PROVE  StatusInv(f)'
<1>0. /\ cache[f] \in Object /\ work \in [Functions -> Work]
      /\ cache \in [Functions -> Object] /\ cache[f].status \in Status
  BY Components DEF TypeOK
<1>1. CASE Deliver(f)
  <2>1. /\ cache'[f] = object[f]
        /\ f \in events => f \in events'
        /\ PassesPredicate(cache[f], object[f]) => f \in events'
        /\ UNCHANGED <<object, queue, work, configVars>>
    BY <1>0, <1>1 DEF Deliver
  <2>2. Told(f)' \/ cache'[f].live = cache[f].live
    BY <2>1 DEF Told, PassesPredicate
  <2>3. Told(f) => Told(f)'
    BY <2>1 DEF Told
  <2>4. \A auto, b : InForce(f, auto, b) => InForce(f, auto, b)'
    BY <2>1, <2>2, <2>3 DEF InForce, configVars
  <2>5. Busy(f) /\ object[f].live /\ work[f].gen = object[f].gen =>
            work[f].auto = object[f].auto
    BY DEF FunctionInv, SpecOfGeneration
  <2> QED BY <2>1, <2>4, <2>5
          DEF StatusInv, StoredInv, CopyInv, SettingInv, Busy
<1>2. CASE Dispatch(f)
  BY <1>2, StatusFrame DEF Dispatch, Told, configVars
<1>3. CASE Start(f)
  <2>0. work[f].pc = "idle" /\ UNCHANGED <<object, cache, configVars>>
    BY <1>3 DEF Start
  <2>1. CASE cache[f].live
    <3> DEFINE s == InitializeConditions(cache[f].status, cache[f].gen)
    <3>1. {s.deployed, s.middleware, s.ready} = {"Unknown"}
      <4>1. cache[f].gen \in Generations
        BY <1>0 DEF Object
      <4> QED BY <1>0, <4>1, ConditionEffects
    <3> HIDE DEF s
    <3>2. work'[f] = [NoWork EXCEPT !.pc = "source", !.gen = cache[f].gen,
                                    !.auto = cache[f].auto,
                                    !.ann = cache[f].ann, !.status = s]
      BY <1>0, <1>3, <2>1 DEF Start, s
    <3>3. /\ work'[f].pc = "source" /\ work'[f].gen = cache[f].gen
          /\ work'[f].auto = cache[f].auto /\ work'[f].status = s
          /\ work'[f].sent = NoStatus
      BY <3>2 DEF NoWork
    <3>4. Honest(s) /\ s.deployed # "True" /\ s.ready # "True"
      BY <3>1 DEF Honest
    <3> QED BY <2>0, <3>3, <3>4
            DEF StatusInv, StoredInv, CopyInv, SettingInv, Busy
  <2>2. CASE ~cache[f].live
    <3>1. work' = work
      BY <1>3, <2>2 DEF Start
    <3> QED BY <2>0, <2>2, <3>1
            DEF StatusInv, StoredInv, CopyInv, SettingInv, InForce, Busy
  <2> QED BY <2>1, <2>2
<1> QED BY <1>1, <1>2, <1>3

-----------------------------------------------------------------------------
(* The properties.                                                          *)

\* The inductive invariant holds in every reachable state.
THEOREM StatusInvHolds == Spec => [](Inv /\ AllStatusInv)
<1>1. Init => AllStatusInv
  <2> SUFFICES ASSUME Init, NEW f \in Functions PROVE StatusInv(f)
    BY DEF AllStatusInv
  <2>1. /\ object[f] = NoObject /\ cache[f] = NoObject /\ work[f] = NoWork
    BY DEF Init
  <2>2. /\ ~object[f].live /\ object[f].status = NoStatus
        /\ work[f].pc = "idle" /\ work[f].status = NoStatus
    BY <2>1 DEF NoObject, NoWork
  <2>3. ~NoStatus.pending /\ NoStatus.deployed = "Unknown"
    BY DEF NoStatus
  <2> QED BY <2>2, <2>3
          DEF StatusInv, StoredInv, CopyInv, SettingInv, Honest, Busy
<1>2. Inv /\ AllStatusInv /\ [Next]_vars => AllStatusInv'
  <2> SUFFICES ASSUME Inv, AllStatusInv, [Next]_vars, NEW g \in Functions
               PROVE  StatusInv(g)'
    BY DEF AllStatusInv
  <2>0. TypeOK /\ FunctionInv(g) /\ StatusInv(g)
    BY DEF Inv, AllStatusInv
  <2>1. CASE UNCHANGED vars \/ UpdateCli \/ ChangeConfig \/ DeliverConfig
    <3>1. /\ UNCHANGED <<object, cache, work, events, queue>>
          /\ ~configEvent' => ~configEvent /\ configCache' = configCache
      BY <2>1 DEF vars, configVars, UpdateCli, ChangeConfig, DeliverConfig
    <3> QED BY <2>0, <3>1, StatusFrame DEF Told
  <2>2. CASE DispatchConfig
    BY <2>0, <2>2, DispatchConfigKeepsStatus
  <2>3. CASE Restart
    BY <2>0, <2>3, RestartKeepsStatus
  <2>4. ASSUME NEW f \in Functions, f # g,
               \/ UserStep(f) \/ FinishBuild(f) \/ Deliver(f) \/ Dispatch(f)
               \/ Start(f) \/ ReconcileStep(f)
        PROVE  StatusInv(g)'
    <3>1. UNCHANGED configVars
      BY <2>4
         DEF UserStep, CreateFunction, UpdateSpec, DeleteFunction, Annotate,
             ChangeService, UserFrame, FinishBuild, Deliver, Dispatch, Start,
             ReconcileStep, PrepareSource, Describe, ResolveSetting,
             CheckLatest, PreFlush, StartDeploy, AwaitDeploy, Redescribe,
             RemoveAnnotations, FinalFlush, LocalFrame
    <3>2. /\ object'[g] = object[g] /\ cache'[g] = cache[g]
          /\ work'[g] = work[g] /\ (Told(g) => Told(g)')
      BY <2>0, <2>4, OthersLeftAlone
    <3> QED BY <2>0, <3>1, <3>2, StatusFrame DEF configVars
  <2>5. CASE FinishBuild(g)
    BY <2>0, <2>5, StatusFrame DEF FinishBuild, configVars, Told
  <2>6. CASE UserStep(g)
    BY <2>0, <2>6, UserStepKeepsStatus
  <2>7. CASE Deliver(g) \/ Dispatch(g) \/ Start(g)
    BY <2>0, <2>7, RuntimeKeepsStatus
  <2>8. CASE ReconcileStep(g)
    BY <2>0, <2>8, LocalStepsKeepStatus, WritingStepsKeepStatus
       DEF ReconcileStep
  <2> QED BY <2>1, <2>2, <2>3, <2>4, <2>5, <2>6, <2>7, <2>8 DEF Next
<1> QED BY <1>1, <1>2, InvInductive, PTL DEF Spec

\* pendingRebuild is never shown with a Deployed, an up-to-date or a Ready
\* condition that is True, whatever fails or restarts in between.
THEOREM PendingStaysHonest == Spec => []PendingIsHonest
<1>1. AllStatusInv => PendingIsHonest
  BY DEF AllStatusInv, StatusInv, StoredInv, Honest, PendingIsHonest
<1> QED BY <1>1, StatusInvHolds, PTL

\* At rest the auto-update setting that a deployed Function reports is the one
\* in force, whatever the ConfigMap and the Function's own setting have been.
THEOREM SettingIsObserved == Spec => []SettingObserved
<1>1. Inv /\ AllStatusInv => SettingObserved
  <2> SUFFICES ASSUME Inv, AllStatusInv, NEW f \in Functions, Quiescent(f),
                      ConfigQuiescent, object[f].live,
                      object[f].status.deployed = "True"
               PROVE  Setting(object[f].auto, config) =
                          IF object[f].status.auto THEN "on" ELSE "off"
    BY DEF SettingObserved
  <2>1. cache[f] = object[f] /\ ~Busy(f) /\ ~Told(f)
    BY DEF Inv, FunctionInv, NoLagIsEqual, Quiescent, Busy, Told
  <2>2. object[f].status.observed = object[f].gen
    BY <2>1 DEF Inv, FunctionInv, GenerationCovered
  <2>3. InForce(f, object[f].auto, object[f].status.auto)
    BY <2>1, <2>2 DEF AllStatusInv, StatusInv, StoredInv
  <2>4. configCache = config /\ ~configEvent
    BY DEF ConfigQuiescent
  <2> QED BY <2>1, <2>3, <2>4 DEF InForce, OnOff
<1> QED BY <1>1, StatusInvHolds, PTL

-----------------------------------------------------------------------------
(* Retries.                                                                 *)

\* The status of a Reconcile that has come to its end.
Done(s) ==
    /\ s.source = "True"
    /\ \/ s.deployed = "False" /\ s.middleware = "Unknown"
       \/ s.deployed = "True" /\ s.middleware = "True" /\ ~s.pending

\* A status that is not, but is about the present spec, has a Reconcile under
\* way or to come.
UnfinishedIsRetried(f) ==
    /\ object[f].live /\ cache[f].live
    /\ object[f].status.observed = object[f].gen
    /\ ~Done(object[f].status)
    => Told(f) \/ Busy(f)

\* What the working copy has come to; the mid-reconcile flush comes before the
\* end, so that the final one is left out after a failure only.
CopyProgress(f) ==
    LET s == work[f].status IN
    /\ work[f].pc \notin {"idle", "source", "flush"} => s.source = "True"
    /\ work[f].pc \in {"source", "describe"} => s.middleware = "Unknown"
    /\ work[f].pc = "preflush" => s.middleware = "False"
    /\ work[f].pc = "annotations" \/ (work[f].pc = "flush" /\ ~work[f].failed)
          => Done(s)
    /\ ~Done(work[f].sent)

RetryInv(f) == UnfinishedIsRetried(f) /\ CopyProgress(f)

AllRetryInv == \A f \in Functions : RetryInv(f)

\* Which outcomes are the end of a Reconcile.
LEMMA DoneEffects ==
    ASSUME NEW s \in Status, NEW desc \in Service, NEW latest \in Versions,
           NEW b \in BOOLEAN
    PROVE  /\ Done(CalculateReadyCondition(s)) <=> Done(s)
           /\ CalculateReadyCondition(s).source = s.source
           /\ [s EXCEPT !.source = "True"].source = "True"
           /\ [s EXCEPT !.source = "True"].middleware = s.middleware
           /\ s.source = "True" /\ s.middleware = "Unknown" =>
                 Done([s EXCEPT !.deployed = "False"])
           /\ \A ann \in Stamps :
                 ApplyLastDeployed(s, ann).source = s.source
           /\ s.source = "True" => /\ Done(UpToDate(s, desc, b))
                                   /\ Done(Skipped(s, desc, latest))
                                   /\ Done(Rebuilt(s, desc))
           /\ Outdated(s, desc, latest).source = s.source
           /\ Outdated(s, desc, latest).middleware = "False"
<1>1. /\ Done(CalculateReadyCondition(s)) <=> Done(s)
      /\ CalculateReadyCondition(s).source = s.source
  <2>1. PICK c \in {"True", "False"} :
           CalculateReadyCondition(s) = [s EXCEPT !.ready = c]
    BY DEF CalculateReadyCondition
  <2>2. LET r == [s EXCEPT !.ready = c]
        IN  /\ r.source = s.source /\ r.deployed = s.deployed
            /\ r.middleware = s.middleware /\ r.pending = s.pending
    BY DEF Status
  <2> QED BY <2>1, <2>2 DEF Done
<1>2. /\ [s EXCEPT !.source = "True"].source = "True"
      /\ [s EXCEPT !.source = "True"].middleware = s.middleware
      /\ s.source = "True" /\ s.middleware = "Unknown" =>
            Done([s EXCEPT !.deployed = "False"])
  BY DEF Status, Done
<1>3. \A ann \in Stamps : ApplyLastDeployed(s, ann).source = s.source
  BY DEF Status, ApplyLastDeployed, RecordHistoryEvent
<1>4. s.source = "True" => /\ Done(UpToDate(s, desc, b))
                           /\ Done(Skipped(s, desc, latest))
  BY DEF UpToDate, Skipped, Described, MarkServiceStatus, Status, Done
<1>5. s.source = "True" => Done(Rebuilt(s, desc))
  BY DEF Rebuilt, MarkServiceStatus, RecordHistoryEvent, Status, Done
<1>6. /\ Outdated(s, desc, latest).source = s.source
      /\ Outdated(s, desc, latest).middleware = "False"
  BY DEF Outdated, Described, MarkServiceStatus, Status
<1> QED BY <1>1, <1>2, <1>3, <1>4, <1>5, <1>6

\* Everything RetryInv(g) speaks of is left alone, or g has become queued.
LEMMA RetryFrame ==
    ASSUME NEW g \in Functions, RetryInv(g),
           object'[g] = object[g], cache'[g] = cache[g], work'[g] = work[g],
           Told(g) => Told(g)'
    PROVE  RetryInv(g)'
BY DEF RetryInv, UnfinishedIsRetried, CopyProgress, Busy

\* The reconcile steps without a write.
LEMMA LocalStepsKeepRetry ==
    ASSUME TypeOK, NEW f \in Functions, FunctionInv(f), RetryInv(f),
           \/ PrepareSource(f) \/ Describe(f) \/ ResolveSetting(f)
           \/ CheckLatest(f) \/ StartDeploy(f) \/ AwaitDeploy(f)
           \/ Redescribe(f)
    PROVE  RetryInv(f)'
<1> DEFINE s == work[f].status
<1>0. /\ work[f] \in Work /\ s \in Status /\ work \in [Functions -> Work]
      /\ work[f].desc \in Service /\ work[f].ann \in Stamps
      /\ work[f].enabled \in BOOLEAN /\ cli \in Versions
      /\ service[f] \in Service
  BY DEF TypeOK, Work
<1>l. LocalEffect(f)
  BY LocalSteps
<1>i. /\ work[f].pc \notin {"idle", "source", "flush"} => s.source = "True"
      /\ work[f].pc \in {"source", "describe"} => s.middleware = "Unknown"
  BY DEF RetryInv, CopyProgress
<1> HIDE DEF s
\* The step leads to step pc with status t.
<1>p. ASSUME NEW pc, NEW t, work'[f].pc = pc, work'[f].status = t,
             pc \notin {"idle", "source", "flush"} => t.source = "True",
             pc \in {"source", "describe"} => t.middleware = "Unknown",
             pc = "preflush" => t.middleware = "False",
             pc = "annotations" => Done(t)
      PROVE  RetryInv(f)'
  <2>1. /\ object' = object /\ cache' = cache /\ Busy(f)'
        /\ work'[f].sent = work[f].sent
        /\ work'[f].pc = "flush" => work'[f].failed
    BY <1>l DEF LocalEffect, Busy
  <2>2. CopyProgress(f)'
    BY <1>p, <2>1 DEF RetryInv, CopyProgress
  <2> QED BY <2>1, <2>2 DEF RetryInv, UnfinishedIsRetried
<1>g. ASSUME NEW pc \in Steps, NEW t, Goto(f, pc, t)
      PROVE  work'[f].pc = pc /\ work'[f].status = t
  BY <1>0, <1>g DEF Goto, Work
<1>a. ASSUME NEW t, Abort(f, t)
      PROVE  RetryInv(f)'
  <2>1. work'[f].pc = "flush" /\ work'[f].status = t
    BY <1>0, <1>a DEF Abort, Work
  <2> QED BY <2>1, <1>p
<1>1. CASE PrepareSource(f)
  <2>1. CASE /\ work[f].pc = "source"
             /\ Goto(f, "describe", [s EXCEPT !.source = "True"])
    <3>1. LET t == [s EXCEPT !.source = "True"]
          IN  t.source = "True" /\ t.middleware = "Unknown"
      BY <1>0, <1>i, <2>1, DoneEffects
    <3> QED BY <3>1, <2>1, <1>g, <1>p DEF Steps
  <2> QED BY <1>1, <2>1, <1>a DEF PrepareSource, s
<1>2. CASE Describe(f)
  <2>0. s.source = "True" /\ s.middleware = "Unknown"
    BY <1>2, <1>i DEF Describe
  <2>1. CASE Goto(f, "annotations", [s EXCEPT !.deployed = "False"])
    <3>1. Done([s EXCEPT !.deployed = "False"])
      BY <1>0, <2>0, DoneEffects
    <3>2. \A t : Done(t) => t.source = "True"
      BY DEF Done
    <3> QED BY <3>1, <3>2, <2>1, <1>g, <1>p DEF Steps
  <2>2. CASE work' = [work EXCEPT ![f] =
               [@ EXCEPT !.pc = "setting", !.desc = service[f],
                         !.status = ApplyLastDeployed(s, work[f].ann)]]
    <3> DEFINE t == ApplyLastDeployed(s, work[f].ann)
    <3>1. t.source = "True"
      BY <1>0, <2>0, DoneEffects
    <3> HIDE DEF t
    <3>2. work'[f] = [work[f] EXCEPT !.pc = "setting", !.desc = service[f],
                                     !.status = t]
      BY <1>0, <2>2 DEF t
    <3>3. work'[f].pc = "setting" /\ work'[f].status = t
      BY <1>0, <3>2 DEF Work
    <3> QED BY <3>1, <3>3, <1>p
  <2> QED BY <1>2, <2>1, <2>2, <1>a DEF Describe, s
<1>3. CASE ResolveSetting(f)
  <2>0. s.source = "True"
    BY <1>3, <1>i DEF ResolveSetting
  <2>1. ASSUME NEW b,
               work' = [work EXCEPT ![f] =
                          [@ EXCEPT !.pc = "latest", !.enabled = b]]
        PROVE  RetryInv(f)'
    <3>1. work'[f] = [work[f] EXCEPT !.pc = "latest", !.enabled = b]
      BY <1>0, <2>1
    <3>2. work'[f].pc = "latest" /\ work'[f].status = s
      BY <1>0, <3>1 DEF Work, s
    <3> QED BY <2>0, <3>2, <1>p
  <2> QED BY <1>3, <2>1, <1>a DEF ResolveSetting
<1>4. CASE CheckLatest(f)
  <2>0. s.source = "True"
    BY <1>4, <1>i DEF CheckLatest
  <2>1. /\ Done(UpToDate(s, work[f].desc, work[f].enabled))
        /\ Done(Skipped(s, work[f].desc, cli))
        /\ Outdated(s, work[f].desc, cli).source = "True"
        /\ Outdated(s, work[f].desc, cli).middleware = "False"
    BY <1>0, <2>0, DoneEffects
  <2>2. \A t : Done(t) /\ Goto(f, "annotations", t) => RetryInv(f)'
    <3>1. \A t : Done(t) => t.source = "True"
      BY DEF Done
    <3> QED BY <3>1, <1>g, <1>p DEF Steps
  <2>3. CASE Goto(f, "preflush", Outdated(s, work[f].desc, cli))
    BY <2>1, <2>3, <1>g, <1>p DEF Steps
  <2> QED BY <1>4, <2>1, <2>2, <2>3, <1>a DEF CheckLatest, s
<1>5. CASE StartDeploy(f)
  <2>0. s.source = "True"
    BY <1>5, <1>i DEF StartDeploy
  <2>1. CASE work' = [work EXCEPT ![f] = [@ EXCEPT !.pc = "wait", !.job = cli]]
    <3>1. work'[f] = [work[f] EXCEPT !.pc = "wait", !.job = cli]
      BY <1>0, <2>1
    <3>2. work'[f].pc = "wait" /\ work'[f].status = s
      BY <1>0, <3>1 DEF Work, s
    <3> QED BY <2>0, <3>2, <1>p
  <2> QED BY <1>5, <2>1, <1>a DEF StartDeploy
<1>6. CASE AwaitDeploy(f)
  <2>0. s.source = "True"
    BY <1>6, <1>i DEF AwaitDeploy
  <2>1. CASE Goto(f, "redescribe", s)
    BY <2>0, <2>1, <1>g, <1>p DEF Steps
  <2> QED BY <1>6, <2>1, <1>a DEF AwaitDeploy, s
<1>7. CASE Redescribe(f)
  <2>0. s.source = "True"
    BY <1>7, <1>i DEF Redescribe
  <2>1. CASE Goto(f, "annotations", Rebuilt(s, service[f]))
    <3>1. Done(Rebuilt(s, service[f]))
      BY <1>0, <2>0, DoneEffects
    <3>2. \A t : Done(t) => t.source = "True"
      BY DEF Done
    <3> QED BY <3>1, <3>2, <2>1, <1>g, <1>p DEF Steps
  <2> QED BY <1>7, <2>1, <1>a DEF Redescribe, s
<1> QED BY <1>1, <1>2, <1>3, <1>4, <1>5, <1>6, <1>7

\* The reconcile steps with a write. The mid-reconcile flush stores a status
\* that is not done; the final one stores one that is, or the key comes back.
LEMMA WritingStepsKeepRetry ==
    ASSUME TypeOK, NEW f \in Functions, RetryInv(f),
           PreFlush(f) \/ RemoveAnnotations(f) \/ FinalFlush(f)
    PROVE  RetryInv(f)'
<1> DEFINE s == work[f].status
           r == CalculateReadyCondition(s)
<1>0. /\ object[f] \in Object /\ work[f] \in Work /\ s \in Status
      /\ object \in [Functions -> Object] /\ work \in [Functions -> Work]
      /\ work[f].failed \in BOOLEAN
  BY Components DEF TypeOK, Work
<1>r. (Done(r) <=> Done(s)) /\ r.source = s.source
  <2>1. PICK desc \in Service, latest \in Versions, b \in BOOLEAN : TRUE
    BY <1>0 DEF TypeOK
  <2> QED BY <1>0, <2>1, DoneEffects
<1> HIDE DEF r
<1>1. CASE PreFlush(f)
  <2>0. work[f].pc = "preflush"
    BY <1>1 DEF PreFlush
  <2>1. s.source = "True" /\ s.middleware = "False"
    BY <2>0 DEF RetryInv, CopyProgress
  <2>2. r.source = "True" /\ ~Done(r)
    BY <1>r, <2>1 DEF Done
  <2>3. /\ work'[f].pc = "deploy" /\ work'[f].status = r
        /\ work'[f].sent \in {work[f].sent, r}
    <3>1. CASE work' = [work EXCEPT ![f] =
                          [@ EXCEPT !.pc = "deploy", !.status = r, !.sent = r]]
      BY <1>0, <3>1 DEF Work
    <3>2. CASE Goto(f, "deploy", r)
      BY <1>0, <3>2 DEF Work, Goto
    <3> QED BY <1>1, <3>1, <3>2 DEF PreFlush, r
  <2> QED BY <2>2, <2>3 DEF RetryInv, UnfinishedIsRetried, CopyProgress, Busy
<1>2. CASE RemoveAnnotations(f)
  <2>0. work[f].pc = "annotations" /\ Done(s)
    BY <1>2 DEF RemoveAnnotations, RetryInv, CopyProgress
  <2>1. /\ work'[f].pc = "flush" /\ work'[f].status = s
        /\ work'[f].sent = work[f].sent
    <3>1. CASE Goto(f, "flush", s)
      BY <1>0, <3>1 DEF Work, Goto
    <3>2. CASE Abort(f, s)
      BY <1>0, <3>2 DEF Work, Abort
    <3> QED BY <1>2, <3>1, <3>2 DEF RemoveAnnotations
  <2> QED BY <2>0, <2>1 DEF RetryInv, UnfinishedIsRetried, CopyProgress, Busy
<1>3. CASE FinalFlush(f)
  <2>0. ~work[f].failed => Done(r)
    BY <1>3, <1>r DEF FinalFlush, RetryInv, CopyProgress
  <2>w. ASSUME NEW err \in BOOLEAN, Return(f, err)
        PROVE  /\ work'[f] = NoWork
               /\ err => Told(f)'
    BY <1>0, <2>w DEF Return, Told
  <2>n. work'[f] = NoWork
    BY <1>0, <1>3, <2>w DEF FinalFlush
  <2>c. CopyProgress(f)'
    BY <2>n DEF CopyProgress, NoWork, NoStatus, Done
  <2>1. CASE r = work[f].sent /\ Return(f, work[f].failed)
    <3>1. ~Done(r)
      BY <2>1 DEF RetryInv, CopyProgress
    <3> QED BY <1>0, <2>0, <2>1, <2>c, <2>w, <3>1
            DEF RetryInv, UnfinishedIsRetried
  <2>2. CASE /\ object' = [object EXCEPT ![f].status = r]
             /\ Return(f, work[f].failed)
    <3>1. object'[f].status = r
      BY <1>0, <2>2 DEF Object
    <3> QED BY <1>0, <2>0, <2>2, <2>c, <2>w, <3>1
            DEF RetryInv, UnfinishedIsRetried
  <2>3. CASE Return(f, TRUE)
    BY <2>3, <2>c, <2>w DEF RetryInv, UnfinishedIsRetried
  <2> QED BY <1>3, <2>1, <2>2, <2>3 DEF FinalFlush, r
<1> QED BY <1>1, <1>2, <1>3

\* A new spec is one that no status is about.
LEMMA UserStepKeepsRetry ==
    ASSUME TypeOK, NEW f \in Functions, FunctionInv(f), RetryInv(f),
           UserStep(f)
    PROVE  RetryInv(f)'
<1>0. /\ object[f] \in Object /\ object \in [Functions -> Object]
      /\ {object[f].gen, cache[f].gen} \subseteq Nat
      /\ object[f].status.observed \in Nat
  BY Components DEF TypeOK
<1>u. UNCHANGED <<cache, events, queue, work>>
  BY DEF UserStep, CreateFunction, UpdateSpec, DeleteFunction, Annotate,
         ChangeService, UserFrame
<1>c. CopyProgress(f)'
  BY <1>u DEF RetryInv, CopyProgress
<1>n. ASSUME object'[f].live => object'[f].status.observed # object'[f].gen
      PROVE  RetryInv(f)'
  BY <1>n, <1>c DEF RetryInv, UnfinishedIsRetried
<1>1. CASE CreateFunction(f)
  <2>1. PICK auto \in AutoUpdate :
          object' = [object EXCEPT ![f] =
                      [@ EXCEPT !.live = TRUE, !.gen = object[f].gen + 1,
                                !.auto = auto]]
    BY <1>1 DEF CreateFunction
  <2>2. /\ object'[f].gen = object[f].gen + 1
        /\ object'[f].status = object[f].status
    BY <1>0, <2>1 DEF Object
  <2>3. object[f].status.observed = 0
    BY <1>1 DEF CreateFunction, FunctionInv, DeletedIsBare
  <2> QED BY <1>0, <2>2, <2>3, <1>n
<1>2. CASE UpdateSpec(f)
  <2>1. PICK auto \in AutoUpdate :
          object' = [object EXCEPT ![f] =
                      [@ EXCEPT !.gen = object[f].gen + 1, !.auto = auto]]
    BY <1>2 DEF UpdateSpec
  <2>2. /\ object'[f].gen = object[f].gen + 1
        /\ object'[f].status = object[f].status
    BY <1>0, <2>1 DEF Object
  <2>3. object[f].status.observed <= object[f].gen
    BY <1>0, <1>2
       DEF UpdateSpec, FunctionInv, ObservationsInOrder, VersionsInOrder
  <2> QED BY <1>0, <2>2, <2>3, <1>n
<1>3. CASE DeleteFunction(f)
  <2>1. ~object'[f].live
    BY <1>0, <1>3 DEF DeleteFunction, NoObject
  <2> QED BY <2>1, <1>n
<1>4. CASE Annotate(f)
  <2>1. /\ object'[f].live = object[f].live /\ object'[f].gen = object[f].gen
        /\ object'[f].status = object[f].status
    BY <1>0, <1>4 DEF Annotate, Object
  <2> QED BY <2>1, <1>u, <1>c DEF RetryInv, UnfinishedIsRetried, Told, Busy
<1>5. CASE ChangeService(f)
  BY <1>5, <1>u, RetryFrame DEF ChangeService, Told
<1> QED BY <1>1, <1>2, <1>3, <1>4, <1>5 DEF UserStep

\* A Function that the informer shows for the first time passes the predicates;
\* a Reconcile that starts is under way.
LEMMA RuntimeKeepsRetry ==
    ASSUME TypeOK, NEW f \in Functions, RetryInv(f),
           Deliver(f) \/ Dispatch(f) \/ Start(f)
    PROVE  RetryInv(f)'
<1>0. /\ cache[f] \in Object /\ work \in [Functions -> Work]
      /\ cache \in [Functions -> Object] /\ cache[f].status \in Status
  BY Components DEF TypeOK
<1>1. CASE Deliver(f)
  <2>1. /\ cache'[f] = object[f]
        /\ f \in events => f \in events'
        /\ PassesPredicate(cache[f], object[f]) => f \in events'
        /\ UNCHANGED <<object, queue, work>>
    BY <1>0, <1>1 DEF Deliver
  <2>2. Told(f)' \/ cache'[f].live = cache[f].live
    BY <2>1 DEF Told, PassesPredicate
  <2>3. Told(f) => Told(f)'
    BY <2>1 DEF Told
  <2> QED BY <2>1, <2>2, <2>3
          DEF RetryInv, UnfinishedIsRetried, CopyProgress, Busy
<1>2. CASE Dispatch(f)
  BY <1>2, RetryFrame DEF Dispatch, Told
<1>3. CASE Start(f)
  <2>0. work[f].pc = "idle" /\ UNCHANGED <<object, cache>>
    BY <1>3 DEF Start
  <2>1. CASE cache[f].live
    <3> DEFINE s == InitializeConditions(cache[f].status, cache[f].gen)
    <3>1. {s.deployed, s.middleware, s.ready} = {"Unknown"}
      <4>1. cache[f].gen \in Generations
        BY <1>0 DEF Object
      <4> QED BY <1>0, <4>1, ConditionEffects
    <3> HIDE DEF s
    <3>2. work'[f] = [NoWork EXCEPT !.pc = "source", !.gen = cache[f].gen,
                                    !.auto = cache[f].auto,
                                    !.ann = cache[f].ann, !.status = s]
      BY <1>0, <1>3, <2>1 DEF Start, s
    <3>3. /\ work'[f].pc = "source" /\ work'[f].status = s
          /\ work'[f].sent = NoStatus
      BY <3>2 DEF NoWork
    <3>4. s.middleware = "Unknown" /\ ~Done(NoStatus)
      BY <3>1 DEF Done, NoStatus
    <3> QED BY <3>3, <3>4 DEF RetryInv, UnfinishedIsRetried, CopyProgress, Busy
  <2>2. CASE ~cache[f].live
    <3>1. work' = work
      BY <1>3, <2>2 DEF Start
    <3> QED BY <2>0, <2>2, <3>1
            DEF RetryInv, UnfinishedIsRetried, CopyProgress, Busy
  <2> QED BY <2>1, <2>2
<1> QED BY <1>1, <1>2, <1>3

\* The inductive invariant holds in every reachable state.
THEOREM RetryInvHolds == Spec => [](Inv /\ AllRetryInv)
<1>1. Init => AllRetryInv
  <2> SUFFICES ASSUME Init, NEW f \in Functions PROVE RetryInv(f)
    BY DEF AllRetryInv
  <2>1. ~object[f].live /\ work[f] = NoWork
    BY DEF Init, NoObject
  <2>2. /\ work[f].pc = "idle" /\ work[f].sent = NoStatus /\ ~Done(NoStatus)
    BY <2>1 DEF NoWork, NoStatus, Done
  <2> QED BY <2>1, <2>2 DEF RetryInv, UnfinishedIsRetried, CopyProgress
<1>2. Inv /\ AllRetryInv /\ [Next]_vars => AllRetryInv'
  <2> SUFFICES ASSUME Inv, AllRetryInv, [Next]_vars, NEW g \in Functions
               PROVE  RetryInv(g)'
    BY DEF AllRetryInv
  <2>0. TypeOK /\ FunctionInv(g) /\ RetryInv(g)
    BY DEF Inv, AllRetryInv
  <2>1. CASE \/ UNCHANGED vars \/ UpdateCli \/ ChangeConfig \/ DeliverConfig
             \/ DispatchConfig
    <3>1. UNCHANGED <<object, cache, work, events>> /\ queue \subseteq queue'
      BY <2>1 DEF vars, UpdateCli, ChangeConfig, DeliverConfig, DispatchConfig
    <3> QED BY <2>0, <3>1, RetryFrame DEF Told
  <2>2. CASE Restart
    <3>1. /\ object' = object /\ work'[g] = NoWork
          /\ object[g].live => Told(g)'
      BY <2>2 DEF Restart, Told
    <3> QED BY <3>1 DEF RetryInv, UnfinishedIsRetried, CopyProgress, NoWork,
                        NoStatus, Done
  <2>3. ASSUME NEW f \in Functions, f # g,
               \/ UserStep(f) \/ FinishBuild(f) \/ Deliver(f) \/ Dispatch(f)
               \/ Start(f) \/ ReconcileStep(f)
        PROVE  RetryInv(g)'
    BY <2>0, <2>3, OthersLeftAlone, RetryFrame
  <2>4. CASE FinishBuild(g)
    BY <2>0, <2>4, RetryFrame DEF FinishBuild, Told
  <2>5. CASE UserStep(g)
    BY <2>0, <2>5, UserStepKeepsRetry
  <2>6. CASE Deliver(g) \/ Dispatch(g) \/ Start(g)
    BY <2>0, <2>6, RuntimeKeepsRetry
  <2>7. CASE ReconcileStep(g)
    BY <2>0, <2>7, LocalStepsKeepRetry, WritingStepsKeepRetry
       DEF ReconcileStep
  <2> QED BY <2>1, <2>2, <2>3, <2>4, <2>5, <2>6, <2>7 DEF Next
<1> QED BY <1>1, <1>2, InvInductive, PTL DEF Spec

\* What fails is tried again until it is done: a status at rest is that of a
\* Reconcile that has come to its end, whatever has been flushed half-way, lost
\* in a conflict or cut off by a restart in between.
THEOREM FailuresStayRetried == Spec => []FailuresAreRetried
<1>1. Inv /\ AllRetryInv => FailuresAreRetried
  <2> SUFFICES ASSUME Inv, AllRetryInv, NEW f \in Functions, Quiescent(f),
                      object[f].live
               PROVE  Done(object[f].status)
    BY DEF FailuresAreRetried, Done
  <2>1. cache[f] = object[f] /\ ~Busy(f) /\ ~Told(f)
    BY DEF Inv, FunctionInv, NoLagIsEqual, Quiescent, Busy, Told
  <2>2. object[f].status.observed = object[f].gen
    BY <2>1 DEF Inv, FunctionInv, GenerationCovered
  <2> QED BY <2>1, <2>2 DEF AllRetryInv, RetryInv, UnfinishedIsRetried
<1> QED BY <1>1, RetryInvHolds, PTL
=============================================================================
