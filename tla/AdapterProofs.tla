--------------------------- MODULE AdapterProofs ----------------------------
(***************************************************************************)
(* Theorems about AdapterConfig and NotificationServer, for every set of   *)
(* ConfigMaps and Secrets, all flags, and every bound.                     *)
(***************************************************************************)
EXTENDS NotificationServer, TLAPS

\* A loadConfig that has passed a check has what the check has shown.
LoadsAreValid ==
    \A l \in Loaders :
        /\ load[l].pc \in {"secret", "config", "kafka"} => Valid(load[l].cm)
        /\ load[l].pc = "secret" => load[l].cm.ref # NoSecret

ProviderInv == ProviderTypeOK /\ LoadsAreValid /\ WatchFollowsReference

-----------------------------------------------------------------------------
(* The Provider.                                                            *)

\* A valid ConfigMap parses into a configuration.
LEMMA ParseType ==
    ASSUME NEW cm \in ConfigMaps \cup {NoConfigMap}, Valid(cm)
    PROVE  /\ cm \in ConfigMaps
           /\ cm.ref \in References
           /\ Parse(cm) \in [adapters : Nat, mode : {"http", "kafka"},
                             brokers : Nat]
BY ConfigMapsAssumption, LimitsAssumption DEF Valid, Parse

\* Spending a disturbance keeps the type of spent.
LEMMA SpendType ==
    ASSUME ProviderTypeOK, NEW k \in Disturbances, Spend(k)
    PROVE  spent' \in [Disturbances -> Nat]
BY DEF ProviderTypeOK, Spend

LEMMA ProviderInitInv == ProviderInit => ProviderInv
<1> SUFFICES ASSUME ProviderInit PROVE ProviderInv
  OBVIOUS
<1>1. Content(configMap.ref) \in Contents \cup {0} /\ configMap.ref \in References
  BY ParseType, SecretsAssumption DEF ProviderInit, Loadable, Content, References
<1>2. Parse(configMap) \in [adapters : Nat, mode : {"http", "kafka"}, brokers : Nat]
  BY ParseType DEF ProviderInit, Loadable
<1>3. ProviderTypeOK
  BY <1>1, <1>2 DEF ProviderTypeOK, ProviderInit, TopOfLoop, Idle, References
<1>4. LoadsAreValid
  BY DEF LoadsAreValid, ProviderInit, Idle
<1>5. WatchFollowsReference
  BY DEF WatchFollowsReference, ProviderInit, TopOfLoop
<1> QED
  BY <1>3, <1>4, <1>5 DEF ProviderInv

\* The administrator changes neither load nor what WatchFollowsReference is
\* about.
LEMMA AdministratorKeepsInv ==
    ASSUME ProviderInv,
           ChangeConfigMap \/ \E n \in Secrets : ChangeSecret(n)
    PROVE  ProviderInv'
<1> USE DEF ProviderInv, Disturbances
<1>1. CASE ChangeConfigMap
  <2>1. ProviderTypeOK'
    BY <1>1, SpendType
    DEF ChangeConfigMap, ProviderTypeOK, sharedVars, channelVars
  <2> QED
    BY <1>1, <2>1
    DEF ChangeConfigMap, LoadsAreValid, WatchFollowsReference, sharedVars, Valid
<1>2. ASSUME NEW n \in Secrets, ChangeSecret(n) PROVE ProviderInv'
  <2>1. spent' \in [Disturbances -> Nat]
    BY <1>2, SpendType DEF ChangeSecret
  <2>2. PICK c \in Contents \cup {0} :
          /\ secret' = [secret EXCEPT ![n] = c]
          /\ watch' = IF watch.state = "open" /\ watch.on = n /\ c # 0
                      THEN [watch EXCEPT !.events = @ + 1] ELSE watch
    BY <1>2 DEF ChangeSecret
  <2>3. /\ watch' \in [state : {"top", "wait", "open"}, on : References,
                       events : Nat]
        /\ watch'.state = watch.state /\ watch'.on = watch.on
    BY <2>2 DEF ProviderTypeOK
  <2>4. ProviderTypeOK'
    BY <1>2, <2>1, <2>2, <2>3
    DEF ChangeSecret, ProviderTypeOK, sharedVars, channelVars
  <2> QED
    BY <1>2, <2>3, <2>4
    DEF ChangeSecret, LoadsAreValid, WatchFollowsReference, sharedVars, Valid
<1> QED
  BY <1>1, <1>2

\* The goroutines take events and signals, and reopen their watches.
LEMMA WatchKeepsInv ==
    ASSUME ProviderInv,
           \/ ConfigMapEvent \/ ReopenConfigMapWatch
           \/ SecretWatchStep \/ CloseSecretWatch
    PROVE  ProviderInv'
<1> USE DEF ProviderInv, References, TopOfLoop, Loading, Idle, Loaders,
            clusterVars, sharedVars, channelVars
<1>1. CASE ConfigMapEvent
  BY <1>1
  DEF ConfigMapEvent, ProviderTypeOK, LoadsAreValid, WatchFollowsReference, Valid
<1>2. CASE ReopenConfigMapWatch
  BY <1>2
  DEF ReopenConfigMapWatch, ProviderTypeOK, LoadsAreValid,
      WatchFollowsReference, Valid
<1>3. CASE WatchSecret
  BY <1>3
  DEF WatchSecret, ProviderTypeOK, LoadsAreValid, WatchFollowsReference, Valid
<1>4. CASE TakeReloadSignal
  <2>1. ProviderTypeOK'
    BY <1>4 DEF TakeReloadSignal, ProviderTypeOK
  <2>2. LoadsAreValid'
    BY <1>4 DEF TakeReloadSignal, LoadsAreValid, Valid
  <2>3. watch'.state = "top" \/ watch'.on = kafka'.ref
    BY <1>4 DEF TakeReloadSignal
  <2> QED
    BY <2>1, <2>2, <2>3 DEF WatchFollowsReference
<1>5. CASE SecretEvent
  BY <1>5
  DEF SecretEvent, ProviderTypeOK, LoadsAreValid, WatchFollowsReference, Valid
<1>6. CASE CloseSecretWatch
  BY <1>6
  DEF CloseSecretWatch, ProviderTypeOK, LoadsAreValid, WatchFollowsReference,
      Valid
<1> QED
  BY <1>1, <1>2, <1>3, <1>4, <1>5, <1>6 DEF SecretWatchStep

\* A step of loadConfig: what it writes is parsed from what it has checked,
\* and between the write of kafka and the signal its pc tells that a signal
\* will come.
LEMMA LoadKeepsInv ==
    ASSUME ProviderInv, NEW l \in Loaders, LoadStep(l) \/ GetFails(l)
    PROVE  ProviderInv'
<1> USE DEF ProviderInv, References, Idle, LoadFrame, Goto, Abandon,
            clusterVars, watchVars, sharedVars, channelVars
<1>1. CASE GetConfigMap(l)
  <2>1. ProviderTypeOK' /\ LoadsAreValid'
    BY <1>1, SecretsAssumption
    DEF GetConfigMap, ProviderTypeOK, LoadsAreValid, Valid, Parse
  <2> QED
    BY <1>1, <2>1 DEF GetConfigMap, WatchFollowsReference, ProviderTypeOK
<1>2. CASE GetSecret(l)
  <2>1. load[l].cm \in ConfigMaps /\ load[l].cm.ref \in Secrets
    BY <1>2, ParseType DEF GetSecret, LoadsAreValid, ProviderTypeOK
  <2>2. secret[load[l].cm.ref] \in Contents \cup {0}
    BY <2>1 DEF ProviderTypeOK
  <2>3. ProviderTypeOK' /\ LoadsAreValid'
    BY <1>2, <2>2 DEF GetSecret, ProviderTypeOK, LoadsAreValid, Valid, Parse
  <2> QED
    BY <1>2, <2>3 DEF GetSecret, WatchFollowsReference, ProviderTypeOK
<1>3. CASE SetConfig(l)
  <2>1. Parse(load[l].cm) \in [adapters : Nat, mode : {"http", "kafka"},
                               brokers : Nat]
    BY <1>3, ParseType DEF SetConfig, LoadsAreValid, ProviderTypeOK
  <2>2. ProviderTypeOK'
    BY <1>3, <2>1 DEF SetConfig, ProviderTypeOK
  <2>3. LoadsAreValid'
    BY <1>3 DEF SetConfig, ProviderTypeOK, LoadsAreValid, Valid, Parse
  <2> QED
    BY <1>3, <2>2, <2>3 DEF SetConfig, WatchFollowsReference, ProviderTypeOK
<1>4. CASE SetKafka(l)
  <2>1. load[l].cm.ref \in References
    BY <1>4, ParseType DEF SetKafka, LoadsAreValid, ProviderTypeOK
  <2>2. ProviderTypeOK'
    BY <1>4, <2>1 DEF SetKafka, ProviderTypeOK
  <2>3. LoadsAreValid'
    BY <1>4 DEF SetKafka, ProviderTypeOK, LoadsAreValid, Valid, Parse
  <2>4. load'[l].pc = "notify"
    BY <1>4 DEF SetKafka, ProviderTypeOK
  <2> QED
    BY <2>2, <2>3, <2>4 DEF WatchFollowsReference
<1>5. CASE NotifySubscribers(l)
  <2>1. ProviderTypeOK' /\ LoadsAreValid'
    BY <1>5 DEF NotifySubscribers, ProviderTypeOK, LoadsAreValid, Valid, Parse
  <2> QED
    BY <1>5, <2>1 DEF NotifySubscribers, WatchFollowsReference, ProviderTypeOK
<1>6. CASE SignalReload(l)
  <2>1. ProviderTypeOK' /\ LoadsAreValid'
    BY <1>6 DEF SignalReload, ProviderTypeOK, LoadsAreValid, Valid, Parse
  <2> QED
    BY <1>6, <2>1 DEF SignalReload, WatchFollowsReference
<1>7. CASE GetFails(l)
  <2>1. spent' \in [Disturbances -> Nat]
    BY <1>7, SpendType DEF GetFails, Disturbances
  <2>2. ProviderTypeOK' /\ LoadsAreValid'
    BY <1>7, <2>1 DEF GetFails, ProviderTypeOK, LoadsAreValid, Valid, Parse
  <2> QED
    BY <1>7, <2>2 DEF GetFails, WatchFollowsReference, ProviderTypeOK
<1> QED
  BY <1>1, <1>2, <1>3, <1>4, <1>5, <1>6, <1>7 DEF LoadStep

\* The subscriber touches its channel only.
LEMMA SubscriberKeepsInv ==
    ASSUME ProviderInv, Subscribe \/ Receive \/ UNCHANGED providerVars
    PROVE  ProviderInv'
BY DEF ProviderInv, ProviderTypeOK, LoadsAreValid, WatchFollowsReference,
       Valid, Subscribe, Receive, providerVars, clusterVars, watchVars,
       sharedVars, channelVars

LEMMA ProviderStepInv ==
    ProviderInv /\ [ProviderNext \/ Subscribe \/ Receive]_providerVars
        => ProviderInv'
BY AdministratorKeepsInv, WatchKeepsInv, LoadKeepsInv, SubscriberKeepsInv
DEF ProviderNext

THEOREM ProviderInvHolds == ProviderSpec => []ProviderInv
BY ProviderInitInv, ProviderStepInv, PTL DEF ProviderSpec

\* The Secret watch follows the reference, in every behaviour of the Provider:
\* the coalesced reloadSignal is enough.
THEOREM SecretWatchFollows == ProviderSpec => []WatchFollowsReference
<1>1. ProviderInv => WatchFollowsReference
  BY DEF ProviderInv
<1> QED
  BY <1>1, ProviderInvHolds, PTL

-----------------------------------------------------------------------------
(* The NotificationServer.                                                  *)

\* Every step of the composition is one of the Provider or leaves it alone.
LEMMA StepOfProvider ==
    [Next]_vars => [ProviderNext \/ Subscribe \/ Receive]_providerVars
BY DEF Next, vars, SupStep, Started, SnapSettings, SnapFingerprint, TakeChange,
       NewSettings, Compare, AwaitStop, TakeError, EndBackoff, RunnerStep,
       CreateProducer, CreateConsumer, Listen, Stop, Fail, Exit, BeginRequest,
       EndRequest

\* The composition implements the Provider with an arbitrary subscriber, so
\* that what is proved of the Provider holds beside the NotificationServer.
THEOREM ServerImplementsProvider == Spec => ProviderSpec
<1>1. Init => ProviderInit
  BY DEF Init
<1> QED
  BY <1>1, StepOfProvider, PTL DEF Spec, ProviderSpec

-----------------------------------------------------------------------------
(* RunnerIsCurrent.                                                         *)

\* A change that the supervisor has still to see.
Unseen == changes \/ Writing

\* What the supervisor has read is what the Provider has, or there is a change
\* to come. A notification that is taken counts until the next comparison:
\* from "newsettings" on the snapshot may be an old one, but then the new
\* settings are compared with it.
ServerInv ==
    /\ sup.pc # "subscribe" => subscribed
    /\ sup.pc \in {"key", "watch"} =>
         Unseen \/ sup.snap.settings = Notifications(config)
    /\ sup.pc = "watch" =>
         \/ Unseen
         \/ UsesKafka(sup.snap.settings) => sup.snap.key = kafka
    /\ sup.pc = "newkey" =>
         Unseen \/ sup.new.settings = Notifications(config)
    /\ sup.pc \in {"watch", "newsettings", "newkey"} =>
         runner.settings = sup.snap.settings

Inv == TypeOK /\ ServerInv

LEMMA ServerInvImplies == ServerInv => RunnerIsCurrent
BY DEF ServerInv, RunnerIsCurrent, Unseen

LEMMA NotificationsType ==
    ASSUME ProviderTypeOK
    PROVE  Notifications(config) \in Settings
BY DEF ProviderTypeOK, Notifications, Settings

LEMMA KafkaType == ASSUME ProviderTypeOK PROVE kafka \in KafkaValues
BY DEF ProviderTypeOK, KafkaValues

LEMMA InitInv == Init => Inv
<1>1. NoKafka \in KafkaValues /\ NoSnapshot \in Snapshots
  BY DEF NoKafka, NoSnapshot, KafkaValues, Snapshots, Settings, References
<1> QED
  BY <1>1, ProviderInitInv
  DEF Init, Inv, TypeOK, ServerInv, ProviderInv, NoSnapshot, Snapshots

\* The types of the supervisor and of the runner.
LEMMA StepType ==
    ASSUME TypeOK, ProviderTypeOK', [Next]_vars
    PROVE  TypeOK'
<1> USE DEF TypeOK, runnerVars, Snapshots
<1>1. Notifications(config) \in Settings /\ kafka \in KafkaValues
  BY NotificationsType, KafkaType
<1>2. NoKafka \in KafkaValues /\ NoSnapshot \in Snapshots
  BY DEF NoKafka, NoSnapshot, KafkaValues, Snapshots, Settings, References
<1>3. CASE UNCHANGED serverVars
  BY <1>3 DEF serverVars
<1>4. CASE SupStep
  <2>1. CASE Started
    BY <2>1 DEF Started, SupGoto
  <2>2. CASE SnapSettings
    BY <1>1, <2>2 DEF SnapSettings
  <2>3. CASE SnapFingerprint
    BY <1>1, <1>2, <2>3 DEF SnapFingerprint, AfterProducer
  <2>4. CASE TakeChange
    BY <2>4 DEF TakeChange, SupGoto
  <2>5. CASE NewSettings
    BY <1>1, <2>5 DEF NewSettings
  <2>6. CASE Compare
    BY <1>1, <1>2, <2>6 DEF Compare
  <2>7. CASE AwaitStop \/ TakeError \/ EndBackoff
    BY <2>7 DEF AwaitStop, TakeError, EndBackoff, SupGoto
  <2> QED
    BY <1>4, <2>1, <2>2, <2>3, <2>4, <2>5, <2>6, <2>7 DEF SupStep
<1>5. CASE RunnerStep \/ Fail \/ BeginRequest \/ EndRequest
  <2>1. CASE CreateProducer \/ CreateConsumer \/ Listen
    BY <1>1, <2>1 DEF CreateProducer, CreateConsumer, Listen, AfterProducer
  <2>2. CASE Stop \/ Fail
    <3>1. /\ stranded' \in Nat
          /\ requests' \in Nat
          /\ failures' \in Nat
      BY <2>2 DEF Stop, Fail, Exit
    <3>2. /\ runner' = [runner EXCEPT !.pc = "exited", !.producer = NoKafka,
                                      !.consumer = NoKafka]
          /\ sup' = sup
      BY <2>2 DEF Stop, Fail, Exit
    <3> QED
      BY <1>2, <3>1, <3>2
  <2>3. CASE BeginRequest \/ EndRequest
    BY <2>3 DEF BeginRequest, EndRequest
  <2> QED
    BY <1>5, <2>1, <2>2, <2>3 DEF RunnerStep
<1> QED
  BY <1>3, <1>4, <1>5 DEF Next, vars, serverVars

\* Steps of the Provider: one that writes leaves Writing behind, and the one
\* that ends Writing fills the channel of a supervisor that has subscribed.
LEMMA ProviderKeepsServerInv ==
    ASSUME Inv, ProviderNext, UNCHANGED serverVars
    PROVE  ServerInv'
<1> USE DEF Inv, TypeOK, ProviderTypeOK, ServerInv, serverVars, runnerVars
<1>1. CASE UNCHANGED <<config, kafka, changes, subscribed>> /\ (Writing => Writing')
  BY <1>1 DEF Unseen
<1>2. ASSUME NEW l \in Loaders, LoadStep(l) PROVE ServerInv'
  <2> USE DEF LoadFrame, Goto, Abandon, sharedVars, channelVars, Idle
  <2>1. CASE GetConfigMap(l)
    BY <1>1, <2>1 DEF GetConfigMap, Writing
  <2>2. CASE GetSecret(l)
    BY <1>1, <2>2 DEF GetSecret, Writing
  <2>3. CASE SetConfig(l) \/ SetKafka(l)
    <3>1. load'[l].pc \in {"kafka", "notify"}
      BY <2>3 DEF SetConfig, SetKafka
    <3>2. Writing' /\ UNCHANGED channelVars
      BY <2>3, <3>1 DEF Writing, SetConfig, SetKafka
    <3> QED
      BY <3>2 DEF Unseen
  <2>4. CASE NotifySubscribers(l)
    <3>1. /\ UNCHANGED <<config, kafka, subscribed>>
          /\ subscribed => changes'
      BY <2>4 DEF NotifySubscribers
    <3> QED
      BY <3>1 DEF Unseen
  <2>5. CASE SignalReload(l)
    BY <1>1, <2>5 DEF SignalReload, Writing
  <2> QED
    BY <1>2, <2>1, <2>2, <2>3, <2>4, <2>5 DEF LoadStep
<1>3. ASSUME NEW l \in Loaders, GetFails(l) PROVE ServerInv'
  BY <1>1, <1>3
  DEF GetFails, Abandon, LoadFrame, sharedVars, channelVars, Idle, Writing
<1>4. CASE ~\E l \in Loaders : LoadStep(l) \/ GetFails(l)
  <2>1. UNCHANGED <<config, kafka, changes, subscribed>>
    BY <1>4
    DEF ProviderNext, SecretWatchStep, ChangeConfigMap, ChangeSecret,
        ConfigMapEvent, ReopenConfigMapWatch, WatchSecret, TakeReloadSignal,
        SecretEvent, CloseSecretWatch, sharedVars, channelVars
  <2>2. \A l \in Loaders : load'[l] = load[l] \/ load[l] = Idle
    BY <1>4
    DEF ProviderNext, SecretWatchStep, ChangeConfigMap, ChangeSecret,
        ConfigMapEvent, ReopenConfigMapWatch, WatchSecret, TakeReloadSignal,
        SecretEvent, CloseSecretWatch, Loaders
  <2>3. Writing => Writing'
    BY <2>2 DEF Writing, Idle
  <2> QED
    BY <1>1, <2>1, <2>3
<1> QED
  BY <1>2, <1>3, <1>4

\* Steps of the supervisor.
LEMMA SupervisorKeepsServerInv ==
    ASSUME Inv, SupStep
    PROVE  ServerInv'
<1> USE DEF Inv, TypeOK, ServerInv, Unseen, Writing, SupGoto, runnerVars,
            providerVars, sharedVars, channelVars, Snapshots
<1>1. CASE Started
  BY <1>1 DEF Started, Subscribe
<1>2. CASE SnapSettings
  BY <1>2 DEF SnapSettings
<1>3. CASE SnapFingerprint
  BY <1>3 DEF SnapFingerprint
<1>4. CASE TakeChange
  BY <1>4 DEF TakeChange, Receive
<1>5. CASE NewSettings
  BY <1>5 DEF NewSettings
<1>6. CASE Compare
  BY <1>6 DEF Compare, NeedsRestart
<1>7. CASE AwaitStop \/ TakeError \/ EndBackoff
  BY <1>7 DEF AwaitStop, TakeError, EndBackoff, Cancelled
<1> QED
  BY <1>1, <1>2, <1>3, <1>4, <1>5, <1>6, <1>7 DEF SupStep

\* Steps of the runner change neither its settings nor anything else that
\* ServerInv is about.
LEMMA RunnerKeepsServerInv ==
    ASSUME Inv, RunnerStep \/ Fail \/ BeginRequest \/ EndRequest
    PROVE  ServerInv'
<1>1. UNCHANGED <<providerVars, sup>> /\ runner'.settings = runner.settings
  BY DEF Inv, TypeOK, RunnerStep, CreateProducer, CreateConsumer, Listen, Stop,
         Fail, Exit, BeginRequest, EndRequest
<1> QED
  BY <1>1
  DEF Inv, ServerInv, Unseen, Writing, providerVars, sharedVars, channelVars

LEMMA StepServerInv ==
    ASSUME Inv, [Next]_vars
    PROVE  ServerInv'
<1>1. CASE UNCHANGED vars
  BY <1>1
  DEF Inv, ServerInv, Unseen, Writing, vars, serverVars, runnerVars,
      providerVars, sharedVars, channelVars
<1> QED
  BY <1>1, ProviderKeepsServerInv, SupervisorKeepsServerInv,
     RunnerKeepsServerInv
  DEF Next

\* The types of the composition.
THEOREM TypeCorrect == Spec => []TypeOK
<1>1. Init => TypeOK
  BY InitInv DEF Inv
<1>2. TypeOK /\ ProviderTypeOK' /\ [Next]_vars => TypeOK'
  BY StepType
<1>3. ProviderInv => ProviderTypeOK
  BY DEF ProviderInv
<1> QED
  BY <1>1, <1>2, <1>3, ProviderInvHolds, ServerImplementsProvider, PTL DEF Spec

\* No change of the configuration is lost on its way to the runner.
THEOREM RunnerStaysCurrent == Spec => []RunnerIsCurrent
<1>1. Init => ServerInv
  BY InitInv DEF Inv
<1>2. TypeOK /\ ServerInv /\ [Next]_vars => ServerInv'
  BY StepServerInv DEF Inv
<1> QED
  BY <1>1, <1>2, ServerInvImplies, TypeCorrect, PTL DEF Spec
=============================================================================
