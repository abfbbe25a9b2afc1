--------------------------- MODULE AdapterConfig ----------------------------
(***************************************************************************)
(* The configuration Provider of the object bucket notifications adapter,  *)
(* internal/objectbucketsource/config/config.go: one goroutine watches the *)
(* ConfigMap, one the Kafka Secret that the ConfigMap refers to, and each  *)
(* runs loadConfig when its watch reports a change.                        *)
(*                                                                         *)
(* loadConfig is cut at every call to the API server, at every lock and at *)
(* every send to a channel, because the two goroutines run it at the same  *)
(* time.                                                                   *)
(*                                                                         *)
(* Abstractions.                                                           *)
(*  - adapters stands for the IDs, topics and patterns of the two adapters,*)
(*    brokers for the brokers, the topics and the group of Kafka, which    *)
(*    are parsed and compared alike. 0 is an absent key.                   *)
(*  - The mode "bad" stands for whatever parseConfig rejects by itself.    *)
(*  - The content of a Secret is a number, 0 when it does not exist. The   *)
(*    fingerprint is a hash of the Secret's name and content: kafka, the   *)
(*    pair of both, stands for the fingerprint and for the sarama.Config.  *)
(*  - A watch that cannot be established is tried again 5 s later; until   *)
(*    then the goroutine has not moved.                                    *)
(***************************************************************************)
EXTENDS Naturals

CONSTANTS
    ConfigMaps,     \* contents that the ConfigMap can be given
    NoConfigMap,    \* there is no ConfigMap
    Secrets,        \* names of Secrets
    NoSecret,       \* no KAFKA_SECRET key
    Contents,       \* contents that a Secret can be given
    BadContents,    \* those that kafkaconfig.NewConfig rejects
    Defaults,       \* the notification settings of the command line
    Limit           \* how often each disturbance may happen

Disturbances == {"configmap", "secret", "fault"}
References == Secrets \cup {NoSecret}

ASSUME ConfigMapsAssumption ==
    /\ ConfigMaps \subseteq
         [adapters : Nat, mode : {"unset", "http", "kafka", "bad"},
          brokers : Nat, ref : References]
    /\ NoConfigMap \notin ConfigMaps

ASSUME SecretsAssumption ==
    /\ NoSecret \notin Secrets
    /\ Contents \subseteq Nat \ {0}
    /\ BadContents \subseteq Contents

ASSUME LimitsAssumption ==
    /\ Defaults \in [mode : {"http", "kafka"}, brokers : Nat]
    /\ Limit \in [Disturbances -> Nat]

VARIABLES
    configMap,  \* the ConfigMap on the API server
    secret,     \* secret[n]: the content of the Secret n on the API server
    events,     \* events that the ConfigMap watch has not delivered
    watch,      \* the goroutine of watchSecret: its state, the Secret it
                \* watches, and the events of this watch
    load,       \* load[l]: the loadConfig that the goroutine l runs
    config,     \* Provider.config
    kafka,      \* Provider.kafkaConfig, kafkaSecret and kafkaFingerprint
    reload,     \* reloadSignal is full
    subscribed, \* the NotificationServer has subscribed
    changes,    \* its channel is full
    spent       \* spent[k]: how often the disturbance k has happened

clusterVars == <<configMap, secret>>
watchVars == <<events, watch>>
sharedVars == <<config, kafka, reload>>
channelVars == <<subscribed, changes>>
providerVars == <<clusterVars, watchVars, load, sharedVars, channelVars, spent>>

Loaders == {"configmap", "secret"}

Idle == [pc |-> "idle", cm |-> NoConfigMap, content |-> 0]
Loading == [Idle EXCEPT !.pc = "configmap"]

\* watchSecret at the head of its loop.
TopOfLoop == [state |-> "top", on |-> NoSecret, events |-> 0]

Spend(k) ==
    /\ spent[k] < Limit[k]
    /\ spent' = [spent EXCEPT ![k] = @ + 1]

-----------------------------------------------------------------------------
(* Parsing.                                                                 *)

\* Mutant: a ConfigMap without the key has the zero value.
ParseWithoutDefaults(cm) ==
    [adapters |-> cm.adapters, mode |-> cm.mode, brokers |-> cm.brokers]

\* parseConfig: the flags of the command line stand in for absent keys.
Parse(cm) ==
    [ adapters |-> cm.adapters,
      mode     |-> IF cm.mode = "unset" THEN Defaults.mode ELSE cm.mode,
      brokers  |-> IF cm.brokers = 0 THEN Defaults.brokers ELSE cm.brokers ]

\* Kafka mode needs brokers, topics and a group.
Valid(cm) ==
    /\ cm # NoConfigMap
    /\ cm.mode # "bad"
    /\ Parse(cm).mode = "kafka" => Parse(cm).brokers # 0

\* kafkaconfig.NewConfig accepts the content of the Secret that cm refers to.
Readable(cm, content) ==
    cm.ref # NoSecret => content \in Contents \ BadContents

Content(ref) == IF ref = NoSecret THEN 0 ELSE secret[ref]

\* A loadConfig that nothing disturbs succeeds.
Loadable == Valid(configMap) /\ Readable(configMap, Content(configMap.ref))

\* What such a loadConfig leaves in the Provider.
Latest ==
    /\ config = Parse(configMap)
    /\ kafka = [ref |-> configMap.ref, content |-> Content(configMap.ref)]

-----------------------------------------------------------------------------
(* NewProvider: the first loadConfig has succeeded, and the goroutines      *)
(* start. A new watch reports the ConfigMap that it finds.                  *)

ProviderInit ==
    /\ configMap \in ConfigMaps
    /\ secret \in [Secrets -> Contents \cup {0}]
    /\ Loadable
    /\ config = Parse(configMap)
    /\ kafka = [ref |-> configMap.ref, content |-> Content(configMap.ref)]
    /\ events = 1
    /\ watch = TopOfLoop
    /\ load = [l \in Loaders |-> Idle]
    /\ reload = FALSE
    /\ subscribed = FALSE
    /\ changes = FALSE
    /\ spent = [k \in Disturbances |-> 0]

-----------------------------------------------------------------------------
(* The administrator.                                                       *)

\* The watches of deleted objects only log the event.
ChangeConfigMap ==
    /\ Spend("configmap")
    /\ \E cm \in ConfigMaps \cup {NoConfigMap} :
         /\ cm # configMap
         /\ configMap' = cm
         /\ events' = IF cm = NoConfigMap THEN events ELSE events + 1
    /\ UNCHANGED <<secret, watch, load, sharedVars, channelVars>>

ChangeSecret(n) ==
    /\ Spend("secret")
    /\ \E c \in Contents \cup {0} :
         /\ c # secret[n]
         /\ secret' = [secret EXCEPT ![n] = c]
         /\ watch' = IF watch.state = "open" /\ watch.on = n /\ c # 0
                     THEN [watch EXCEPT !.events = @ + 1] ELSE watch
    /\ UNCHANGED <<configMap, events, load, sharedVars, channelVars>>

-----------------------------------------------------------------------------
(* watchConfigMap.                                                          *)

ConfigMapEvent ==
    /\ load["configmap"] = Idle
    /\ events > 0
    /\ events' = events - 1
    /\ load' = [load EXCEPT !["configmap"] = Loading]
    /\ UNCHANGED <<clusterVars, watch, sharedVars, channelVars, spent>>

\* Mutant: the new watch goes on where the old one has ended.
ResumeConfigMapWatch ==
    /\ load["configmap"] = Idle
    /\ events' = 0
    /\ UNCHANGED <<clusterVars, watch, load, sharedVars, channelVars, spent>>

\* The connection ends, and with it what it has not delivered. The new watch
\* has no resource version: it reports the present ConfigMap as added.
ReopenConfigMapWatch ==
    /\ load["configmap"] = Idle
    /\ events' = IF configMap = NoConfigMap THEN 0 ELSE 1
    /\ UNCHANGED <<clusterVars, watch, load, sharedVars, channelVars, spent>>

-----------------------------------------------------------------------------
(* watchSecret and consumeSecretEvents.                                     *)

WatchSecret ==
    /\ watch.state = "top"
    /\ watch' = IF kafka.ref = NoSecret
                THEN [TopOfLoop EXCEPT !.state = "wait"]
                ELSE [state |-> "open", on |-> kafka.ref,
                      events |-> IF secret[kafka.ref] = 0 THEN 0 ELSE 1]
    /\ UNCHANGED <<clusterVars, events, load, sharedVars, channelVars, spent>>

\* Mutant: the open watch stays on the Secret it has.
KeepSecretWatch ==
    /\ reload
    /\ watch.state = "wait" \/ (watch.state = "open" /\ load["secret"] = Idle)
    /\ reload' = FALSE
    /\ watch' = IF watch.state = "wait" THEN TopOfLoop ELSE watch
    /\ UNCHANGED <<clusterVars, events, load, config, kafka, channelVars, spent>>

\* reloadSignal: the goroutine that waits for a reference looks again, the one
\* that watches a Secret goes to the head of its loop if it is another one now.
TakeReloadSignal ==
    /\ reload
    /\ watch.state = "wait" \/ (watch.state = "open" /\ load["secret"] = Idle)
    /\ reload' = FALSE
    /\ watch' = IF watch.state = "open" /\ kafka.ref = watch.on
                THEN watch ELSE TopOfLoop
    /\ UNCHANGED <<clusterVars, events, load, config, kafka, channelVars, spent>>

SecretEvent ==
    /\ watch.state = "open"
    /\ load["secret"] = Idle
    /\ watch.events > 0
    /\ watch' = [watch EXCEPT !.events = @ - 1]
    /\ load' = [load EXCEPT !["secret"] = Loading]
    /\ UNCHANGED <<clusterVars, events, sharedVars, channelVars, spent>>

CloseSecretWatch ==
    /\ watch.state = "open"
    /\ load["secret"] = Idle
    /\ watch' = TopOfLoop
    /\ UNCHANGED <<clusterVars, events, load, sharedVars, channelVars, spent>>

-----------------------------------------------------------------------------
(* loadConfig, run by the goroutine l.                                      *)

Goto(l, pc) == load' = [load EXCEPT ![l].pc = pc]
Abandon(l) == load' = [load EXCEPT ![l] = Idle]

LoadFrame == UNCHANGED <<clusterVars, watchVars, channelVars>>

GetConfigMap(l) ==
    /\ load[l].pc = "configmap"
    /\ IF Valid(configMap)
       THEN load' = [load EXCEPT
              ![l] = [pc |-> IF configMap.ref = NoSecret THEN "config"
                             ELSE "secret",
                      cm |-> configMap, content |-> 0]]
       ELSE Abandon(l)
    /\ LoadFrame /\ UNCHANGED <<sharedVars, spent>>

GetSecret(l) ==
    /\ load[l].pc = "secret"
    /\ LET content == secret[load[l].cm.ref] IN
         IF Readable(load[l].cm, content)
         THEN load' = [load EXCEPT ![l].pc = "config", ![l].content = content]
         ELSE Abandon(l)
    /\ LoadFrame /\ UNCHANGED <<sharedVars, spent>>

\* A call to the API server fails.
GetFails(l) ==
    /\ load[l].pc \in {"configmap", "secret"}
    /\ Spend("fault")
    /\ Abandon(l)
    /\ LoadFrame /\ UNCHANGED sharedVars

SetConfig(l) ==
    /\ load[l].pc = "config"
    /\ config' = Parse(load[l].cm)
    /\ Goto(l, "kafka")
    /\ LoadFrame /\ UNCHANGED <<kafka, reload, spent>>

SetKafka(l) ==
    /\ load[l].pc = "kafka"
    /\ kafka' = [ref |-> load[l].cm.ref, content |-> load[l].content]
    /\ load' = [load EXCEPT ![l] = [Idle EXCEPT !.pc = "notify"]]
    /\ LoadFrame /\ UNCHANGED <<config, reload, spent>>

NotifySubscribers(l) ==
    /\ load[l].pc = "notify"
    /\ changes' = (changes \/ subscribed)
    /\ Goto(l, "signal")
    /\ UNCHANGED <<clusterVars, watchVars, sharedVars, subscribed, spent>>

SignalReload(l) ==
    /\ load[l].pc = "signal"
    /\ reload' = TRUE
    /\ Abandon(l)
    /\ LoadFrame /\ UNCHANGED <<config, kafka, spent>>

LoadStep(l) ==
    \/ GetConfigMap(l) \/ GetSecret(l) \/ SetConfig(l) \/ SetKafka(l)
    \/ NotifySubscribers(l) \/ SignalReload(l)

-----------------------------------------------------------------------------
(* The subscriber's end of the channel.                                     *)

Subscribe ==
    /\ ~subscribed
    /\ subscribed' = TRUE
    /\ UNCHANGED <<clusterVars, watchVars, load, sharedVars, changes, spent>>

Receive ==
    /\ changes
    /\ changes' = FALSE
    /\ UNCHANGED <<clusterVars, watchVars, load, sharedVars, subscribed, spent>>

-----------------------------------------------------------------------------
(* The specification.                                                       *)

SecretWatchStep == WatchSecret \/ TakeReloadSignal \/ SecretEvent

ProviderNext ==
    \/ ChangeConfigMap
    \/ \E n \in Secrets : ChangeSecret(n)
    \/ ConfigMapEvent
    \/ ReopenConfigMapWatch
    \/ SecretWatchStep
    \/ CloseSecretWatch
    \/ \E l \in Loaders : LoadStep(l) \/ GetFails(l)

ProviderSpec ==
    ProviderInit /\ [][ProviderNext \/ Subscribe \/ Receive]_providerVars

-----------------------------------------------------------------------------
(* Properties.                                                              *)

ProviderTypeOK ==
    /\ configMap \in ConfigMaps \cup {NoConfigMap}
    /\ secret \in [Secrets -> Contents \cup {0}]
    /\ events \in Nat
    /\ watch \in [state : {"top", "wait", "open"}, on : References,
                  events : Nat]
    /\ load \in [Loaders ->
                   [pc : {"idle", "configmap", "secret", "config", "kafka",
                          "notify", "signal"},
                    cm : ConfigMaps \cup {NoConfigMap},
                    content : Contents \cup {0}]]
    /\ config \in [adapters : Nat, mode : {"http", "kafka"}, brokers : Nat]
    /\ kafka \in [ref : References, content : Contents \cup {0}]
    /\ reload \in BOOLEAN
    /\ subscribed \in BOOLEAN
    /\ changes \in BOOLEAN
    /\ spent \in [Disturbances -> Nat]

\* The Secret that watchSecret watches is the one of the last load, or a
\* signal to look again is there or will come: a coalesced, non-blocking
\* signalReload after the write loses no change of the reference, although
\* the goroutine that consumes it also runs loadConfig itself.
WatchFollowsReference ==
    \/ watch.state = "top"
    \/ watch.on = kafka.ref
    \/ reload
    \/ \E l \in Loaders : load[l].pc \in {"notify", "signal"}
=============================================================================
