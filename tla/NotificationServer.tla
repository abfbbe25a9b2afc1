------------------------- MODULE NotificationServer -------------------------
(***************************************************************************)
(* The NotificationServer of                                               *)
(* internal/objectbucketsource/notificationserver/server.go, composed with *)
(* the configuration Provider: a supervisor runs one runner (an HTTP       *)
(* server or a Kafka consumer) and restarts it when the configuration that *)
(* it depends on has changed.                                              *)
(*                                                                         *)
(* The supervisor reads the settings and the fingerprint one after the     *)
(* other, and the runner reads the Kafka configuration again whenever it   *)
(* connects: each read is a step, between which the Provider may load.     *)
(* The end of the process is left out: nothing survives it.                *)
(***************************************************************************)
EXTENDS AdapterConfig

CONSTANTS
    MaxFailures,    \* runners that exit with an error
    MaxRequests     \* notifications handled at a time

ASSUME ServerAssumption == MaxFailures \in Nat /\ MaxRequests \in Nat

VARIABLES
    sup,        \* superviseRun: its step, its snapshot, and the new one
    runner,     \* run: its step, its settings, and the Kafka configurations
                \* that its producer and its consumer connect with
    requests,   \* notifications that the runner is handling
    stranded,   \* those whose runner has closed their producer
    failures

runnerVars == <<runner, requests, stranded, failures>>
serverVars == <<sup, runnerVars>>
vars == <<providerVars, serverVars>>

\* Config.Notifications
Notifications(c) == [mode |-> c.mode, brokers |-> c.brokers]

NoKafka == [ref |-> NoSecret, content |-> 0]
NoSnapshot == [settings |-> [mode |-> "http", brokers |-> 0], key |-> NoKafka]

UsesKafka(s) == s.mode = "kafka" \/ s.brokers # 0

NeedsRestart(old, new) ==
    \/ old.settings # new.settings
    \/ UsesKafka(new.settings) /\ old.key # new.key

Init ==
    /\ ProviderInit
    /\ sup = [pc |-> "subscribe", snap |-> NoSnapshot, new |-> NoSnapshot]
    /\ runner = [pc |-> "exited", settings |-> NoSnapshot.settings,
                 producer |-> NoKafka, consumer |-> NoKafka]
    /\ requests = 0
    /\ stranded = 0
    /\ failures = 0

-----------------------------------------------------------------------------
(* Start and superviseRun.                                                  *)

SupGoto(pc) == sup' = [sup EXCEPT !.pc = pc]

Started ==
    /\ sup.pc = "subscribe"
    /\ Subscribe
    /\ SupGoto("settings")
    /\ UNCHANGED runnerVars

\* The two reads of snapshot().
SnapSettings ==
    /\ sup.pc = "settings"
    /\ sup' = [sup EXCEPT !.pc = "key",
                          !.snap.settings = Notifications(config)]
    /\ UNCHANGED <<providerVars, runnerVars>>

AfterProducer(settings) ==
    IF settings.mode = "kafka" THEN "consumer" ELSE "listen"

\* Mutant: a notification that came before the snapshot is dropped.
SnapFingerprintAndDrain ==
    /\ sup.pc = "key"
    /\ sup' = [sup EXCEPT !.pc = "watch", !.snap.key = kafka]
    /\ runner' = [pc |-> IF sup.snap.settings.brokers # 0 THEN "producer"
                         ELSE AfterProducer(sup.snap.settings),
                  settings |-> sup.snap.settings,
                  producer |-> NoKafka, consumer |-> NoKafka]
    /\ changes' = FALSE
    /\ UNCHANGED <<clusterVars, watchVars, load, sharedVars, subscribed, spent,
                   requests, stranded, failures>>

\* The second one, and the start of the runner.
SnapFingerprint ==
    /\ sup.pc = "key"
    /\ sup' = [sup EXCEPT !.pc = "watch", !.snap.key = kafka]
    /\ runner' = [pc |-> IF sup.snap.settings.brokers # 0 THEN "producer"
                         ELSE AfterProducer(sup.snap.settings),
                  settings |-> sup.snap.settings,
                  producer |-> NoKafka, consumer |-> NoKafka]
    /\ UNCHANGED <<providerVars, requests, stranded, failures>>

TakeChange ==
    /\ sup.pc = "watch"
    /\ Receive
    /\ SupGoto("newsettings")
    /\ UNCHANGED runnerVars

NewSettings ==
    /\ sup.pc = "newsettings"
    /\ sup' = [sup EXCEPT !.pc = "newkey",
                          !.new.settings = Notifications(config)]
    /\ UNCHANGED <<providerVars, runnerVars>>

\* The second read, needsRestart and cancel().
Compare ==
    /\ sup.pc = "newkey"
    /\ LET new == [sup.new EXCEPT !.key = kafka] IN
         sup' = [sup EXCEPT !.new = NoSnapshot,
                            !.pc = IF NeedsRestart(sup.snap, new)
                                   THEN "stopping" ELSE "watch"]
    /\ UNCHANGED <<providerVars, runnerVars>>

Cancelled == sup.pc = "stopping"

\* errCh after cancel().
AwaitStop ==
    /\ Cancelled
    /\ runner.pc = "exited"
    /\ SupGoto("settings")
    /\ UNCHANGED <<providerVars, runnerVars>>

\* errCh without cancel(): the runner has failed. It waits 5 s.
TakeError ==
    /\ sup.pc = "watch"
    /\ runner.pc = "exited"
    /\ SupGoto("backoff")
    /\ UNCHANGED <<providerVars, runnerVars>>

EndBackoff ==
    /\ sup.pc = "backoff"
    /\ SupGoto("settings")
    /\ UNCHANGED <<providerVars, runnerVars>>

-----------------------------------------------------------------------------
(* run, startHTTPServer and startKafkaConsumer.                             *)

\* Dialling the brokers does not look at the context.
CreateProducer ==
    /\ runner.pc = "producer"
    /\ runner' = [runner EXCEPT
                    !.producer = kafka,
                    !.pc = AfterProducer(runner.settings)]
    /\ UNCHANGED <<providerVars, sup, requests, stranded, failures>>

CreateConsumer ==
    /\ runner.pc = "consumer"
    /\ runner' = [runner EXCEPT !.consumer = kafka, !.pc = "serving"]
    /\ UNCHANGED <<providerVars, sup, requests, stranded, failures>>

Listen ==
    /\ runner.pc = "listen"
    /\ runner' = [runner EXCEPT !.pc = "serving"]
    /\ UNCHANGED <<providerVars, sup, requests, stranded, failures>>

\* run returns, and closes the producer. ListenAndServe returns as soon as
\* Shutdown is called, while requests are still being handled.
Exit ==
    /\ runner' = [runner EXCEPT !.pc = "exited", !.producer = NoKafka,
                                !.consumer = NoKafka]
    /\ requests' = 0
    /\ stranded' = IF runner.settings.brokers # 0 THEN stranded + requests
                   ELSE stranded
    /\ UNCHANGED <<providerVars, sup>>

\* Consume waits for the messages that are being handled.
Stop ==
    /\ Cancelled
    /\ runner.pc = "serving"
    /\ runner.settings.mode = "kafka" => requests = 0
    /\ Exit
    /\ UNCHANGED failures

\* A setup error, or the listener's end. Consume is called again.
Fail ==
    /\ \/ runner.pc \in {"producer", "consumer", "listen"}
       \/ runner.pc = "serving" /\ runner.settings.mode = "http"
    /\ failures < MaxFailures
    /\ failures' = failures + 1
    /\ Exit

\* A consumer group that is leaving hands out no more messages.
BeginRequest ==
    /\ runner.pc = "serving"
    /\ runner.settings.mode = "kafka" => ~Cancelled
    /\ requests + stranded < MaxRequests
    /\ requests' = requests + 1
    /\ UNCHANGED <<providerVars, sup, runner, stranded, failures>>

EndRequest ==
    /\ \/ requests > 0 /\ requests' = requests - 1 /\ UNCHANGED stranded
       \/ stranded > 0 /\ stranded' = stranded - 1 /\ UNCHANGED requests
    /\ UNCHANGED <<providerVars, sup, runner, failures>>

-----------------------------------------------------------------------------
(* The specification.                                                       *)

SupStep ==
    \/ Started \/ SnapSettings \/ SnapFingerprint \/ TakeChange \/ NewSettings
    \/ Compare \/ AwaitStop \/ TakeError \/ EndBackoff

RunnerStep == CreateProducer \/ CreateConsumer \/ Listen \/ Stop

Next ==
    \/ ProviderNext /\ UNCHANGED serverVars
    \/ SupStep
    \/ RunnerStep
    \/ Fail \/ BeginRequest \/ EndRequest

Spec == Init /\ [][Next]_vars

\* The goroutines and their calls make progress, requests end, and API server
\* or network end a watch from time to time, which is why it is reopened. A
\* select takes one of several ready cases at random: it does not ignore the
\* runner's error forever in favour of ever new notifications.
Fairness ==
    /\ WF_vars(ConfigMapEvent /\ UNCHANGED serverVars)
    /\ WF_vars(ReopenConfigMapWatch /\ UNCHANGED serverVars)
    /\ WF_vars(SecretWatchStep /\ UNCHANGED serverVars)
    /\ \A l \in Loaders : WF_vars(LoadStep(l) /\ UNCHANGED serverVars)
    /\ WF_vars(SupStep)
    /\ SF_vars(TakeError)
    /\ WF_vars(RunnerStep)
    /\ WF_vars(EndRequest)

FairSpec == Spec /\ Fairness

-----------------------------------------------------------------------------
(* Properties.                                                              *)

Settings == [mode : {"http", "kafka"}, brokers : Nat]
KafkaValues == [ref : References, content : Contents \cup {0}]
Snapshots == [settings : Settings, key : KafkaValues]

TypeOK ==
    /\ ProviderTypeOK
    /\ sup \in [pc : {"subscribe", "settings", "key", "watch", "newsettings",
                      "newkey", "stopping", "backoff"},
                snap : Snapshots, new : Snapshots]
    /\ runner \in [pc : {"exited", "producer", "consumer", "listen",
                         "serving"},
                   settings : Settings,
                   producer : KafkaValues, consumer : KafkaValues]
    /\ requests \in Nat
    /\ stranded \in Nat
    /\ failures \in Nat

\* Between its first write and its notification.
Writing == \E l \in Loaders : load[l].pc \in {"kafka", "notify"}

\* A supervisor that waits, with no notification there or on its way,
\* supervises a runner with the Provider's settings, started under the
\* Provider's fingerprint if Kafka is in use: no change is lost between
\* loadConfig's three critical sections, the coalescing channel and the two
\* reads of a snapshot.
RunnerIsCurrent ==
    sup.pc = "watch" /\ ~changes /\ ~Writing =>
        /\ runner.settings = sup.snap.settings
        /\ sup.snap.settings = Notifications(config)
        /\ UsesKafka(sup.snap.settings) => sup.snap.key = kafka

\* "waiting for it to shut down gracefully" (same document, line 136): no
\* notification is being handled when the producer that it may use is closed.
\* run does not wait for Shutdown, which waits for the requests.
GracefulStop == stranded = 0

\* Once the administrator is done and calls succeed, a configuration that can
\* be loaded is in force for good: whatever the two goroutines have written in
\* which order, and however often watches end, the settings are those of the
\* ConfigMap and one runner serves with them.
Converges ==
    <>[](Loadable => /\ Latest
                     /\ runner.pc = "serving"
                     /\ runner.settings = Notifications(Parse(configMap)))
=============================================================================
