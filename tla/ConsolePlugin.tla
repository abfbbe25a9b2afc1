---------------------------- MODULE ConsolePlugin ----------------------------
(***************************************************************************)
(* The ConsolePluginReconciler of                                          *)
(* internal/controller/consoleplugin_controller.go: it installs or removes *)
(* the resources of the console plugin as the controller-config ConfigMap  *)
(* says, and makes them belong to the operator's own OLM release.          *)
(*                                                                         *)
(* All events map to one request, so there is one Reconcile at a time. It  *)
(* is cut at every read and every write (work.pc). The Get of an existing  *)
(* object and its Update are one step: what another client writes between  *)
(* them is covered by the Get's store being outdated.                      *)
(*                                                                         *)
(* Abstractions.                                                           *)
(*  - Of an object: whether it is there, the releases in its owner         *)
(*    references, the value it was built from (--gh-api-url for the        *)
(*    Deployment) and whether it is the plugin's own (the roleRef of the   *)
(*    RoleBinding).                                                        *)
(*  - A release stands for the operator's Deployment and, for the          *)
(*    cluster-scoped ConsolePlugin, its ClusterRoleBinding; the garbage    *)
(*    collector removes an object all of whose owners are gone.            *)
(*  - The informers' periodic resync (10 h) is left out: what is promised  *)
(*    holds without waiting for it.                                        *)
(***************************************************************************)
EXTENDS Naturals, Sequences

CONSTANTS
    Order,          \* the resources, in the order in which Reconcile ensures
                    \* them: those of FullOrder, or some of them
    ConfigValues,   \* values the consolePluginEnabled key can be given
    Urls,           \* values of the ghApiUrl key
    MaxRelease,     \* OLM releases of the operator
    Limit           \* how often each disturbance may happen

\* "config": the ConfigMap changes. "trouble": a call fails, the process
\* crashes, or a user deletes a resource.
Disturbances == {"config", "trouble"}

AllConfigValues == {"true", "false", "nokey", "bad", "absent"}

\* The order in which Reconcile ensures the resources; it deletes backwards.
FullOrder == <<"ServiceAccount", "Role", "RoleBinding", "Service",
               "Deployment", "ConsolePlugin">>

AllResources == {FullOrder[i] : i \in 1 .. Len(FullOrder)}

\* FullOrder has r before s.
Before(r, s) ==
    \E i, j \in 1 .. Len(FullOrder) :
        i < j /\ FullOrder[i] = r /\ FullOrder[j] = s

ASSUME OrderAssumption ==
    /\ Order \in Seq(AllResources) /\ Order # <<>>
    /\ Order[Len(Order)] = "ConsolePlugin"
    /\ \A i, j \in 1 .. Len(Order) : i < j => Before(Order[i], Order[j])

ASSUME PluginAssumption ==
    /\ ConfigValues \subseteq AllConfigValues
    /\ MaxRelease \in Nat \ {0}
    /\ Limit \in [Disturbances -> Nat]

Resources == {Order[i] : i \in 1 .. Len(Order)}

\* SetupWithManager watches these, and the ConfigMap.
Watched == Resources \ {"Role", "RoleBinding"}

\* Typed objects are read from the informers' stores, the ConsolePlugin is not.
Cached == Resources \ {"ConsolePlugin"}

VARIABLES
    object,     \* object[r]: the resource on the API server
    cache,      \* cache[r]: what of it the reconciler reads in the store
    lag,        \* resources written since their informer got them
    config,     \* the controller-config ConfigMap
    configCache, \* the same in the informer's store
    queued,     \* the request is in the work queue, or awaits a retry
    work,       \* the Reconcile that runs
    managed,    \* the operator is installed by OLM
    release,    \* the OLM release of the operator that runs
    retired,    \* releases up to this one are gone
    owner,      \* what the process has resolved: its release, or nothing yet
    removed,    \* resources removed by somebody else, or to be replaced
    spent       \* spent[k]: how often disturbance k has happened

configVars == <<config, configCache>>
olmVars    == <<managed, release, retired>>
vars == <<object, cache, lag, configVars, queued, work, olmVars, owner,
          removed, spent>>

-----------------------------------------------------------------------------
(* The data.                                                               *)

Releases == 1 .. MaxRelease

Config == [enabled : ConfigValues, url : Urls]

NoUrl == "none"

Object == [ live : BOOLEAN, owners : SUBSET Releases,
            url : Urls \cup {NoUrl}, own : BOOLEAN ]

NoObject == [live |-> FALSE, owners |-> {}, url |-> NoUrl, own |-> TRUE]

\* What the reconciler reads of an object before it writes.
View(o) == [live |-> o.live, own |-> o.own]

Views == [live : BOOLEAN, own : BOOLEAN]

Unresolved == 0

Steps == {"idle", "owner", "config", "cluster", "url", "ensure", "replace",
          "delete"}

NoWork == [pc |-> "idle", at |-> 0, url |-> NoUrl]

Spend(k) ==
    /\ spent[k] < Limit[k]
    /\ spent' = [spent EXCEPT ![k] = @ + 1]

\* A call fails because of cond, or for a reason outside the model.
FailsIf(cond) ==
    \/ cond /\ UNCHANGED spent
    \/ Spend("trouble")

\* A first installation, or what an older version left, which owned nothing
\* and had another roleRef.
Init ==
    /\ \E old \in BOOLEAN :
          object = [r \in Resources |->
                      [NoObject EXCEPT !.live = old,
                                       !.own = r = "RoleBinding" => ~old]]
    /\ cache = [r \in Resources |-> View(object[r])]
    /\ lag = {}
    /\ config \in Config
    /\ configCache = config
    /\ queued = TRUE
    /\ work = NoWork
    /\ managed \in BOOLEAN
    /\ release = 1
    /\ retired = 0
    /\ owner = Unresolved
    /\ removed = {}
    /\ spent = [k \in Disturbances |-> 0]

-----------------------------------------------------------------------------
(* The administrator, OLM and the cluster.                                 *)

ChangeConfig ==
    /\ Spend("config")
    /\ \E c \in Config : c # config /\ config' = c
    /\ UNCHANGED <<object, cache, lag, configCache, queued, work, olmVars,
                   owner, removed>>

\* r is removed by somebody else than the reconciler, or to be replaced.
Remove(r) ==
    /\ object' = [object EXCEPT ![r] = NoObject]
    /\ lag' = lag \cup {r}
    /\ removed' = removed \cup {r}

DeleteByUser(r) ==
    /\ r \in Watched
    /\ object[r].live
    /\ Spend("trouble")
    /\ Remove(r)
    /\ UNCHANGED <<cache, configVars, queued, work, olmVars, owner>>

\* A new process: the events of its informers' first lists queue the request.
NewProcess ==
    /\ cache' = [r \in Resources |-> View(object[r])]
    /\ lag' = {}
    /\ configCache' = config
    /\ queued' = TRUE
    /\ work' = NoWork
    /\ owner' = Unresolved

CrashAndRestart ==
    /\ Spend("trouble")
    /\ NewProcess
    /\ UNCHANGED <<object, config, olmVars, removed>>

\* OLM installs the next release: its pod replaces the one of the last.
Upgrade ==
    /\ managed
    /\ release < MaxRelease
    /\ release' = release + 1
    /\ NewProcess
    /\ UNCHANGED <<object, config, managed, retired, removed, spent>>

\* OLM removes what belongs to the releases before.
Retire ==
    /\ retired < release - 1
    /\ retired' = release - 1
    /\ UNCHANGED <<object, cache, lag, configVars, queued, work, managed,
                   release, owner, removed, spent>>

CollectGarbage(r) ==
    /\ object[r].live
    /\ object[r].owners # {}
    /\ \A o \in object[r].owners : o <= retired
    /\ Remove(r)
    /\ UNCHANGED <<cache, configVars, queued, work, olmVars, owner, spent>>

-----------------------------------------------------------------------------
(* The informers. All events are for the one request (mapToRequest).       *)

Deliver(r) ==
    /\ r \in lag
    /\ cache' = [cache EXCEPT ![r] = View(object[r])]
    /\ lag' = lag \ {r}
    /\ queued' = (queued \/ r \in Watched)
    /\ UNCHANGED <<object, configVars, work, olmVars, owner, removed, spent>>

DeliverConfig ==
    /\ configCache # config
    /\ configCache' = config
    /\ queued' = TRUE
    /\ UNCHANGED <<object, cache, lag, config, work, olmVars, owner, removed,
                   spent>>

-----------------------------------------------------------------------------
(* Reconcile: ownership and configuration.                                 *)

GoTo(pc) == work' = [work EXCEPT !.pc = pc] /\ UNCHANGED queued

\* Start with the first resource, or with the last one.
EnsureAll(url) ==
    /\ work' = [pc |-> "ensure", at |-> 1, url |-> url]
    /\ UNCHANGED queued

DeleteAll ==
    /\ work' = [NoWork EXCEPT !.pc = "delete", !.at = Len(Order)]
    /\ UNCHANGED queued

\* Return an error: the request comes back.
ReturnError ==
    /\ work' = NoWork
    /\ queued' = TRUE

BeginReconcile ==
    /\ work.pc = "idle"
    /\ queued
    /\ queued' = FALSE
    /\ work' = [NoWork EXCEPT !.pc = "owner"]
    /\ UNCHANGED <<object, cache, lag, configVars, olmVars, owner, removed,
                   spent>>

\* Mutant: a failed resolution is only logged.
ResolveOrLog ==
    /\ work.pc = "owner"
    /\ \/ owner' = release /\ UNCHANGED spent
       \/ owner # release /\ Spend("trouble") /\ UNCHANGED owner
    /\ GoTo("config")
    /\ UNCHANGED <<object, cache, lag, configVars, olmVars, removed>>

\* resolveOLMOwnership, once per process: the owner Deployment of the pod and
\* the ClusterRoleBinding. Both are of the release that runs.
ResolveOLMOwnership ==
    /\ work.pc = "owner"
    /\ \/ owner' = release /\ GoTo("config") /\ UNCHANGED spent
       \/ owner # release /\ Spend("trouble") /\ ReturnError /\ UNCHANGED owner
    /\ UNCHANGED <<object, cache, lag, configVars, olmVars, removed>>

\* isConsolePluginEnabled.
ReadEnabled ==
    /\ work.pc = "config"
    /\ \/ configCache.enabled = "true" /\ GoTo("cluster")
       \/ configCache.enabled \in {"false", "nokey"} /\ DeleteAll
       \/ configCache.enabled \in {"bad", "absent"} /\ ReturnError
    /\ UNCHANGED <<object, cache, lag, configVars, olmVars, owner, removed,
                   spent>>

\* getAPIServerURL and getClusterID.
ReadCluster ==
    /\ work.pc = "cluster"
    /\ \/ GoTo("url") /\ UNCHANGED spent
       \/ ReturnError /\ Spend("trouble")
    /\ UNCHANGED <<object, cache, lag, configVars, olmVars, owner, removed>>

\* getGHApiURL reads the ConfigMap again; without it there is no URL.
ReadUrl ==
    /\ work.pc = "url"
    /\ EnsureAll(IF configCache.enabled = "absent" THEN NoUrl
                 ELSE configCache.url)
    /\ UNCHANGED <<object, cache, lag, configVars, olmVars, owner, removed,
                   spent>>

-----------------------------------------------------------------------------
(* Reconcile: the resources one after the other.                           *)

Current == Order[work.at]

\* Mutant: an owner reference is set only where there is none.
FirstOwner(owners) ==
    IF managed /\ owners = {} THEN {owner} ELSE owners

\* ensureOwnerRef: one more owner, those before stay.
EnsureOwnerRef(owners) == IF managed THEN owners \cup {owner} ELSE owners

\* The build functions: what is desired, with the owners it has already.
Desired(r, owners) ==
    [ live |-> TRUE, owners |-> EnsureOwnerRef(owners), own |-> TRUE,
      url |-> IF r = "Deployment" THEN work.url ELSE NoUrl ]

\* A write of r by the reconciler. One that changes nothing is no event.
Write(r, o) ==
    /\ object' = [object EXCEPT ![r] = o]
    /\ lag' = IF object' # object THEN lag \cup {r} ELSE lag
    /\ removed' = removed \ {r}

Stored(r) == IF r \in Cached THEN cache[r] ELSE View(object[r])

Advance ==
    /\ work' = IF work.at = Len(Order) THEN NoWork
               ELSE [work EXCEPT !.pc = "ensure", !.at = @ + 1]
    /\ UNCHANGED queued

Fail(cond) ==
    /\ FailsIf(cond)
    /\ ReturnError
    /\ UNCHANGED <<object, lag, removed>>

\* The branch of a resource that Get does not find: Create.
Create ==
    /\ work.pc \in {"ensure", "replace"}
    /\ work.pc = "ensure" => ~Stored(Current).live
    /\ \/ /\ ~object[Current].live
          /\ Write(Current, Desired(Current, {}))
          /\ Advance
          /\ UNCHANGED spent
       \/ Fail(object[Current].live)
    /\ UNCHANGED <<cache, configVars, olmVars, owner>>

\* Mutant: an object that is gone counts as updated.
UpdateOrIgnore ==
    /\ work.pc = "ensure"
    /\ Stored(Current).live /\ Stored(Current).own
    /\ \/ /\ object[Current].live
          /\ Current \in Cached => Current \notin lag
          /\ Write(Current, Desired(Current, object[Current].owners))
          /\ Advance
          /\ UNCHANGED spent
       \/ /\ ~object[Current].live
          /\ Advance
          /\ UNCHANGED <<object, lag, removed, spent>>
       \/ Fail(object[Current].live /\ Current \in lag \cap Cached)
    /\ UNCHANGED <<cache, configVars, olmVars, owner>>

\* The branch of one that is found: Update, which fails when it is gone or
\* the store is outdated.
Update ==
    /\ work.pc = "ensure"
    /\ Stored(Current).live /\ Stored(Current).own
    /\ \/ /\ object[Current].live
          /\ Current \in Cached => Current \notin lag
          /\ Write(Current, Desired(Current, object[Current].owners))
          /\ Advance
          /\ UNCHANGED spent
       \/ Fail(Current \in lag \cap Cached)
    /\ UNCHANGED <<cache, configVars, olmVars, owner>>

\* The branch of a RoleBinding with another roleRef: Delete, then Create.
ReplaceRoleBinding ==
    /\ work.pc = "ensure"
    /\ Stored(Current).live /\ ~Stored(Current).own
    /\ \/ Remove(Current) /\ GoTo("replace") /\ UNCHANGED spent
       \/ Fail(FALSE)
    /\ UNCHANGED <<cache, configVars, olmVars, owner>>

\* Mutant: the backend goes before the ConsolePlugin.
DeleteForward ==
    LET r == Order[Len(Order) + 1 - work.at] IN
    /\ work.pc = "delete"
    /\ Write(r, NoObject)
    /\ work' = IF work.at = 1 THEN NoWork ELSE [work EXCEPT !.at = @ - 1]
    /\ UNCHANGED <<queued, spent, cache, configVars, olmVars, owner>>

\* The delete functions: NotFound is no error.
Delete ==
    /\ work.pc = "delete"
    /\ \/ /\ Write(Current, NoObject)
          /\ work' = IF work.at = 1 THEN NoWork
                     ELSE [work EXCEPT !.at = @ - 1]
          /\ UNCHANGED <<queued, spent>>
       \/ Fail(FALSE)
    /\ UNCHANGED <<cache, configVars, olmVars, owner>>

-----------------------------------------------------------------------------
Step ==
    \/ BeginReconcile \/ ResolveOLMOwnership \/ ReadEnabled \/ ReadCluster
    \/ ReadUrl \/ Create \/ Update \/ ReplaceRoleBinding \/ Delete

Next ==
    \/ Step
    \/ DeliverConfig
    \/ \E r \in Resources : Deliver(r) \/ DeleteByUser(r) \/ CollectGarbage(r)
    \/ ChangeConfig \/ CrashAndRestart \/ Upgrade \/ Retire

Spec == Init /\ [][Next]_vars

\* The worker runs, the informers deliver, and the garbage collector collects.
FairSpec ==
    /\ Spec
    /\ WF_vars(Step) /\ WF_vars(DeliverConfig)
    /\ \A r \in Resources : WF_vars(Deliver(r)) /\ WF_vars(CollectGarbage(r))

-----------------------------------------------------------------------------
(* Properties.                                                             *)

\* The variables have their types; only the Deployment has a URL, and only
\* releases that have run own anything.
TypeOK ==
    /\ object \in [Resources -> Object]
    /\ cache \in [Resources -> Views]
    /\ \A r \in Resources :
          /\ object[r].url # NoUrl => r = "Deployment"
          /\ object[r].owners \subseteq 1 .. release
    /\ lag \in SUBSET Resources
    /\ config \in Config /\ configCache \in Config
    /\ queued \in BOOLEAN
    /\ work.pc \in Steps /\ work.at \in 0 .. Len(Order)
    /\ retired < release /\ release \in Releases
    /\ owner \in {Unresolved, release}
    /\ removed \in SUBSET Resources

\* The console never loads a plugin without its backend: while there is a
\* ConsolePlugin, the reconciler has created all it needs and removed none of
\* it, through failures and crashes half-way and a store that lags.
PluginHasBackend ==
    object["ConsolePlugin"].live =>
        \A r \in Resources : object[r].live \/ r \in removed

\* What the configuration asks for.
Installed(r) ==
    /\ object[r].live /\ object[r].own
    /\ managed => release \in object[r].owners
    /\ r = "Deployment" => object[r].url = config.url

AsConfigured ==
    /\ config.enabled = "true" => \A r \in Resources : Installed(r)
    /\ config.enabled \in {"false", "nokey"} =>
          \A r \in Resources : ~object[r].live

\* No wake-up is lost: when nothing is left to do, all is as configured, and
\* owned by the release that runs, although the Role and the RoleBinding are
\* not watched, and the ConfigMap is read twice.
ConfiguredAtRest ==
    ~queued /\ work.pc = "idle" /\ lag = {} /\ configCache = config =>
        AsConfigured

\* After the last disturbance everything gets and stays as configured: after
\* an upgrade the garbage collector does not take the resources away for good.
Converges == <>[]AsConfigured
=============================================================================
