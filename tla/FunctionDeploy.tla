---------------------------- MODULE FunctionDeploy ----------------------------
(***************************************************************************)
(* What a deployment of the FunctionReconciler relies on: the Role and the *)
(* RoleBinding that all Functions of a namespace share                     *)
(* (internal/controller/function_rbac.go), and the func CLI that the CLI   *)
(* manager downloads and replaces while the controllers run                *)
(* (internal/funccli, cmd/func-operator/main.go).                          *)
(*                                                                         *)
(* Ten workers reconcile different Functions at once; one Reconcile, from  *)
(* deploy() on, is cut before each of its writes and around the run of the *)
(* CLI. FunctionController has what comes before and after.                *)
(*                                                                         *)
(* Abstractions.                                                           *)
(*  - A Function is its instance: a name that is deleted and created again *)
(*    has another uid.                                                     *)
(*  - Of the Role: whether its rules are the expected ones. Of the         *)
(*    RoleBinding: whether it is there, and its owner references.          *)
(*  - Of a file: the release it is of, whether it is complete and whether  *)
(*    it can be executed.                                                  *)
(***************************************************************************)
EXTENDS Naturals, FiniteSets

CONSTANTS
    Functions,      \* names of Functions of one namespace
    MaxUid,         \* MaxUid[f]: instances of f
    MaxRelease,     \* releases of the CLI
    MaxTrouble      \* how often a call or the process may fail

ASSUME DeployAssumption ==
    /\ MaxUid \in [Functions -> Nat \ {0}]
    /\ MaxRelease \in Nat \ {0}
    /\ MaxTrouble \in Nat

VARIABLES
    function,   \* function[f]: the instance on the API server
    known,      \* known[f]: the uid in the informer's store, 0 without one
    role,       \* the Role deploy-function
    binding,    \* the RoleBinding
    store,      \* both in the informers' stores
    behind,     \* which of the two was written since
    queued,     \* Functions in the work queue, or that await a retry
    work,       \* work[f]: the Reconcile of f that runs
    deployed,   \* deployed[f]: the uid of the last successful deployment
    ready,      \* EnsureReady is done: the manager and its controllers run
    update,     \* checkAndUpdate, of EnsureReady or of the ticker
    latest,     \* the latest release on GitHub
    bin,        \* the file installPath/func
    tmp,        \* the file installPath/func.tmp
    disabled,   \* --disable-func-cli-update
    spent       \* how often a call or the process has failed

rbacVars == <<role, binding, store, behind>>
workVars == <<known, queued, work, deployed>>
cliVars  == <<ready, update, latest, bin, tmp, disabled>>
vars == <<function, rbacVars, workVars, cliVars, spent>>

-----------------------------------------------------------------------------
(* The data.                                                               *)

Roles == {"none", "older", "expected"}

Uids == UNION {1 .. MaxUid[f] : f \in Functions}

Owners == Functions \X Uids

Binding == [live : BOOLEAN, owners : SUBSET Owners]

NoBinding == [live |-> FALSE, owners |-> {}]

NoWork == [pc |-> "idle", uid |-> 0]

File == [ release : 0 .. MaxRelease, whole : BOOLEAN, executable : BOOLEAN ]

NoFile == [release |-> 0, whole |-> FALSE, executable |-> FALSE]

Installed(r) == [release |-> r, whole |-> TRUE, executable |-> TRUE]

NoUpdate == [pc |-> "idle", release |-> 0]

\* The process has ended.
Exited == [pc |-> "exited", release |-> 0]

Live(f, uid) == function[f].live /\ function[f].uid = uid

Trouble ==
    /\ spent < MaxTrouble
    /\ spent' = spent + 1

\* A call fails because of cond, or for a reason outside the model.
FailsIf(cond) ==
    \/ cond /\ UNCHANGED spent
    \/ Trouble

\* The image has a CLI where updates are disabled, as in manager.yaml and as
\* NewManager demands; otherwise there is nothing at the default path.
Image == IF disabled THEN Installed(1) ELSE NoFile

Init ==
    /\ function = [f \in Functions |-> [uid |-> 0, live |-> FALSE]]
    /\ known = [f \in Functions |-> 0]
    /\ role \in {"none", "older"}
    /\ binding = NoBinding
    /\ store = [role |-> role, binding |-> NoBinding]
    /\ behind = {}
    /\ queued = {}
    /\ work = [f \in Functions |-> NoWork]
    /\ deployed = [f \in Functions |-> 0]
    /\ ready = FALSE
    /\ update = NoUpdate
    /\ latest = 1
    /\ disabled \in BOOLEAN
    /\ bin = Image
    /\ tmp = NoFile
    /\ spent = 0

-----------------------------------------------------------------------------
(* The users, the cluster and the informers.                               *)

CreateFunction(f) ==
    /\ ~function[f].live
    /\ function[f].uid < MaxUid[f]
    /\ function' = [function EXCEPT ![f] = [uid |-> @.uid + 1, live |-> TRUE]]
    /\ UNCHANGED <<rbacVars, workVars, cliVars, spent>>

DeleteFunction(f) ==
    /\ function[f].live
    /\ function' = [function EXCEPT ![f].live = FALSE]
    /\ UNCHANGED <<rbacVars, workVars, cliVars, spent>>

\* The garbage collector removes a RoleBinding without a living owner, and
\* the references to owners that are gone from one that has another.
CollectGarbage ==
    LET gone == {o \in binding.owners : ~Live(o[1], o[2])} IN
    /\ gone # {}
    /\ binding' = IF gone = binding.owners THEN NoBinding
                  ELSE [binding EXCEPT !.owners = @ \ gone]
    /\ behind' = behind \cup {"binding"}
    /\ UNCHANGED <<function, role, store, workVars, cliVars, spent>>

DeliverFunction(f) ==
    LET now == IF function[f].live THEN function[f].uid ELSE 0 IN
    /\ ready
    /\ known[f] # now
    /\ known' = [known EXCEPT ![f] = now]
    /\ queued' = queued \cup {f}
    /\ UNCHANGED <<function, rbacVars, work, deployed, cliVars, spent>>

DeliverRole ==
    /\ "role" \in behind
    /\ store' = [store EXCEPT !.role = role]
    /\ behind' = behind \ {"role"}
    /\ UNCHANGED <<function, role, binding, workVars, cliVars, spent>>

DeliverBinding ==
    /\ "binding" \in behind
    /\ store' = [store EXCEPT !.binding = binding]
    /\ behind' = behind \ {"binding"}
    /\ UNCHANGED <<function, role, binding, workVars, cliVars, spent>>

-----------------------------------------------------------------------------
(* The deployment of a Function.                                           *)

GoTo(f, pc) ==
    /\ work' = [work EXCEPT ![f].pc = pc]
    /\ UNCHANGED queued

\* Mutant: the error is only logged.
LogError(f) ==
    /\ work' = [work EXCEPT ![f] = NoWork]
    /\ UNCHANGED queued

\* The Reconcile returns an error: f comes back.
ReturnError(f) ==
    /\ work' = [work EXCEPT ![f] = NoWork]
    /\ queued' = queued \cup {f}

\* A Reconcile that finds the Function not deployed, or outdated.
Begin(f) ==
    /\ ready
    /\ f \in queued /\ work[f] = NoWork
    /\ queued' = queued \ {f}
    /\ work' = IF known[f] = 0 THEN work
               ELSE [work EXCEPT ![f] = [pc |-> "role", uid |-> known[f]]]
    /\ UNCHANGED <<function, rbacVars, known, deployed, cliVars, spent>>

\* A write of the Role or the RoleBinding, or its failure: Create needs that
\* there is none, Update that the store is up to date.
WriteRole(possible) ==
    \/ /\ possible
       /\ role' = "expected"
       /\ behind' = behind \cup {"role"}
       /\ UNCHANGED spent
    \/ FailsIf(~possible) /\ UNCHANGED <<role, behind>>

\* ensureDeployFunctionRole
EnsureDeployFunctionRole(f) ==
    /\ ready /\ work[f].pc = "role"
    /\ \/ /\ store.role = "expected"
          /\ GoTo(f, "binding")
          /\ UNCHANGED <<role, behind, spent>>
       \/ /\ store.role # "expected"
          /\ WriteRole(IF store.role = "none" THEN role = "none"
                       ELSE "role" \notin behind)
          /\ IF role' # role THEN GoTo(f, "binding") ELSE ReturnError(f)
    /\ UNCHANGED <<function, binding, store, known, deployed, cliVars>>

\* Mutant: the one who creates the RoleBinding remains its only owner.
OwnedByAny(f) == store.binding.owners # {}

\* HasOwnerReference compares group, kind and name.
HasOwnerReference(f) == \E uid \in Uids : <<f, uid>> \in store.binding.owners

\* Mutant: only an update sets the owner.
SetOwnerOnUpdate(f) ==
    [ live |-> TRUE,
      owners |-> IF store.binding.live
                 THEN store.binding.owners \cup {<<f, work[f].uid>>} ELSE {} ]

\* SetOwnerReference: f's reference, in the place of one of the same name.
SetOwnerReference(f) ==
    [ live |-> TRUE,
      owners |-> {o \in store.binding.owners : o[1] # f}
                    \cup {<<f, work[f].uid>>} ]

\* ensureDeployFunctionRoleBinding
EnsureDeployFunctionRoleBinding(f) ==
    LET upToDate == store.binding.live /\ HasOwnerReference(f)
        possible == IF store.binding.live THEN "binding" \notin behind
                    ELSE ~binding.live
    IN
    /\ ready /\ work[f].pc = "binding"
    /\ \/ /\ upToDate
          /\ GoTo(f, "run")
          /\ UNCHANGED <<binding, behind, spent>>
       \/ /\ ~upToDate /\ possible
          /\ binding' = SetOwnerReference(f)
          /\ behind' = behind \cup {"binding"}
          /\ GoTo(f, "run")
          /\ UNCHANGED spent
       \/ /\ ~upToDate
          /\ FailsIf(~possible)
          /\ ReturnError(f)
          /\ UNCHANGED <<binding, behind>>
    /\ UNCHANGED <<function, role, store, known, deployed, cliVars>>

\* Run: GetBinaryPath, then the subprocess, which keeps the file it started
\* from when another takes its name.
RunCli(f) ==
    /\ ready /\ work[f].pc = "run"
    /\ \/ bin # NoFile /\ GoTo(f, "deploy") /\ UNCHANGED spent
       \/ FailsIf(bin = NoFile) /\ ReturnError(f)
    /\ UNCHANGED <<function, rbacVars, known, deployed, cliVars>>

Permitted == role = "expected" /\ binding.live

\* func deploy --remote: it succeeds when the pipeline has its permissions.
\* Of a Function that is gone nobody looks at the outcome.
FinishDeploy(f) ==
    /\ ready /\ work[f].pc = "deploy"
    /\ \/ /\ Permitted
          /\ deployed' = [deployed EXCEPT ![f] = work[f].uid]
          /\ work' = [work EXCEPT ![f] = NoWork]
          /\ UNCHANGED <<queued, spent>>
       \/ /\ FailsIf(~Permitted)
          /\ ReturnError(f)
          /\ UNCHANGED deployed
    /\ UNCHANGED <<function, rbacVars, known, cliVars>>

-----------------------------------------------------------------------------
(* The CLI manager.                                                        *)

PublishRelease ==
    /\ latest < MaxRelease
    /\ latest' = latest + 1
    /\ UNCHANGED <<function, rbacVars, workVars, ready, update, bin, tmp,
                   disabled, spent>>

UpdateFrame ==
    UNCHANGED <<function, rbacVars, workVars, latest, disabled>>

\* A file that is there already is overwritten and keeps its mode.
Received(whole) == [tmp EXCEPT !.release = update.release, !.whole = whole]

\* At any moment: a download leaves what it has received.
Crash ==
    /\ update # Exited
    /\ Trouble
    /\ ready' = FALSE
    /\ update' = Exited
    /\ \/ update.pc = "download" /\ tmp' = Received(FALSE)
       \/ UNCHANGED tmp
    /\ UNCHANGED bin
    /\ UpdateFrame

\* A new process. The file system of its container is the image's again,
\* unless the CLI is installed on a volume.
Restart ==
    /\ update = Exited
    /\ update' = NoUpdate
    /\ work' = [f \in Functions |-> NoWork]
    /\ queued' = {}
    /\ known' = [f \in Functions |-> 0]
    /\ store' = [role |-> role, binding |-> binding]
    /\ behind' = {}
    /\ \/ UNCHANGED <<bin, tmp>>
       \/ bin' = Image /\ tmp' = NoFile
    /\ UNCHANGED <<function, role, binding, deployed, ready, latest, disabled,
                   spent>>

\* Mutant: a failure of EnsureReady is only logged.
LogFailure ==
    /\ update' = NoUpdate
    /\ ready' = TRUE

\* checkAndUpdate fails: in EnsureReady main ends the process, in Start it is
\* logged and the ticker tries again.
FailUpdate ==
    /\ update' = IF ready THEN NoUpdate ELSE Exited
    /\ UNCHANGED ready

EndUpdate ==
    /\ update' = NoUpdate
    /\ ready' = TRUE

Continue(pc) ==
    /\ update' = [update EXCEPT !.pc = pc]
    /\ UNCHANGED ready

\* EnsureReady when there is nothing to do. Later checks change nothing then.
FindUpToDate ==
    /\ update = NoUpdate /\ ~ready
    /\ disabled \/ bin.release = latest
    /\ EndUpdate
    /\ UNCHANGED <<bin, tmp, spent>>
    /\ UpdateFrame

\* Mutant: only a missing CLI is downloaded.
CheckMissing ==
    /\ update = NoUpdate
    /\ ~disabled
    /\ \/ /\ bin = NoFile
          /\ update' = [pc |-> "download", release |-> latest]
          /\ UNCHANGED <<ready, spent>>
       \/ bin # NoFile /\ ~ready /\ EndUpdate /\ UNCHANGED spent
       \/ Trouble /\ FailUpdate
    /\ UNCHANGED <<bin, tmp>>
    /\ UpdateFrame

\* getLatestRelease and GetCurrentVersion, under the lock of the manager.
CheckRelease ==
    /\ update = NoUpdate
    /\ ~disabled
    /\ \/ /\ bin.release # latest
          /\ update' = [pc |-> "download", release |-> latest]
          /\ UNCHANGED <<ready, spent>>
       \/ Trouble /\ FailUpdate
    /\ UNCHANGED <<bin, tmp>>
    /\ UpdateFrame

\* downloadToFile: all of it, or it breaks off, or these are other bytes.
Download ==
    /\ update.pc = "download"
    /\ \/ tmp' = Received(TRUE) /\ Continue("verify") /\ UNCHANGED spent
       \/ tmp' = Received(FALSE) /\ Continue("verify") /\ Trouble
       \/ tmp' \in {tmp, Received(FALSE)} /\ FailUpdate /\ Trouble
    /\ UNCHANGED bin
    /\ UpdateFrame

\* A later step fails: DownloadAndInstall removes the file.
RemoveTmp ==
    /\ tmp' = NoFile
    /\ FailUpdate

\* Mutant: only the download of the checksum is checked.
FetchChecksum ==
    /\ update.pc = "verify"
    /\ \/ Continue("chmod") /\ UNCHANGED <<tmp, spent>>
       \/ RemoveTmp /\ FailsIf(FALSE)
    /\ UNCHANGED bin
    /\ UpdateFrame

\* verifyFileChecksum
VerifyFileChecksum ==
    /\ update.pc = "verify"
    /\ \/ tmp.whole /\ Continue("chmod") /\ UNCHANGED <<tmp, spent>>
       \/ RemoveTmp /\ FailsIf(~tmp.whole)
    /\ UNCHANGED bin
    /\ UpdateFrame

Chmod ==
    /\ update.pc = "chmod"
    /\ \/ /\ tmp' = [tmp EXCEPT !.executable = TRUE]
          /\ Continue("rename")
          /\ UNCHANGED spent
       \/ RemoveTmp /\ Trouble
    /\ UNCHANGED bin
    /\ UpdateFrame

Rename ==
    /\ update.pc = "rename"
    /\ \/ bin' = tmp /\ tmp' = NoFile /\ EndUpdate /\ UNCHANGED spent
       \/ RemoveTmp /\ Trouble /\ UNCHANGED bin
    /\ UpdateFrame

-----------------------------------------------------------------------------
Reconcile(f) ==
    \/ Begin(f) \/ EnsureDeployFunctionRole(f)
    \/ EnsureDeployFunctionRoleBinding(f) \/ RunCli(f) \/ FinishDeploy(f)

Manager ==
    \/ Restart \/ FindUpToDate \/ CheckRelease \/ Download
    \/ VerifyFileChecksum \/ Chmod \/ Rename

Next ==
    \/ \E f \in Functions :
          \/ Reconcile(f) \/ DeliverFunction(f)
          \/ CreateFunction(f) \/ DeleteFunction(f)
    \/ DeliverRole \/ DeliverBinding
    \/ Manager \/ CollectGarbage \/ PublishRelease \/ Crash

Spec == Init /\ [][Next]_vars

\* Workers, informers, ticker, kubelet and garbage collector go on.
FairSpec ==
    /\ Spec
    /\ \A f \in Functions : WF_vars(Reconcile(f)) /\ WF_vars(DeliverFunction(f))
    /\ WF_vars(DeliverRole) /\ WF_vars(DeliverBinding)
    /\ WF_vars(Manager) /\ WF_vars(CollectGarbage)

-----------------------------------------------------------------------------
(* Properties.                                                             *)

\* The variables have their types; a RoleBinding always has an owner, so that
\* it goes with the last Function of the namespace.
TypeOK ==
    /\ function \in [Functions -> [uid : Uids \cup {0}, live : BOOLEAN]]
    /\ known \in [Functions -> Uids \cup {0}]
    /\ role \in Roles /\ store.role \in Roles
    /\ binding \in Binding /\ store.binding \in Binding
    /\ binding.live = (binding.owners # {})
    /\ behind \subseteq {"role", "binding"}
    /\ queued \subseteq Functions
    /\ \A f \in Functions :
          /\ work[f].pc \in {"idle", "role", "binding", "run", "deploy"}
          /\ work[f].uid \in Uids \cup {0}
    /\ deployed \in [Functions -> Uids \cup {0}]
    /\ update.pc \in {"idle", "exited", "download", "verify", "chmod", "rename"}
    /\ latest \in 1 .. MaxRelease
    /\ bin \in File /\ tmp \in File

\* While func deploys a Function that has not been created anew under its
\* name, the pipeline has its Role and RoleBinding: whatever the other
\* Functions of the namespace, their deletion, the garbage collector and the
\* stale stores do.
PermittedUnlessRecreated ==
    \A f \in Functions :
        work[f].pc = "deploy" /\ Live(f, 1) => Permitted

\* What has the name of the CLI is complete, verified and executable, in the
\* middle of an update and after a crash at any point of it.
InstalledIsVerified == bin # NoFile => bin.whole /\ bin.executable

\* Workers never miss the CLI: the controllers start after it is there, and no
\* update takes it away.
ControllersHaveCli == ready => bin # NoFile

\* A Function that the informer has, that does not wait in the work queue and
\* that no worker has taken, is deployed as the instance that the informer
\* has: no failed step of deploy() is forgotten, and no outcome of a former
\* instance of the name passes for that of the present one.
DeployedAtRest ==
    \A f \in Functions :
        known[f] # 0 /\ f \notin queued /\ work[f] = NoWork
            => deployed[f] = known[f]

\* In the end every Function is deployed as the instance that it is, through
\* conflicts, lost permissions, failures and crashes.
Deploys ==
    <>[](\A f \in Functions :
            function[f].live => deployed[f] = function[f].uid)

\* In the end the newest release is installed, unless updates are disabled.
CatchesUp == <>[](disabled \/ bin = Installed(latest))
=============================================================================
