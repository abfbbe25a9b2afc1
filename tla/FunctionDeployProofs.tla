------------------------- MODULE FunctionDeployProofs -------------------------
(***************************************************************************)
(* Proofs about FunctionDeploy, for every set of Functions, every number   *)
(* of instances and releases and every number of failures: types, that the *)
(* CLI that is installed is verified and never missing, that a deployment  *)
(* has its permissions, and that no Function is left at rest undeployed.   *)
(***************************************************************************)
EXTENDS FunctionDeploy, TLAPS

-----------------------------------------------------------------------------
(* The inductive invariants.                                               *)

WorkSteps   == {"idle", "role", "binding", "run", "deploy"}
UpdateSteps == {"idle", "exited", "download", "verify", "chmod", "rename"}

\* TypeOK, and what it leaves to the shape of the definitions; a Reconcile
\* that runs has the uid of an instance.
TypeInv ==
    /\ TypeOK
    /\ work \in [Functions -> [pc : WorkSteps, uid : Uids \cup {0}]]
    /\ \A f \in Functions : work[f].pc # "idle" => work[f].uid \in Uids
    /\ store \in [role : Roles, binding : Binding]
    /\ update \in [pc : UpdateSteps, release : 0 .. MaxRelease]
    /\ ready \in BOOLEAN /\ disabled \in BOOLEAN /\ spent \in Nat

\* What each step of an update has established of func.tmp, and that the
\* controllers run only beside a CLI; without updates the CLI is the image's.
CliInv ==
    /\ InstalledIsVerified /\ ControllersHaveCli
    /\ update.pc \in {"chmod", "rename"} => tmp.whole
    /\ update.pc = "rename" => tmp.executable
    /\ update.pc = "exited" => ~ready
    /\ disabled => /\ update.pc \in {"idle", "exited"}
                   /\ bin = Installed(1)

\* Nobody refers to an instance that does not exist yet.
NoneFromTheFuture ==
    \A f \in Functions :
        /\ function[f].uid \in Nat
        /\ known[f] <= function[f].uid
        /\ work[f].uid <= function[f].uid
        /\ \A o \in binding.owners \cup store.binding.owners :
              o[1] = f => o[2] <= function[f].uid

\* The stores: outdated ones are known, and a living owner in the store is an
\* owner of the RoleBinding.
StoresInOrder ==
    /\ "binding" \notin behind => store.binding = binding
    /\ store.binding.live = (store.binding.owners # {})
    /\ store.role = "expected" => role = "expected"
    /\ \A o \in store.binding.owners : Live(o[1], o[2]) => o \in binding.owners

\* What a Reconcile that has passed its Role and its RoleBinding relies on.
WorkersRely ==
    \A f \in Functions :
        /\ work[f].pc \in {"binding", "run", "deploy"} => role = "expected"
        /\ work[f].pc \in {"run", "deploy"} /\ Live(f, 1) =>
              <<f, 1>> \in binding.owners

RbacInv == NoneFromTheFuture /\ StoresInOrder /\ WorkersRely

\* A worker has the instance that the informer has, or the Function waits for
\* another Reconcile behind it.
WorkIsCurrent ==
    \A f \in Functions :
        work[f].pc # "idle" => work[f].uid = known[f] \/ f \in queued

\* Who is known and not deployed is worked on or waits.
UndeployedIsPending ==
    \A f \in Functions :
        known[f] # 0 =>
            f \in queued \/ work[f].pc # "idle" \/ deployed[f] = known[f]

RestInv == WorkIsCurrent /\ UndeployedIsPending

-----------------------------------------------------------------------------
(* Types.                                                                   *)

\* A uid is a positive number.
LEMMA UidsArePositive == \A u \in Uids : u \in Nat /\ u # 0
BY DeployAssumption DEF Uids

\* The files, records and bindings that are written have their types.
LEMMA ConstantTypes ==
    /\ NoFile \in File /\ Installed(1) \in File /\ Image \in File
    /\ NoBinding \in Binding
    /\ NoUpdate \in [pc : UpdateSteps, release : 0 .. MaxRelease]
    /\ Exited \in [pc : UpdateSteps, release : 0 .. MaxRelease]
    /\ NoWork \in [pc : WorkSteps, uid : Uids \cup {0}]
    /\ NoUpdate.pc = "idle" /\ Exited.pc = "exited" /\ NoWork.pc = "idle"
    /\ NoWork.uid = 0
<1>1. 0 \in 0 .. MaxRelease /\ 1 \in 0 .. MaxRelease
  BY DeployAssumption
<1> QED
  BY <1>1
     DEF NoFile, Installed, Image, File, NoBinding, Binding, NoUpdate, Exited,
         UpdateSteps, NoWork, WorkSteps

\* At the start.
LEMMA InitTypes == Init => TypeInv
<1> SUFFICES ASSUME Init PROVE TypeInv
  OBVIOUS
<1>1. /\ role \in Roles /\ NoBinding.live = (NoBinding.owners # {})
      /\ latest \in 1 .. MaxRelease
  <2>1. 1 \in 1 .. MaxRelease
    BY DeployAssumption
  <2>2. ~NoBinding.live /\ NoBinding.owners = {}
    BY DEF NoBinding
  <2> QED BY <2>1, <2>2, ConstantTypes DEF Init, Roles, Binding
<1>2. store \in [role : Roles, binding : Binding]
  BY <1>1, ConstantTypes DEF Init
<1> QED
  BY <1>1, <1>2, ConstantTypes DEF Init, TypeInv, TypeOK, WorkSteps, UpdateSteps

\* The steps of the users, the cluster and the informers.
LEMMA EnvironmentTypes ==
    ASSUME TypeInv,
           \/ \E f \in Functions : CreateFunction(f) \/ DeleteFunction(f)
                                      \/ DeliverFunction(f)
           \/ DeliverRole \/ DeliverBinding \/ CollectGarbage
           \/ PublishRelease
    PROVE  TypeInv'
<1> USE DEF TypeInv, TypeOK
<1> USE DEF rbacVars, workVars, cliVars
<1>1. ASSUME NEW f \in Functions, CreateFunction(f) PROVE TypeInv'
  <2>1. function[f].uid + 1 \in Uids
    <3>1. function[f].uid \in Nat /\ MaxUid[f] \in Nat
      BY UidsArePositive, DeployAssumption
    <3>2. function[f].uid + 1 \in 1 .. MaxUid[f]
      BY <1>1, <3>1 DEF CreateFunction
    <3> QED BY <3>2 DEF Uids
  <2> QED BY <1>1, <2>1 DEF CreateFunction
<1>2. ASSUME NEW f \in Functions, DeleteFunction(f) PROVE TypeInv'
  <2>1. function' \in [Functions -> [uid : Uids \cup {0}, live : BOOLEAN]]
    <3> DEFINE instance == [uid : Uids \cup {0}, live : BOOLEAN]
    <3>1. function[f] \in instance
      OBVIOUS
    <3>2. [function[f] EXCEPT !.live = FALSE] \in instance
      BY <3>1
    <3>3. function' = [function EXCEPT ![f] = [function[f] EXCEPT !.live = FALSE]]
      BY <1>2 DEF DeleteFunction
    <3>4. function \in [Functions -> instance]
      OBVIOUS
    <3> HIDE DEF instance
    <3>5. function' \in [Functions -> instance]
      BY <3>2, <3>3, <3>4
    <3> QED BY <3>5 DEF instance
  <2> QED BY <1>2, <2>1 DEF DeleteFunction
<1>3. ASSUME NEW f \in Functions, DeliverFunction(f) PROVE TypeInv'
  BY <1>3 DEF DeliverFunction
<1>4. CASE DeliverRole
  BY <1>4 DEF DeliverRole
<1>5. CASE DeliverBinding
  BY <1>5 DEF DeliverBinding
<1>6. CASE CollectGarbage
  <2>1. binding' \in Binding /\ binding'.live = (binding'.owners # {})
    BY <1>6, ConstantTypes DEF CollectGarbage, Binding, NoBinding
  <2> QED BY <1>6, <2>1 DEF CollectGarbage
<1>7. CASE PublishRelease
  BY <1>7, DeployAssumption DEF PublishRelease
<1> QED BY <1>1, <1>2, <1>3, <1>4, <1>5, <1>6, <1>7

\* The steps of a Reconcile.
LEMMA ReconcileTypes ==
    ASSUME TypeInv, NEW f \in Functions, Reconcile(f)
    PROVE  TypeInv'
<1> USE DEF TypeInv, TypeOK
<1> USE DEF rbacVars, workVars, cliVars
<1>a. \A cond \in BOOLEAN : FailsIf(cond) => spent' \in Nat
  BY DeployAssumption DEF FailsIf, Trouble
<1>b. ASSUME NEW pc \in WorkSteps, GoTo(f, pc), work[f].pc # "idle"
      PROVE  /\ work' \in [Functions -> [pc : WorkSteps, uid : Uids \cup {0}]]
             /\ \A g \in Functions : work'[g].pc # "idle" => work'[g].uid \in Uids
             /\ queued' \subseteq Functions
  BY <1>b DEF GoTo
<1>c. ASSUME work' = [work EXCEPT ![f] = NoWork]
      PROVE  /\ work' \in [Functions -> [pc : WorkSteps, uid : Uids \cup {0}]]
             /\ \A g \in Functions : work'[g].pc # "idle" => work'[g].uid \in Uids
  <2>1. work' \in [Functions -> [pc : WorkSteps, uid : Uids \cup {0}]]
    BY <1>c, ConstantTypes
  <2>2. \A g \in Functions : work'[g] = work[g] \/ work'[g] = NoWork
    BY <1>c
  <2>3. \A g \in Functions : work'[g].pc # "idle" => work'[g].uid \in Uids
    BY <2>2, ConstantTypes
  <2> QED BY <2>1, <2>3
<1>d. ASSUME ReturnError(f)
      PROVE  /\ work' = [work EXCEPT ![f] = NoWork]
             /\ queued' \subseteq Functions
  BY <1>d DEF ReturnError
<1>1. CASE Begin(f)
  BY <1>1 DEF Begin, WorkSteps
<1>2. CASE EnsureDeployFunctionRole(f)
  BY <1>2, <1>a, <1>b, <1>c, <1>d
     DEF EnsureDeployFunctionRole, WriteRole, WorkSteps, Roles
<1>3. CASE EnsureDeployFunctionRoleBinding(f)
  <2>1. work[f].pc = "binding" => SetOwnerReference(f) \in Binding
           /\ SetOwnerReference(f).live
           /\ SetOwnerReference(f).owners # {}
    <3>1. {o \in store.binding.owners : o[1] # f} \in SUBSET Owners
      BY DEF Binding
    <3>2. work[f].pc = "binding" => <<f, work[f].uid>> \in Owners
      BY DEF Owners
    <3> QED BY <3>1, <3>2 DEF SetOwnerReference, Binding
  <2> QED
    BY <1>3, <1>a, <1>b, <1>c, <1>d, <2>1
       DEF EnsureDeployFunctionRoleBinding, WorkSteps
<1>4. CASE RunCli(f)
  BY <1>4, <1>a, <1>b, <1>c, <1>d DEF RunCli, WorkSteps
<1>5. CASE FinishDeploy(f)
  BY <1>5, <1>a, <1>b, <1>c, <1>d DEF FinishDeploy, WorkSteps
<1> QED BY <1>1, <1>2, <1>3, <1>4, <1>5 DEF Reconcile

\* The steps of the CLI manager, and a crash.
LEMMA ManagerTypes ==
    ASSUME TypeInv, Manager \/ Crash
    PROVE  TypeInv'
<1> USE DEF TypeInv, TypeOK
<1> USE DEF rbacVars, workVars, cliVars, UpdateFrame
<1>a. /\ \A cond \in BOOLEAN : FailsIf(cond) => spent' \in Nat
      /\ Trouble => spent' \in Nat
  BY DeployAssumption DEF FailsIf, Trouble
<1>b. \A whole \in BOOLEAN : Received(whole) \in File
  BY DEF Received, File
<1>c. /\ FailUpdate => /\ update' \in [pc : UpdateSteps, release : 0 .. MaxRelease]
                       /\ ready' \in BOOLEAN
      /\ EndUpdate => /\ update' \in [pc : UpdateSteps, release : 0 .. MaxRelease]
                      /\ ready' \in BOOLEAN
      /\ \A pc \in UpdateSteps : Continue(pc) =>
            /\ update' \in [pc : UpdateSteps, release : 0 .. MaxRelease]
            /\ ready' \in BOOLEAN
  BY ConstantTypes DEF FailUpdate, EndUpdate, Continue
<1>d. RemoveTmp =>
         /\ update' \in [pc : UpdateSteps, release : 0 .. MaxRelease]
         /\ ready' \in BOOLEAN /\ tmp' \in File
  BY <1>c, ConstantTypes DEF RemoveTmp
<1>1. CASE Crash
  BY <1>1, <1>a, <1>b, ConstantTypes DEF Crash, UpdateSteps
<1>2. CASE Restart
  BY <1>2, ConstantTypes DEF Restart, UpdateSteps, WorkSteps
<1>3. CASE FindUpToDate
  BY <1>3, <1>c DEF FindUpToDate, UpdateSteps
<1>4. CASE CheckRelease
  <2>1. latest \in 0 .. MaxRelease
    OBVIOUS
  <2> QED BY <1>4, <1>a, <1>c, <2>1 DEF CheckRelease, UpdateSteps
<1>5. CASE Download
  BY <1>5, <1>a, <1>b, <1>c DEF Download, UpdateSteps
<1>6. CASE VerifyFileChecksum
  BY <1>6, <1>a, <1>c, <1>d DEF VerifyFileChecksum, UpdateSteps, File
<1>7. CASE Chmod
  BY <1>7, <1>a, <1>c, <1>d DEF Chmod, UpdateSteps, File
<1>8. CASE Rename
  BY <1>8, <1>a, <1>c, <1>d, ConstantTypes DEF Rename, UpdateSteps
<1> QED BY <1>1, <1>2, <1>3, <1>4, <1>5, <1>6, <1>7, <1>8 DEF Manager

\* Each step keeps the types.
LEMMA NextTypes == TypeInv /\ [Next]_vars => TypeInv'
<1> SUFFICES ASSUME TypeInv, [Next]_vars PROVE TypeInv'
  OBVIOUS
<1>1. CASE UNCHANGED vars
  BY <1>1 DEF TypeInv, TypeOK, vars, rbacVars, workVars, cliVars
<1> QED
  BY <1>1, EnvironmentTypes, ReconcileTypes, ManagerTypes DEF Next

-----------------------------------------------------------------------------
(* The CLI.                                                                 *)

\* At the start there is the image's CLI or none, and no controller runs.
LEMMA InitCli == Init => CliInv
BY DEF Init, CliInv, InstalledIsVerified, ControllersHaveCli, Image, Installed,
       NoFile, NoUpdate

\* The steps of an update keep what the ones before it have established.
LEMMA NextKeepsCli == TypeInv /\ CliInv /\ [Next]_vars => CliInv'
<1> SUFFICES ASSUME TypeInv, CliInv, [Next]_vars PROVE CliInv'
  OBVIOUS
<1> USE DEF CliInv, InstalledIsVerified, ControllersHaveCli
<1>a. /\ tmp \in File /\ bin \in File /\ ready \in BOOLEAN
      /\ update \in [pc : UpdateSteps, release : 0 .. MaxRelease]
      /\ latest \in 1 .. MaxRelease
  BY DEF TypeInv, TypeOK
<1>b. /\ NoUpdate.pc = "idle" /\ Exited.pc = "exited"
      /\ ~NoFile.whole /\ NoFile.release = 0 /\ Installed(1) # NoFile
  BY DEF NoUpdate, Exited, NoFile, Installed
<1>c. /\ FailUpdate => /\ update'.pc \in {"idle", "exited"} /\ ready' = ready
                       /\ update'.pc = "exited" => ~ready'
      /\ EndUpdate => update'.pc = "idle" /\ ready' = TRUE
      /\ \A pc \in UpdateSteps :
            Continue(pc) => update'.pc = pc /\ ready' = ready
  BY <1>a, <1>b DEF FailUpdate, EndUpdate, Continue
<1>1. CASE UNCHANGED <<ready, update, bin, tmp, disabled>>
  BY <1>1
<1>2. CASE Crash
  BY <1>2, <1>b DEF Crash, UpdateFrame
<1>3. CASE Restart
  <2>1. update'.pc = "idle" /\ ready' = ready /\ ~ready /\ disabled' = disabled
        /\ (bin' = bin \/ bin' = Image)
    BY <1>3, <1>b DEF Restart
  <2> QED BY <2>1 DEF Image, Installed, NoFile
<1>4. CASE FindUpToDate
  <2>1. bin # NoFile
    BY <1>4, <1>a, <1>b DEF FindUpToDate
  <2> QED BY <1>4, <1>c, <2>1 DEF FindUpToDate, UpdateFrame
<1>5. CASE CheckRelease
  BY <1>5, <1>b, <1>c DEF CheckRelease, UpdateFrame
<1>6. CASE Download
  <2>1. /\ update'.pc \in {"verify", "idle", "exited"} /\ ready' = ready
        /\ update'.pc = "exited" => ~ready'
    BY <1>6, <1>c DEF Download, UpdateSteps
  <2>2. update.pc = "download" /\ UNCHANGED <<bin, disabled>>
    BY <1>6 DEF Download, UpdateFrame
  <2> QED BY <2>1, <2>2
<1>7. CASE VerifyFileChecksum
  BY <1>7, <1>c DEF VerifyFileChecksum, UpdateFrame, UpdateSteps, RemoveTmp
<1>8. CASE Chmod
  <2>1. [tmp EXCEPT !.executable = TRUE].executable
        /\ [tmp EXCEPT !.executable = TRUE].whole = tmp.whole
    BY <1>a DEF File
  <2>2. \/ /\ update'.pc \in {"idle", "exited"} /\ ready' = ready
           /\ update'.pc = "exited" => ~ready'
        \/ /\ update'.pc = "rename" /\ ready' = ready
           /\ tmp'.executable /\ tmp'.whole = tmp.whole
    BY <1>8, <1>c, <2>1 DEF Chmod, UpdateSteps, RemoveTmp
  <2>3. update.pc = "chmod" /\ UNCHANGED <<bin, disabled>>
    BY <1>8 DEF Chmod, UpdateFrame
  <2> QED BY <2>2, <2>3
<1>9. CASE Rename
  BY <1>9, <1>b, <1>c DEF Rename, UpdateFrame, UpdateSteps, RemoveTmp
<1>10. ASSUME \/ \E f \in Functions :
                    \/ Reconcile(f) \/ DeliverFunction(f)
                    \/ CreateFunction(f) \/ DeleteFunction(f)
              \/ DeliverRole \/ DeliverBinding \/ CollectGarbage
              \/ PublishRelease \/ UNCHANGED vars
       PROVE  UNCHANGED <<ready, update, bin, tmp, disabled>>
  BY <1>10
     DEF Reconcile, Begin, EnsureDeployFunctionRole,
         EnsureDeployFunctionRoleBinding, RunCli, FinishDeploy,
         DeliverFunction, CreateFunction, DeleteFunction, DeliverRole,
         DeliverBinding, CollectGarbage, PublishRelease, vars, cliVars
<1> QED
  BY <1>1, <1>2, <1>3, <1>4, <1>5, <1>6, <1>7, <1>8, <1>9, <1>10
     DEF Next, Manager

-----------------------------------------------------------------------------
(* The permissions.                                                         *)

\* At the start there is nothing to rely on.
LEMMA InitRbac == Init => RbacInv
<1> SUFFICES ASSUME Init PROVE RbacInv
  OBVIOUS
<1>1. /\ \A f \in Functions :
            /\ function[f].uid = 0 /\ known[f] = 0
            /\ work[f].uid = 0 /\ work[f].pc = "idle"
      /\ binding.owners = {} /\ ~binding.live
      /\ store.binding = binding /\ store.role = role
  BY DEF Init, NoBinding, NoWork
<1>2. NoneFromTheFuture /\ WorkersRely
  BY <1>1 DEF NoneFromTheFuture, WorkersRely
<1>3. StoresInOrder
  <2>1. ~store.binding.live /\ store.binding.owners = {}
    BY <1>1
  <2>2. store.binding.live = (store.binding.owners # {})
    BY <2>1 DEF Init, NoBinding
  <2> QED BY <1>1, <2>1, <2>2 DEF StoresInOrder
<1> QED BY <1>2, <1>3 DEF RbacInv

\* The users, the garbage collector and the informers take no permission from
\* a Function that has not been created anew.
LEMMA EnvironmentKeepsRbac ==
    ASSUME TypeInv, RbacInv,
           \/ \E f \in Functions : CreateFunction(f) \/ DeleteFunction(f)
                                      \/ DeliverFunction(f)
           \/ DeliverRole \/ DeliverBinding \/ CollectGarbage
           \/ Restart
    PROVE  RbacInv'
<1> USE DEF RbacInv, NoneFromTheFuture, StoresInOrder, WorkersRely
<1>a. /\ function \in [Functions -> [uid : Uids \cup {0}, live : BOOLEAN]]
      /\ known \in [Functions -> Uids \cup {0}]
      /\ work \in [Functions -> [pc : WorkSteps, uid : Uids \cup {0}]]
      /\ \A f \in Functions : work[f].pc # "idle" => work[f].uid \in Uids
      /\ store \in [role : Roles, binding : Binding] /\ binding \in Binding
      /\ binding.live = (binding.owners # {})
      /\ \A o \in binding.owners \cup store.binding.owners :
            o[1] \in Functions /\ o[2] \in Nat
      /\ \A f \in Functions : known[f] \in Nat /\ work[f].uid \in Nat
  BY UidsArePositive DEF TypeInv, TypeOK, Binding, Owners
<1>1. ASSUME NEW f \in Functions, CreateFunction(f) PROVE RbacInv'
  <2>1. /\ UNCHANGED <<role, binding, store, behind, known, work>>
        /\ function'[f].uid = function[f].uid + 1
        /\ \A g \in Functions \ {f} : function'[g] = function[g]
    BY <1>1, <1>a DEF CreateFunction, rbacVars, workVars
  <2>2. NoneFromTheFuture'
    <3>1. ASSUME NEW g \in Functions, NEW n \in Nat, n <= function[g].uid
          PROVE  n <= function'[g].uid
      BY <2>1, <3>1
    <3>2. function'[f].uid \in Nat
      BY <2>1
    <3> QED BY <2>1, <3>1, <3>2, <1>a
  <2>3. \A g \in Functions : \A u \in Nat :
           Live(g, u)' /\ u <= function[g].uid => Live(g, u)
    BY <2>1 DEF Live
  <2>4. StoresInOrder'
    BY <2>1, <2>3, <1>a, UidsArePositive DEF Binding, Owners
  <2>5. WorkersRely'
    <3>1. ASSUME NEW g \in Functions, work[g].pc # "idle", Live(g, 1)'
          PROVE  Live(g, 1)
      <4>1. work[g].uid \in Nat /\ work[g].uid # 0
        BY <3>1, <1>a, UidsArePositive
      <4>2. 1 <= function[g].uid
        BY <4>1
      <4> QED BY <2>3, <3>1, <4>2
    <3> QED BY <2>1, <3>1
  <2> QED BY <2>2, <2>4, <2>5
<1>2. ASSUME NEW f \in Functions, DeleteFunction(f) PROVE RbacInv'
  <2>1. /\ UNCHANGED <<role, binding, store, behind, known, work>>
        /\ \A g \in Functions : function'[g].uid = function[g].uid
        /\ \A g \in Functions : function'[g].live => function[g].live
    BY <1>2, <1>a DEF DeleteFunction, rbacVars, workVars
  <2> QED BY <2>1, <1>a DEF Live
<1>3. ASSUME NEW f \in Functions, DeliverFunction(f) PROVE RbacInv'
  <2>1. /\ UNCHANGED <<role, binding, store, behind, function, work>>
        /\ known'[f] \in {0, function[f].uid}
        /\ \A g \in Functions \ {f} : known'[g] = known[g]
    BY <1>3, <1>a DEF DeliverFunction, rbacVars
  <2> QED BY <2>1 DEF Live
<1>4. CASE DeliverRole
  BY <1>4, <1>a DEF DeliverRole, workVars, Live
<1>5. CASE DeliverBinding
  BY <1>5, <1>a DEF DeliverBinding, workVars, Live
<1>6. CASE CollectGarbage
  <2>1. /\ UNCHANGED <<role, store, function, known, work>>
        /\ behind' = behind \cup {"binding"}
    BY <1>6 DEF CollectGarbage, workVars
  <2>2. binding'.owners = {o \in binding.owners : Live(o[1], o[2])}
    BY <1>6, <1>a DEF CollectGarbage, NoBinding, Binding
  <2> QED BY <2>1, <2>2 DEF Live
<1>7. CASE Restart
  <2>1. /\ UNCHANGED <<role, binding, function>>
        /\ store' = [role |-> role, binding |-> binding]
        /\ work' = [f \in Functions |-> NoWork]
        /\ known' = [f \in Functions |-> 0]
    BY <1>7 DEF Restart
  <2>2. NoWork.pc = "idle" /\ NoWork.uid = 0
    BY DEF NoWork
  <2> QED BY <2>1, <2>2, <1>a DEF Live
<1> QED BY <1>1, <1>2, <1>3, <1>4, <1>5, <1>6, <1>7

\* A Function that has not been created anew has the first uid.
LEMMA FirstInstance ==
    ASSUME TypeInv, RbacInv, NEW f \in Functions, Live(f, 1),
           work[f].pc # "idle"
    PROVE  /\ work[f].uid = 1
           /\ \A o \in store.binding.owners : o[1] = f => o = <<f, 1>>
<1>1. function[f].uid = 1 /\ work[f].uid \in Uids
  BY DEF Live, TypeInv
<1>2. work[f].uid <= 1
  BY <1>1 DEF RbacInv, NoneFromTheFuture
<1>3. work[f].uid = 1
  BY <1>1, <1>2, UidsArePositive
<1>4. ASSUME NEW o \in store.binding.owners, o[1] = f PROVE o = <<f, 1>>
  <2>1. o \in Owners
    BY DEF TypeInv, TypeOK, Binding
  <2>2. o[2] <= 1 /\ o[2] \in Uids
    BY <1>1, <1>4, <2>1 DEF RbacInv, NoneFromTheFuture, Owners
  <2>3. o[2] = 1
    BY <2>2, UidsArePositive
  <2> QED BY <1>4, <2>1, <2>3 DEF Owners
<1> QED BY <1>3, <1>4

\* A Reconcile takes no permission from another one: SetOwnerReference writes
\* the owners of an up-to-date store, and a RoleBinding is created only where
\* there is none.
LEMMA ReconcileKeepsRbac ==
    ASSUME TypeInv, RbacInv, NEW f \in Functions, Reconcile(f)
    PROVE  RbacInv'
<1> USE DEF RbacInv, NoneFromTheFuture, StoresInOrder, WorkersRely
<1>a. /\ known \in [Functions -> Uids \cup {0}]
      /\ work \in [Functions -> [pc : WorkSteps, uid : Uids \cup {0}]]
      /\ store \in [role : Roles, binding : Binding] /\ binding \in Binding
      /\ binding.live = (binding.owners # {})
      /\ \A g \in Functions : work[g].pc # "idle" => work[g].uid \in Uids
  BY DEF TypeInv, TypeOK
<1>b. NoWork.pc = "idle" /\ NoWork.uid = 0
  BY DEF NoWork
<1>c. \A g \in Functions \ {f} : work'[g] = work[g]
  BY <1>a
     DEF Reconcile, Begin, EnsureDeployFunctionRole,
         EnsureDeployFunctionRoleBinding, RunCli, FinishDeploy, GoTo,
         ReturnError
<1>d. UNCHANGED <<function, known, store>>
  BY DEF Reconcile, Begin, EnsureDeployFunctionRole,
         EnsureDeployFunctionRoleBinding, RunCli, FinishDeploy, rbacVars
\* A step that changes neither Role nor RoleBinding.
<1>e. ASSUME UNCHANGED <<role, binding, behind>>,
             work'[f].uid <= function[f].uid,
             work'[f].pc \in {"binding", "run", "deploy"} => role = "expected",
             work'[f].pc \in {"run", "deploy"} /\ Live(f, 1) =>
                <<f, 1>> \in binding.owners
      PROVE  RbacInv'
  BY <1>c, <1>d, <1>e DEF Live
<1>f. \A pc \in WorkSteps : GoTo(f, pc) =>
         work'[f].pc = pc /\ work'[f].uid = work[f].uid
  BY <1>a DEF GoTo
<1>g. function[f].uid \in Nat
  OBVIOUS
<1>h. ReturnError(f) => work'[f].pc = "idle" /\ work'[f].uid = 0
  BY <1>a, <1>b DEF ReturnError
<1>1. CASE Begin(f)
  <2>1. \/ work' = work
        \/ work'[f].pc = "role" /\ work'[f].uid = known[f]
    BY <1>1, <1>a DEF Begin
  <2> QED BY <1>1, <1>e, <2>1 DEF Begin, rbacVars
<1>2. CASE EnsureDeployFunctionRole(f)
  <2>1. UNCHANGED binding /\ work[f].pc = "role"
    BY <1>2 DEF EnsureDeployFunctionRole
  <2>2. CASE UNCHANGED <<role, behind>>
    <3>1. \/ work'[f].pc = "idle" /\ work'[f].uid = 0
          \/ /\ store.role = "expected"
             /\ work'[f].pc = "binding" /\ work'[f].uid = work[f].uid
      BY <1>2, <1>f, <1>h, <2>2 DEF EnsureDeployFunctionRole, WorkSteps
    <3> QED BY <1>e, <1>g, <2>1, <2>2, <3>1
  <2>3. CASE role' = "expected" /\ behind' = behind \cup {"role"}
    <3>1. \/ work'[f].pc = "idle" /\ work'[f].uid = 0
          \/ work'[f].pc = "binding" /\ work'[f].uid = work[f].uid
      BY <1>2, <1>f, <1>h DEF EnsureDeployFunctionRole, WorkSteps
    <3> QED BY <1>c, <1>d, <1>g, <2>1, <2>3, <3>1 DEF Live
  <2> QED
    BY <1>2, <2>2, <2>3 DEF EnsureDeployFunctionRole, WriteRole
<1>3. CASE EnsureDeployFunctionRoleBinding(f)
  <2>1. UNCHANGED role /\ work[f].pc = "binding" /\ role = "expected"
    BY <1>3 DEF EnsureDeployFunctionRoleBinding
  <2>2. CASE UNCHANGED <<binding, behind>> /\ ReturnError(f)
    BY <1>e, <1>g, <1>h, <2>1, <2>2
  <2>3. CASE /\ UNCHANGED <<binding, behind>> /\ GoTo(f, "run")
             /\ store.binding.live /\ HasOwnerReference(f)
    <3>1. work'[f].pc = "run" /\ work'[f].uid = work[f].uid
      BY <1>f, <2>3 DEF WorkSteps
    <3>2. Live(f, 1) => <<f, 1>> \in binding.owners
      BY <2>1, <2>3, FirstInstance DEF HasOwnerReference
    <3> QED BY <1>e, <2>1, <2>3, <3>1, <3>2
  <2>4. CASE /\ ~(store.binding.live /\ HasOwnerReference(f))
             /\ IF store.binding.live THEN "binding" \notin behind
                ELSE ~binding.live
             /\ binding' = SetOwnerReference(f)
             /\ behind' = behind \cup {"binding"}
             /\ GoTo(f, "run")
    <3>1. work'[f].pc = "run" /\ work'[f].uid = work[f].uid
      BY <1>f, <2>4 DEF WorkSteps
    <3>2. binding'.owners = {o \in store.binding.owners : o[1] # f}
                               \cup {<<f, work[f].uid>>}
      BY <2>4 DEF SetOwnerReference
    <3>3. \A o \in store.binding.owners : o[1] # f
      <4>1. ASSUME NEW o \in store.binding.owners, o[1] = f
            PROVE  HasOwnerReference(f)
        <5>1. store.binding \in Binding
          BY <1>a
        <5>2. o \in Owners
          BY <5>1 DEF Binding
        <5>3. o = <<f, o[2]>> /\ o[2] \in Uids
          BY <4>1, <5>2 DEF Owners
        <5> QED BY <5>3 DEF HasOwnerReference
      <4> QED BY <2>4, <4>1
    <3>4. binding.owners \subseteq store.binding.owners
      BY <1>a, <2>4
    <3>5. NoneFromTheFuture'
      <4>1. \A o \in binding'.owners \cup store'.binding.owners :
               \/ o \in store.binding.owners
               \/ o = <<f, work[f].uid>>
        BY <1>d, <3>2
      <4> QED BY <1>c, <1>d, <3>1, <4>1
    <3>6. StoresInOrder'
      BY <1>d, <2>1, <2>4, <3>2, <3>3 DEF Live
    <3>7. WorkersRely'
      <4>1. Live(f, 1) => <<f, 1>> \in binding'.owners
        BY <2>1, <3>2, FirstInstance
      <4>2. \A g \in Functions \ {f} :
               <<g, 1>> \in binding.owners => <<g, 1>> \in binding'.owners
        BY <3>2, <3>4
      <4> QED BY <1>c, <1>d, <2>1, <3>1, <4>1, <4>2 DEF Live
    <3> QED BY <3>5, <3>6, <3>7
  <2> QED
    BY <1>3, <2>2, <2>3, <2>4 DEF EnsureDeployFunctionRoleBinding
<1>4. CASE RunCli(f)
  <2>1. \/ work'[f].pc = "idle" /\ work'[f].uid = 0
        \/ /\ work'[f].pc = "deploy" /\ work'[f].uid = work[f].uid
           /\ work[f].pc = "run"
    BY <1>4, <1>f, <1>h DEF RunCli, WorkSteps
  <2> QED BY <1>4, <1>e, <1>g, <2>1 DEF RunCli, rbacVars
<1>5. CASE FinishDeploy(f)
  <2>1. work'[f].pc = "idle" /\ work'[f].uid = 0
    BY <1>5, <1>a, <1>b, <1>h DEF FinishDeploy
  <2> QED BY <1>5, <1>e, <1>g, <2>1 DEF FinishDeploy, rbacVars
<1> QED BY <1>1, <1>2, <1>3, <1>4, <1>5 DEF Reconcile

\* Each step keeps the permissions.
LEMMA NextKeepsRbac == TypeInv /\ RbacInv /\ [Next]_vars => RbacInv'
<1> SUFFICES ASSUME TypeInv, RbacInv, [Next]_vars PROVE RbacInv'
  OBVIOUS
<1>1. ASSUME \/ FindUpToDate \/ CheckRelease \/ Download
             \/ VerifyFileChecksum \/ Chmod \/ Rename \/ Crash
             \/ PublishRelease \/ UNCHANGED vars
      PROVE  RbacInv'
  <2>1. UNCHANGED <<function, known, role, binding, store, behind, work>>
    BY <1>1
       DEF FindUpToDate, CheckRelease, Download, VerifyFileChecksum, Chmod,
           Rename, Crash, PublishRelease, UpdateFrame, vars, rbacVars,
           workVars
  <2> QED
    BY <2>1
       DEF RbacInv, NoneFromTheFuture, StoresInOrder, WorkersRely, Live
<1> QED
  BY <1>1, EnvironmentKeepsRbac, ReconcileKeepsRbac DEF Next, Manager

-----------------------------------------------------------------------------
(* What is left at rest.                                                    *)

\* At the start no Function is known.
LEMMA InitRest == Init => RestInv
BY DEF Init, RestInv, WorkIsCurrent, UndeployedIsPending, NoWork

\* The steps of a Reconcile: it ends with a deployment of the instance that it
\* has begun with, or its Function is queued.
LEMMA ReconcileKeepsRest ==
    ASSUME TypeInv, RestInv, NEW f \in Functions, Reconcile(f)
    PROVE  RestInv'
<1>a. /\ work \in [Functions -> [pc : WorkSteps, uid : Uids \cup {0}]]
      /\ queued \subseteq Functions
      /\ deployed \in [Functions -> Uids \cup {0}]
  BY DEF TypeInv, TypeOK
<1>b. known' = known
  BY DEF Reconcile, Begin, EnsureDeployFunctionRole,
         EnsureDeployFunctionRoleBinding, RunCli, FinishDeploy
<1>c. NoWork.pc = "idle"
  BY DEF NoWork
<1>d. /\ work' = [work EXCEPT ![f] = work'[f]]
      /\ \A g \in Functions \ {f} :
            /\ g \in queued <=> g \in queued'
            /\ deployed'[g] = deployed[g]
  <2>1. \/ work' = work
        \/ \E w : work' = [work EXCEPT ![f] = w]
    BY <1>a
       DEF Reconcile, Begin, EnsureDeployFunctionRole,
           EnsureDeployFunctionRoleBinding, RunCli, FinishDeploy, GoTo,
           ReturnError
  <2>2. work' = [work EXCEPT ![f] = work'[f]]
    BY <1>a, <2>1
  <2>3. /\ queued' \in {queued, queued \cup {f}, queued \ {f}}
        /\ deployed' \in {deployed, [deployed EXCEPT ![f] = work[f].uid]}
    BY DEF Reconcile, Begin, EnsureDeployFunctionRole,
           EnsureDeployFunctionRoleBinding, RunCli, FinishDeploy, GoTo,
           ReturnError
  <2> QED BY <1>a, <2>2, <2>3
<1>e. ASSUME \/ work'[f].pc = "idle" /\ known[f] = 0
             \/ work'[f].pc = "idle" /\ f \in queued'
             \/ /\ work'[f].pc # "idle"
                /\ work'[f].uid = known[f] \/ f \in queued'
             \/ /\ work'[f].pc = "idle"
                /\ deployed'[f] = known[f] \/ f \in queued'
      PROVE  RestInv'
  <2>1. \A g \in Functions \ {f} : work'[g] = work[g]
    BY <1>a, <1>d
  <2> QED
    BY <1>b, <1>d, <1>e, <2>1 DEF RestInv, WorkIsCurrent, UndeployedIsPending
<1>f. ASSUME ReturnError(f) PROVE work'[f].pc = "idle" /\ f \in queued'
  BY <1>a, <1>c, <1>f DEF ReturnError
<1>g. ASSUME NEW pc \in WorkSteps \ {"idle"}, work[f].pc # "idle", GoTo(f, pc)
      PROVE  /\ work'[f].pc # "idle"
             /\ work'[f].uid = known[f] \/ f \in queued'
  <2>1. work'[f].pc = pc /\ work'[f].uid = work[f].uid /\ queued' = queued
    BY <1>a, <1>g DEF GoTo
  <2> QED BY <1>g, <2>1 DEF RestInv, WorkIsCurrent
<1>1. CASE Begin(f)
  <2>1. CASE known[f] = 0
    <3>1. work'[f].pc = "idle"
      BY <1>1, <1>c, <2>1 DEF Begin
    <3> QED BY <1>e, <2>1, <3>1
  <2>2. CASE known[f] # 0
    <3>1. work'[f].pc = "role" /\ work'[f].uid = known[f]
      BY <1>1, <1>a, <2>2 DEF Begin
    <3> QED BY <1>e, <3>1
  <2> QED BY <2>1, <2>2
<1>2. CASE EnsureDeployFunctionRole(f)
  <2>1. work[f].pc # "idle" /\ (GoTo(f, "binding") \/ ReturnError(f))
    BY <1>2 DEF EnsureDeployFunctionRole
  <2> QED BY <1>e, <1>f, <1>g, <2>1 DEF WorkSteps
<1>3. CASE EnsureDeployFunctionRoleBinding(f)
  <2>1. work[f].pc # "idle" /\ (GoTo(f, "run") \/ ReturnError(f))
    BY <1>3 DEF EnsureDeployFunctionRoleBinding
  <2> QED BY <1>e, <1>f, <1>g, <2>1 DEF WorkSteps
<1>4. CASE RunCli(f)
  <2>1. work[f].pc # "idle" /\ (GoTo(f, "deploy") \/ ReturnError(f))
    BY <1>4 DEF RunCli
  <2> QED BY <1>e, <1>f, <1>g, <2>1 DEF WorkSteps
<1>5. CASE FinishDeploy(f)
  <2>1. CASE ReturnError(f)
    BY <1>e, <1>f, <2>1
  <2>2. CASE ~ReturnError(f)
    <3>1. /\ deployed' = [deployed EXCEPT ![f] = work[f].uid]
          /\ work' = [work EXCEPT ![f] = NoWork] /\ queued' = queued
      BY <1>5, <2>2 DEF FinishDeploy
    <3>2. deployed'[f] = work[f].uid /\ work'[f].pc = "idle"
      BY <1>a, <1>c, <3>1
    <3>3. work[f].uid = known[f] \/ f \in queued
      BY <1>5 DEF FinishDeploy, RestInv, WorkIsCurrent
    <3> QED BY <1>e, <3>1, <3>2, <3>3
  <2> QED BY <2>1, <2>2
<1> QED BY <1>1, <1>2, <1>3, <1>4, <1>5 DEF Reconcile

\* Each step: the informer queues what it delivers, and a new process has to
\* learn of every Function anew.
LEMMA NextKeepsRest == TypeInv /\ RestInv /\ [Next]_vars => RestInv'
<1> SUFFICES ASSUME TypeInv, RestInv, [Next]_vars PROVE RestInv'
  OBVIOUS
<1>1. ASSUME NEW f \in Functions, DeliverFunction(f) PROVE RestInv'
  <2>1. /\ queued' = queued \cup {f} /\ work' = work /\ deployed' = deployed
        /\ \A g \in Functions \ {f} : known'[g] = known[g]
    BY <1>1 DEF DeliverFunction, TypeInv, TypeOK
  <2> QED BY <2>1 DEF RestInv, WorkIsCurrent, UndeployedIsPending
<1>2. CASE Restart
  <2>1. \A f \in Functions : known'[f] = 0 /\ work'[f].pc = "idle"
    BY <1>2 DEF Restart, NoWork
  <2> QED BY <2>1 DEF RestInv, WorkIsCurrent, UndeployedIsPending
<1>3. ASSUME \/ \E f \in Functions : CreateFunction(f) \/ DeleteFunction(f)
             \/ DeliverRole \/ DeliverBinding \/ CollectGarbage
             \/ FindUpToDate \/ CheckRelease \/ Download
             \/ VerifyFileChecksum \/ Chmod \/ Rename \/ Crash
             \/ PublishRelease \/ UNCHANGED vars
      PROVE  RestInv'
  <2>1. UNCHANGED workVars
    BY <1>3
       DEF CreateFunction, DeleteFunction, DeliverRole, DeliverBinding,
           CollectGarbage, FindUpToDate, CheckRelease, Download,
           VerifyFileChecksum, Chmod, Rename, Crash, PublishRelease,
           UpdateFrame, vars
  <2> QED
    BY <2>1 DEF workVars, RestInv, WorkIsCurrent, UndeployedIsPending
<1> QED
  BY <1>1, <1>2, <1>3, ReconcileKeepsRest DEF Next, Manager

-----------------------------------------------------------------------------
(* The theorems.                                                            *)

\* The invariants hold in every state.
LEMMA InvariantsHold == Spec => [](TypeInv /\ CliInv /\ RbacInv /\ RestInv)
BY InitTypes, InitCli, InitRbac, InitRest, NextTypes, NextKeepsCli,
   NextKeepsRbac, NextKeepsRest, PTL
   DEF Spec

\* Every variable has its type in every state, and the RoleBinding has an owner
\* as long as it is there (SetOwnerReference).
THEOREM TypeCorrect == Spec => []TypeOK
<1>1. TypeInv => TypeOK
  BY DEF TypeInv
<1> QED BY <1>1, InvariantsHold, PTL

\* What DownloadAndInstall puts in the place of the CLI is complete, verified
\* and executable, at whatever point of it the process fails or ends.
THEOREM InstalledStaysVerified == Spec => []InstalledIsVerified
<1>1. CliInv => InstalledIsVerified
  BY DEF CliInv
<1> QED BY <1>1, InvariantsHold, PTL

\* EnsureReady: the controllers run only while there is a CLI, and no update
\* takes it away from their workers.
THEOREM ControllersKeepCli == Spec => []ControllersHaveCli
<1>1. CliInv => ControllersHaveCli
  BY DEF CliInv
<1> QED BY <1>1, InvariantsHold, PTL

\* A Function that has not been deleted and created again is deployed with the
\* Role and the RoleBinding of its namespace, whatever the other Functions, the
\* garbage collector and the stale stores do.
THEOREM DeploymentsArePermitted == Spec => []PermittedUnlessRecreated
<1>1. TypeInv /\ RbacInv => PermittedUnlessRecreated
  BY DEF TypeInv, TypeOK, RbacInv, WorkersRely, PermittedUnlessRecreated,
         Permitted
<1> QED BY <1>1, InvariantsHold, PTL

\* No error of deploy() and no crash leaves a Function of the informer's store
\* undeployed and unattended, and a former instance's deployment does not pass
\* for the present one's.
THEOREM RestIsDeployed == Spec => []DeployedAtRest
<1>1. TypeInv /\ RestInv => DeployedAtRest
  BY ConstantTypes DEF RestInv, UndeployedIsPending, DeployedAtRest
<1> QED BY <1>1, InvariantsHold, PTL
=============================================================================
