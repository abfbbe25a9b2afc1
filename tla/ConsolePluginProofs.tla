-------------------------- MODULE ConsolePluginProofs --------------------------
(***************************************************************************)
(* Proofs about ConsolePlugin, for every choice of the resources, the      *)
(* values of the ConfigMap, the releases and the disturbances: types, that *)
(* a ConsolePlugin has its backend, and that at rest all is as configured. *)
(***************************************************************************)
EXTENDS ConsolePlugin, TLAPS

-----------------------------------------------------------------------------
(* The inductive invariants.                                               *)

\* The Reconcile knows its owner.
Resolved == work.pc \in Steps \ {"idle", "owner"}

\* The Reconcile is at a resource.
AtResource == work.pc \in {"ensure", "replace", "delete"}

WorkType == [pc : Steps, at : 0 .. Len(Order), url : Urls \cup {NoUrl}]

\* TypeOK, and what it leaves to the shape of the definitions. Without OLM
\* nothing has an owner; with it a Reconcile has resolved its own before it
\* comes to the resources.
TypeInv ==
    /\ TypeOK
    /\ work \in WorkType
    /\ AtResource => work.at \in 1 .. Len(Order)
    /\ managed \in BOOLEAN /\ release \in Nat /\ retired \in Nat
    /\ Resolved => owner = release
    /\ managed \/ \A r \in Resources : object[r].owners = {}

\* There, or removed by somebody else than the reconciler.
Accounted(r) == object[r].live \/ r \in removed

\* The resources before the present one have been ensured, those after it
\* deleted, the ConsolePlugin first.
BackendInv ==
    /\ PluginHasBackend
    /\ work.pc \in {"ensure", "replace"} =>
          \A i \in 1 .. work.at - 1 : Accounted(Order[i])
    /\ work.pc = "delete" /\ work.at < Len(Order) =>
          ~object["ConsolePlugin"].live

\* r is as the ConfigMap in the store asks for, or an event of r is to come.
Kept(r) ==
    \/ r \in lag \cap Watched
    \/ /\ object[r].live /\ object[r].own
       /\ managed => release \in object[r].owners
       /\ r = "Deployment" => object[r].url = configCache.url

Gone(r) == r \in lag \cap Watched \/ ~object[r].live

\* What a Reconcile has established of the ConfigMap in the store, as long as
\* no other one is due.
RestInv ==
    ~queued =>
        /\ work.pc \in {"cluster", "url", "ensure", "replace"} =>
              configCache.enabled = "true"
        /\ work.pc \in {"ensure", "replace"} =>
              /\ work.url = configCache.url
              /\ \A i \in 1 .. work.at - 1 : Kept(Order[i])
        /\ work.pc = "delete" =>
              /\ configCache.enabled \in {"false", "nokey"}
              /\ \A i \in work.at + 1 .. Len(Order) : Gone(Order[i])
        /\ work.pc = "idle" =>
              /\ configCache.enabled = "true" => \A r \in Resources : Kept(r)
              /\ configCache.enabled \in {"false", "nokey"} =>
                    \A r \in Resources : Gone(r)

Inv == TypeInv /\ BackendInv /\ RestInv

-----------------------------------------------------------------------------
(* The order of the resources.                                             *)

\* The resources are different, the last one is the ConsolePlugin.
LEMMA OrderIsProper ==
    /\ Len(Order) \in Nat \ {0}
    /\ \A i \in 1 .. Len(Order) : Order[i] \in Resources
    /\ \A i, j \in 1 .. Len(Order) : Order[i] = Order[j] => i = j
    /\ \A r \in Resources : \E i \in 1 .. Len(Order) : r = Order[i]
    /\ Order[Len(Order)] = "ConsolePlugin" /\ "ConsolePlugin" \in Resources
<1>1. Order \in Seq(AllResources) /\ Order # <<>>
  BY OrderAssumption
<1>2. Len(Order) \in Nat \ {0}
  BY <1>1
<1>3. ASSUME NEW r, Before(r, r) PROVE FALSE
  <2>1. PICK k, l \in 1 .. Len(FullOrder) :
           k < l /\ FullOrder[k] = r /\ FullOrder[l] = r
    BY <1>3 DEF Before
  <2>2. Len(FullOrder) = 6
    BY DEF FullOrder
  <2>3. k \in 1 .. 6 /\ l \in 1 .. 6
    BY <2>2
  <2>4. /\ FullOrder[1] = "ServiceAccount" /\ FullOrder[2] = "Role"
        /\ FullOrder[3] = "RoleBinding" /\ FullOrder[4] = "Service"
        /\ FullOrder[5] = "Deployment" /\ FullOrder[6] = "ConsolePlugin"
    BY DEF FullOrder
  <2> QED BY <2>1, <2>3, <2>4
<1>4. ASSUME NEW i \in 1 .. Len(Order), NEW j \in 1 .. Len(Order),
             Order[i] = Order[j]
      PROVE  i = j
  <2>1. CASE i < j
    BY <1>3, <1>4, <2>1, OrderAssumption
  <2>2. CASE j < i
    BY <1>3, <1>4, <2>2, OrderAssumption
  <2> QED BY <1>2, <2>1, <2>2
<1>5. Len(Order) \in 1 .. Len(Order)
  BY <1>2
<1> QED BY <1>2, <1>4, <1>5, OrderAssumption DEF Resources

-----------------------------------------------------------------------------
(* Types.                                                                   *)

\* The objects and records that are written have their types.
LEMMA ConstantTypes ==
    /\ NoObject \in Object /\ ~NoObject.live
    /\ NoObject.owners = {} /\ NoObject.url = NoUrl
    /\ NoWork \in WorkType
    /\ NoWork.pc = "idle" /\ NoWork.url = NoUrl
    /\ \A o \in Object : View(o) \in Views
BY OrderIsProper DEF NoObject, Object, NoWork, WorkType, Steps, View, Views

\* At the start.
LEMMA InitTypes == Init => TypeInv
<1> SUFFICES ASSUME Init PROVE TypeInv
  OBVIOUS
<1>1. PICK old \in BOOLEAN :
         object = [r \in Resources |->
                     [NoObject EXCEPT !.live = old,
                                      !.own = r = "RoleBinding" => ~old]]
  BY DEF Init
<1>2. ASSUME NEW r \in Resources
      PROVE  /\ object[r] \in Object
             /\ object[r].owners = {} /\ object[r].url = NoUrl
  <2>1. (r = "RoleBinding" => ~old) \in BOOLEAN
    OBVIOUS
  <2>2. \A b \in BOOLEAN :
           LET o == [NoObject EXCEPT !.live = old, !.own = b]
           IN  o \in Object /\ o.owners = {} /\ o.url = NoUrl
    BY DEF NoObject, Object
  <2> QED BY <1>1, <2>1, <2>2
<1>3. object \in [Resources -> Object]
  BY <1>1, <1>2
<1>4. cache \in [Resources -> Views]
  BY <1>2, ConstantTypes DEF Init
<1>5. 1 \in Releases /\ 0 \in 0 .. Len(Order)
  BY PluginAssumption, OrderIsProper DEF Releases
<1>6. /\ work \in WorkType
      /\ ~AtResource /\ ~Resolved
  BY ConstantTypes DEF Init, AtResource, Resolved
<1>7. work.pc \in Steps /\ work.at \in 0 .. Len(Order)
  BY <1>6 DEF WorkType
<1>8. /\ release = 1 /\ retired = 0 /\ release \in Releases
      /\ owner \in {Unresolved, release} /\ managed \in BOOLEAN
      /\ config \in Config /\ configCache \in Config /\ queued \in BOOLEAN
      /\ lag = {} /\ removed = {}
  BY <1>5 DEF Init
<1>9. \A r \in Resources : object[r].owners = {} /\ object[r].url = NoUrl
  BY <1>2
<1>10. TypeOK
  BY <1>3, <1>4, <1>7, <1>8, <1>9 DEF TypeOK
<1> QED BY <1>6, <1>8, <1>9, <1>10 DEF TypeInv

\* The steps of administrator, users, OLM, cluster and informers.
LEMMA EnvironmentTypes ==
    ASSUME TypeInv,
           \/ \E r \in Resources :
                 Deliver(r) \/ DeleteByUser(r) \/ CollectGarbage(r)
           \/ DeliverConfig \/ ChangeConfig \/ CrashAndRestart
           \/ Upgrade \/ Retire
    PROVE  TypeInv'
<1> USE DEF TypeInv, TypeOK, configVars, olmVars, Resolved, AtResource
<1>a. ASSUME NEW r \in Resources, Remove(r), UNCHANGED release
      PROVE  /\ object' \in [Resources -> Object]
             /\ \A q \in Resources :
                   /\ object'[q].url # NoUrl => q = "Deployment"
                   /\ object'[q].owners \subseteq 1 .. release'
                   /\ object'[q].owners \subseteq object[q].owners
             /\ lag' \in SUBSET Resources
             /\ removed' \in SUBSET Resources
  <2>1. \A q \in Resources : object'[q] \in {object[q], NoObject}
    BY <1>a DEF Remove
  <2>2. object' \in [Resources -> Object]
    BY <1>a, ConstantTypes DEF Remove
  <2> QED BY <1>a, <2>1, <2>2, ConstantTypes DEF Remove
<1>b. NewProcess => /\ cache' \in [Resources -> Views]
                    /\ lag' \in SUBSET Resources
                    /\ configCache' \in Config
                    /\ queued' \in BOOLEAN /\ work' = NoWork
                    /\ owner' = Unresolved
  BY ConstantTypes DEF NewProcess
<1>1. ASSUME NEW r \in Resources, Deliver(r) PROVE TypeInv'
  BY <1>1, ConstantTypes DEF Deliver
<1>2. ASSUME NEW r \in Resources, DeleteByUser(r) PROVE TypeInv'
  BY <1>2, <1>a DEF DeleteByUser
<1>3. ASSUME NEW r \in Resources, CollectGarbage(r) PROVE TypeInv'
  BY <1>3, <1>a DEF CollectGarbage
<1>4. CASE DeliverConfig
  BY <1>4 DEF DeliverConfig
<1>5. CASE ChangeConfig
  BY <1>5 DEF ChangeConfig
<1>6. CASE CrashAndRestart
  BY <1>6, <1>b, ConstantTypes DEF CrashAndRestart, WorkType
<1>7. CASE Upgrade
  <2>1. release' \in Releases /\ release' = release + 1
    BY <1>7, PluginAssumption DEF Upgrade, Releases
  <2>2. \A r \in Resources : object[r].owners \subseteq 1 .. release + 1
    OBVIOUS
  <2> QED BY <1>7, <1>b, <2>1, <2>2, ConstantTypes DEF Upgrade, WorkType
<1>8. CASE Retire
  BY <1>8 DEF Retire
<1> QED BY <1>1, <1>2, <1>3, <1>4, <1>5, <1>6, <1>7, <1>8

\* What a write of the present resource does.
LEMMA WriteTypes ==
    ASSUME TypeInv, AtResource, UNCHANGED olmVars,
           NEW o \in Object, Write(Current, o),
           o.url # NoUrl => Current = "Deployment",
           o.owners \subseteq 1 .. release, managed \/ o.owners = {}
    PROVE  /\ object' \in [Resources -> Object]
           /\ \A q \in Resources :
                 /\ object'[q].url # NoUrl => q = "Deployment"
                 /\ object'[q].owners \subseteq 1 .. release'
                 /\ managed \/ object'[q].owners = {}
           /\ lag' \in SUBSET Resources /\ removed' \in SUBSET Resources
<1>1. Current \in Resources
  BY OrderIsProper DEF Current, TypeInv
<1>2. /\ object' = [object EXCEPT ![Current] = o]
      /\ lag' \subseteq lag \cup {Current} /\ removed' \subseteq removed
  BY DEF Write
<1>3. object \in [Resources -> Object]
  BY DEF TypeInv, TypeOK
<1>4. \A q \in Resources : object'[q] = IF q = Current THEN o ELSE object[q]
  BY <1>1, <1>2, <1>3
<1>5. object' \in [Resources -> Object]
  BY <1>1, <1>2, <1>3
<1> QED BY <1>1, <1>2, <1>4, <1>5 DEF TypeInv, TypeOK, olmVars

\* The desired object is of its type, and owned by releases that have run.
LEMMA DesiredTypes ==
    ASSUME TypeInv, Resolved, NEW r \in Resources,
           NEW owners \in SUBSET (1 .. release), managed \/ owners = {}
    PROVE  /\ Desired(r, owners) \in Object
           /\ Desired(r, owners).url # NoUrl => r = "Deployment"
           /\ Desired(r, owners).owners \subseteq 1 .. release
           /\ managed \/ Desired(r, owners).owners = {}
           /\ managed => release \in Desired(r, owners).owners
           /\ Desired(r, owners).live /\ Desired(r, owners).own
           /\ r = "Deployment" => Desired(r, owners).url = work.url
<1>1. owner = release /\ release \in 1 .. release /\ 1 .. release \subseteq Releases
  <2>1. release \in 1 .. MaxRelease /\ MaxRelease \in Nat
    BY PluginAssumption DEF TypeInv, TypeOK, Releases
  <2> QED BY <2>1 DEF TypeInv, Releases
<1>2. /\ EnsureOwnerRef(owners) \subseteq 1 .. release
      /\ managed \/ EnsureOwnerRef(owners) = {}
      /\ managed => release \in EnsureOwnerRef(owners)
  BY <1>1 DEF EnsureOwnerRef
<1>3. work.url \in Urls \cup {NoUrl}
  BY DEF TypeInv, WorkType
<1> QED BY <1>1, <1>2, <1>3 DEF Desired, Object

-----------------------------------------------------------------------------
(* The steps of a Reconcile.                                                *)

\* The ways in which a step at the present resource ends.
Fails == /\ UNCHANGED <<object, lag, removed>>
         /\ ReturnError

Ensures ==
    /\ work.pc \in {"ensure", "replace"}
    /\ \E owners \in SUBSET (1 .. release) :
          /\ managed \/ owners = {}
          /\ Write(Current, Desired(Current, owners))
    /\ Advance

Replaces == work.pc = "ensure" /\ Remove(Current) /\ GoTo("replace")

Deletes ==
    /\ work.pc = "delete"
    /\ Write(Current, NoObject)
    /\ work' = IF work.at = 1 THEN NoWork ELSE [work EXCEPT !.at = @ - 1]
    /\ UNCHANGED queued

\* Each step at a resource ends in one of them.
LEMMA ResourceSteps ==
    ASSUME TypeInv, Create \/ Update \/ ReplaceRoleBinding \/ Delete
    PROVE  /\ AtResource /\ Current \in Resources
           /\ UNCHANGED <<cache, configVars, olmVars, owner>>
           /\ Fails \/ Ensures \/ Replaces \/ Deletes
<1>1. /\ AtResource
      /\ UNCHANGED <<cache, configVars, olmVars, owner>>
  BY DEF Create, Update, ReplaceRoleBinding, Delete, AtResource
<1>2. Current \in Resources
  BY <1>1, OrderIsProper DEF Current, TypeInv
<1>3. /\ object[Current].owners \in SUBSET (1 .. release)
      /\ managed \/ object[Current].owners = {}
      /\ {} \in SUBSET (1 .. release)
  BY <1>2 DEF TypeInv, TypeOK
<1>4. CASE Create
  BY <1>1, <1>2, <1>3, <1>4 DEF Create, Fail, Fails, Ensures
<1>5. CASE Update
  BY <1>1, <1>2, <1>3, <1>5 DEF Update, Fail, Fails, Ensures
<1>6. CASE ReplaceRoleBinding
  BY <1>1, <1>2, <1>6 DEF ReplaceRoleBinding, Fail, Fails, Replaces
<1>7. CASE Delete
  BY <1>1, <1>2, <1>7 DEF Delete, Fail, Fails, Deletes
<1> QED BY <1>1, <1>2, <1>4, <1>5, <1>6, <1>7

\* Where the work goes on.
LEMMA WorkAtResource ==
    ASSUME TypeInv, AtResource
    PROVE  /\ Fails => work' = NoWork /\ queued' = TRUE
           /\ Ensures =>
                 /\ queued' = queued
                 /\ \/ work.at = Len(Order) /\ work' = NoWork
                    \/ /\ work.at < Len(Order)
                       /\ work' = [work EXCEPT !.pc = "ensure", !.at = @ + 1]
                       /\ work'.pc = "ensure" /\ work'.at = work.at + 1
                       /\ work'.url = work.url
           /\ Replaces =>
                 /\ queued' = queued
                 /\ work' = [work EXCEPT !.pc = "replace"]
                 /\ work'.pc = "replace" /\ work'.at = work.at
                 /\ work'.url = work.url
           /\ Deletes =>
                 /\ queued' = queued
                 /\ \/ work.at = 1 /\ work' = NoWork
                    \/ /\ work.at # 1
                       /\ work' = [work EXCEPT !.at = @ - 1]
                       /\ work'.pc = "delete" /\ work'.at = work.at - 1
                       /\ work'.url = work.url
<1>1. /\ work \in WorkType
      /\ work.at \in 1 .. Len(Order) /\ Len(Order) \in Nat
  BY OrderIsProper DEF TypeInv
<1>2. Fails => work' = NoWork /\ queued' = TRUE
  BY DEF Fails, ReturnError
<1>3. \A pc \in Steps, at \in Nat :
         /\ [work EXCEPT !.pc = pc].pc = pc
         /\ [work EXCEPT !.pc = pc].at = work.at
         /\ [work EXCEPT !.pc = pc].url = work.url
         /\ [work EXCEPT !.pc = pc, !.at = at].pc = pc
         /\ [work EXCEPT !.pc = pc, !.at = at].at = at
         /\ [work EXCEPT !.pc = pc, !.at = at].url = work.url
         /\ [work EXCEPT !.at = at].pc = work.pc
         /\ [work EXCEPT !.at = at].at = at
         /\ [work EXCEPT !.at = at].url = work.url
  BY <1>1 DEF WorkType
<1>4. "ensure" \in Steps /\ "replace" \in Steps
  BY DEF Steps
<1>5. work.at + 1 \in Nat /\ work.at - 1 \in Nat
  BY <1>1
<1>6. ASSUME Ensures
      PROVE  /\ queued' = queued
             /\ \/ work.at = Len(Order) /\ work' = NoWork
                \/ /\ work.at < Len(Order)
                   /\ work' = [work EXCEPT !.pc = "ensure", !.at = @ + 1]
                   /\ work'.pc = "ensure" /\ work'.at = work.at + 1
                   /\ work'.url = work.url
  BY <1>1, <1>3, <1>4, <1>5, <1>6 DEF Ensures, Advance
<1>7. ASSUME Replaces
      PROVE  /\ queued' = queued
             /\ work' = [work EXCEPT !.pc = "replace"]
             /\ work'.pc = "replace" /\ work'.at = work.at
             /\ work'.url = work.url
  BY <1>3, <1>4, <1>5, <1>7 DEF Replaces, GoTo
<1>8. ASSUME Deletes
      PROVE  /\ queued' = queued
             /\ \/ work.at = 1 /\ work' = NoWork
                \/ /\ work.at # 1
                   /\ work' = [work EXCEPT !.at = @ - 1]
                   /\ work'.pc = "delete" /\ work'.at = work.at - 1
                   /\ work'.url = work.url
  BY <1>3, <1>4, <1>5, <1>8 DEF Deletes
<1> QED BY <1>2, <1>6, <1>7, <1>8

\* The steps before the resources.
ReadSteps ==
    \/ BeginReconcile \/ ResolveOLMOwnership \/ ReadEnabled \/ ReadCluster
    \/ ReadUrl

\* Where the work goes on after them.
LEMMA WorkBeforeResources ==
    ASSUME TypeInv, ReadSteps
    PROVE  /\ UNCHANGED <<object, cache, lag, configVars, olmVars, removed>>
           /\ work' \in WorkType
           /\ queued' \in BOOLEAN
           /\ owner' \in {Unresolved, release}
           /\ \/ work'.pc = "idle" /\ queued'
              \/ work'.pc = "owner"
              \/ work'.pc = "config" /\ owner' = release
              \/ /\ work'.pc = "cluster" /\ work.pc = "config"
                 /\ UNCHANGED <<owner, queued>>
                 /\ configCache.enabled = "true"
              \/ /\ work'.pc = "url" /\ work.pc = "cluster"
                 /\ UNCHANGED <<owner, queued>>
              \/ /\ work'.pc = "ensure" /\ work'.at = 1 /\ work.pc = "url"
                 /\ UNCHANGED <<owner, queued>>
                 /\ work'.url = IF configCache.enabled = "absent" THEN NoUrl
                                ELSE configCache.url
              \/ /\ work'.pc = "delete" /\ work'.at = Len(Order)
                 /\ work.pc = "config" /\ UNCHANGED <<owner, queued>>
                 /\ configCache.enabled \in {"false", "nokey"}
<1>1. /\ work \in WorkType /\ NoWork \in WorkType /\ NoWork.pc = "idle"
      /\ Len(Order) \in Nat \ {0}
      /\ owner \in {Unresolved, release} /\ queued \in BOOLEAN
      /\ configCache.url \in Urls
  BY OrderIsProper, ConstantTypes DEF TypeInv, TypeOK, Config
<1>2. \A w \in WorkType : \A pc \in Steps :
         /\ [w EXCEPT !.pc = pc] \in WorkType /\ [w EXCEPT !.pc = pc].pc = pc
         /\ \A n \in 0 .. Len(Order) :
               /\ [w EXCEPT !.pc = pc, !.at = n] \in WorkType
               /\ [w EXCEPT !.pc = pc, !.at = n].pc = pc
               /\ [w EXCEPT !.pc = pc, !.at = n].at = n
  BY DEF WorkType
<1>a. Len(Order) \in 0 .. Len(Order)
  BY <1>1
<1>3. \A url \in Urls \cup {NoUrl} :
         [pc |-> "ensure", at |-> 1, url |-> url] \in WorkType
  BY <1>1 DEF Steps, WorkType
<1>b. \A pc \in Steps : GoTo(pc) =>
         work' \in WorkType /\ work'.pc = pc /\ queued' = queued
  BY <1>1, <1>2 DEF GoTo, WorkType
<1>c. ReturnError => work' \in WorkType /\ work'.pc = "idle" /\ queued' = TRUE
  BY <1>1 DEF ReturnError
<1>d. DeleteAll => /\ work' \in WorkType /\ work'.pc = "delete"
                   /\ work'.at = Len(Order) /\ queued' = queued
  BY <1>a, <1>1 DEF DeleteAll, Steps, WorkType
<1>e. BeginReconcile => work' \in WorkType /\ work'.pc = "owner"
  BY <1>1 DEF BeginReconcile, Steps, WorkType
<1>4. CASE BeginReconcile
  BY <1>1, <1>4, <1>e DEF BeginReconcile
<1>5. CASE ResolveOLMOwnership
  BY <1>1, <1>5, <1>b, <1>c DEF ResolveOLMOwnership, Steps
<1>6. CASE ReadEnabled
  BY <1>1, <1>6, <1>b, <1>c, <1>d DEF ReadEnabled, Steps
<1>7. CASE ReadCluster
  BY <1>1, <1>7, <1>b, <1>c DEF ReadCluster, Steps
<1>8. CASE ReadUrl
  BY <1>1, <1>3, <1>8 DEF ReadUrl, EnsureAll
<1> QED BY <1>4, <1>5, <1>6, <1>7, <1>8 DEF ReadSteps

\* The steps of a Reconcile keep the types.
LEMMA ReconcileTypes == ASSUME TypeInv, Step PROVE TypeInv'
<1>0. /\ work \in WorkType
      /\ Len(Order) \in Nat \ {0} /\ NoWork.pc = "idle"
      /\ NoWork \in WorkType
  BY OrderIsProper, ConstantTypes DEF TypeInv
<1>1. CASE ReadSteps
  <2>1. /\ UNCHANGED <<object, cache, lag, configVars, olmVars, removed>>
        /\ work' \in WorkType
        /\ queued' \in BOOLEAN
        /\ owner' \in {Unresolved, release}
        /\ AtResource' => work'.at \in 1 .. Len(Order)
        /\ Resolved' => owner' = release
    BY <1>0, <1>1, WorkBeforeResources
       DEF AtResource, Resolved, Steps, TypeInv
  <2>2. work'.pc \in Steps /\ work'.at \in 0 .. Len(Order)
    BY <2>1 DEF WorkType
  <2> QED
    BY <2>1, <2>2 DEF TypeInv, TypeOK, configVars, olmVars
<1>2. CASE Create \/ Update \/ ReplaceRoleBinding \/ Delete
  <2>1. /\ AtResource /\ Current \in Resources
        /\ UNCHANGED <<cache, configVars, olmVars, owner>>
        /\ Fails \/ Ensures \/ Replaces \/ Deletes
    BY <1>2, ResourceSteps
  <2>2. Resolved /\ work.at \in 1 .. Len(Order)
    BY <2>1 DEF AtResource, Resolved, TypeInv, Steps
  <2>3. /\ work' \in WorkType
        /\ AtResource' => work'.at \in 1 .. Len(Order)
        /\ queued' \in BOOLEAN
    <3>1. /\ \A pc \in Steps : [work EXCEPT !.pc = pc] \in WorkType
          /\ \A n \in 1 .. Len(Order) :
                /\ [work EXCEPT !.pc = "ensure", !.at = n] \in WorkType
                /\ [work EXCEPT !.at = n] \in WorkType
      <4>1. \A pc \in Steps : [work EXCEPT !.pc = pc] \in WorkType
        BY <1>0 DEF WorkType
      <4>2. \A n \in 1 .. Len(Order) : n \in 0 .. Len(Order)
        BY <1>0
      <4>3. "ensure" \in Steps
        BY DEF Steps
      <4>4. \A n \in 0 .. Len(Order) : \A pc \in Steps :
               /\ [work EXCEPT !.pc = pc, !.at = n] \in WorkType
               /\ [work EXCEPT !.at = n] \in WorkType
        BY <1>0 DEF WorkType
      <4> QED BY <4>1, <4>2, <4>3, <4>4
    <3>2. /\ 0 \in 0 .. Len(Order)
          /\ work.at # 1 => work.at - 1 \in 1 .. Len(Order)
          /\ work.at < Len(Order) => work.at + 1 \in 1 .. Len(Order)
      BY <1>0, <2>2
    <3>3. "ensure" \in Steps /\ "replace" \in Steps /\ queued \in BOOLEAN
      BY DEF Steps, TypeInv, TypeOK
    <3>4. work' \in WorkType
      <4>1. CASE Fails
        BY <1>0, <2>1, <4>1, WorkAtResource
      <4>2. CASE Ensures
        <5>1. work.at < Len(Order) =>
                 [work EXCEPT !.pc = "ensure", !.at = work.at + 1] \in WorkType
          BY <2>2, <3>1, <3>2, <3>3
        <5> QED BY <1>0, <2>1, <4>2, <5>1, WorkAtResource
      <4>3. CASE Replaces
        BY <2>1, <3>1, <3>3, <4>3, WorkAtResource
      <4>4. CASE Deletes
        <5>1. work.at # 1 => [work EXCEPT !.at = work.at - 1] \in WorkType
          BY <2>2, <3>1, <3>2, <3>3
        <5> QED BY <1>0, <2>1, <4>4, <5>1, WorkAtResource
      <4> QED BY <2>1, <4>1, <4>2, <4>3, <4>4
    <3>5. /\ AtResource' => work'.at \in 1 .. Len(Order)
          /\ queued' \in BOOLEAN
      BY <1>0, <2>1, <2>2, <3>2, <3>3, WorkAtResource DEF AtResource
    <3> QED BY <3>4, <3>5
  <2>4. /\ object' \in [Resources -> Object]
        /\ \A q \in Resources :
              /\ object'[q].url # NoUrl => q = "Deployment"
              /\ object'[q].owners \subseteq 1 .. release'
              /\ managed \/ object'[q].owners = {}
        /\ lag' \in SUBSET Resources /\ removed' \in SUBSET Resources
    <3>1. CASE Fails
      BY <2>1, <3>1 DEF Fails, TypeInv, TypeOK, olmVars
    <3>2. CASE Ensures
      <4>1. PICK owners \in SUBSET (1 .. release) :
               /\ managed \/ owners = {}
               /\ Write(Current, Desired(Current, owners))
        BY <3>2 DEF Ensures
      <4> QED BY <2>1, <2>2, <4>1, DesiredTypes, WriteTypes
    <3>3. CASE Replaces
      <4>1. /\ object' = [object EXCEPT ![Current] = NoObject]
            /\ lag' = lag \cup {Current} /\ removed' = removed \cup {Current}
        BY <3>3 DEF Replaces, Remove
      <4>2. \A q \in Resources : object'[q] \in {object[q], NoObject}
        BY <4>1 DEF TypeInv, TypeOK
      <4>3. object' \in [Resources -> Object]
        BY <4>1, ConstantTypes DEF TypeInv, TypeOK
      <4> QED
        BY <2>1, <4>1, <4>2, <4>3, ConstantTypes DEF TypeInv, TypeOK, olmVars
    <3>4. CASE Deletes
      BY <2>1, <3>4, ConstantTypes, WriteTypes DEF Deletes
    <3> QED BY <2>1, <3>1, <3>2, <3>3, <3>4
  <2>5. work'.pc \in Steps /\ work'.at \in 0 .. Len(Order)
    BY <2>3 DEF WorkType
  <2>6. Resolved' => owner' = release'
    BY <2>1, <2>2 DEF TypeInv, olmVars
  <2> QED
    BY <2>1, <2>3, <2>4, <2>5, <2>6 DEF TypeInv, TypeOK, configVars, olmVars
<1> QED BY <1>1, <1>2 DEF Step, ReadSteps

\* Each step keeps the types.
LEMMA NextTypes == TypeInv /\ [Next]_vars => TypeInv'
<1> SUFFICES ASSUME TypeInv, [Next]_vars PROVE TypeInv'
  OBVIOUS
<1>1. CASE UNCHANGED vars
  BY <1>1
     DEF vars, configVars, olmVars, TypeInv, TypeOK, Resolved, AtResource
<1> QED BY <1>1, EnvironmentTypes, ReconcileTypes DEF Next

-----------------------------------------------------------------------------
(* The plugin and its backend.                                              *)

\* At the start there are all resources or none.
LEMMA InitBackend == Init => BackendInv
<1> SUFFICES ASSUME Init PROVE BackendInv
  OBVIOUS
<1>1. PICK old \in BOOLEAN : \A r \in Resources : object[r].live = old
  <2>1. PICK old \in BOOLEAN :
           object = [r \in Resources |->
                       [NoObject EXCEPT !.live = old,
                                        !.own = r = "RoleBinding" => ~old]]
    BY DEF Init
  <2>2. \A r \in Resources : object[r].live = old
    BY <2>1 DEF NoObject
  <2> QED BY <2>2
<1>2. work.pc = "idle"
  BY DEF Init, NoWork
<1> QED BY <1>1, <1>2, OrderIsProper DEF BackendInv, PluginHasBackend

\* A resource that is removed by somebody else is accounted for; one that the
\* reconciler writes is there, or the ConsolePlugin went before it.
LEMMA NextKeepsBackend ==
    ASSUME TypeInv, BackendInv, [Next]_vars
    PROVE  BackendInv'
<1> USE DEF BackendInv, PluginHasBackend
<1>0. /\ object \in [Resources -> Object] /\ NoWork.pc = "idle"
      /\ Len(Order) \in Nat \ {0} /\ ~NoObject.live
      /\ work.pc \in {"ensure", "replace"} =>
            \A i \in 1 .. work.at - 1 : Order[i] \in Resources
  BY OrderIsProper, ConstantTypes DEF TypeInv, TypeOK
<1>a. ASSUME NEW r \in Resources, Remove(r)
      PROVE  /\ object'[r] = NoObject /\ Accounted(r)'
             /\ \A q \in Resources \ {r} :
                   object'[q] = object[q] /\ (Accounted(q) => Accounted(q)')
  BY <1>0, <1>a DEF Remove, Accounted
<1>1. CASE UNCHANGED <<object, removed, work>>
  BY <1>1 DEF Accounted
<1>2. CASE UNCHANGED <<object, removed>> /\ work' = NoWork
  BY <1>0, <1>2
<1>3. ASSUME NEW r \in Resources, Remove(r), UNCHANGED work PROVE BackendInv'
  <2>1. /\ \A q \in Resources : Accounted(q) => Accounted(q)'
        /\ object'["ConsolePlugin"].live => object["ConsolePlugin"].live
    BY <1>0, <1>3, <1>a, OrderIsProper
  <2>2. PluginHasBackend'
    BY <2>1 DEF Accounted
  <2>3. work.pc \in {"ensure", "replace"} =>
           \A i \in 1 .. work.at - 1 : Accounted(Order[i])'
    BY <1>0, <2>1
  <2> QED BY <1>3, <2>1, <2>2, <2>3
<1>4. CASE ReadSteps
  <2>1. /\ UNCHANGED <<object, removed>>
        /\ work'.pc \in {"ensure", "replace"} => work'.at = 1
        /\ work'.pc = "delete" => work'.at = Len(Order)
    BY <1>4, WorkBeforeResources
  <2>2. PluginHasBackend'
    BY <2>1
  <2>3. 1 .. 1 - 1 = {} /\ ~(Len(Order) < Len(Order))
    BY <1>0
  <2> QED BY <2>1, <2>2, <2>3
<1>5. CASE Create \/ Update \/ ReplaceRoleBinding \/ Delete
  <2>1. /\ AtResource /\ Current \in Resources /\ Current = Order[work.at]
        /\ work.at \in 1 .. Len(Order)
        /\ Fails \/ Ensures \/ Replaces \/ Deletes
    BY <1>5, ResourceSteps DEF Current, TypeInv
  <2>2. \A i \in 1 .. Len(Order) : i # work.at =>
           Order[i] \in Resources \ {Current}
    BY <2>1, OrderIsProper
  <2>3. CASE Fails
    BY <1>2, <2>1, <2>3, WorkAtResource DEF Fails
  <2>4. CASE Ensures
    <3>1. PICK owners \in SUBSET (1 .. release) :
             Write(Current, Desired(Current, owners))
      BY <2>4 DEF Ensures
    <3>2. /\ object'[Current].live
          /\ \A q \in Resources \ {Current} :
                object'[q] = object[q] /\ (Accounted(q) => Accounted(q)')
      BY <1>0, <2>1, <3>1 DEF Write, Desired, Accounted
    <3>3. \A i \in 1 .. work.at : Accounted(Order[i])'
      BY <1>0, <2>1, <2>2, <2>4, <3>2 DEF Ensures, Accounted
    <3>4. \/ work.at = Len(Order) /\ work' = NoWork
          \/ /\ work.at < Len(Order)
             /\ work'.pc = "ensure" /\ work'.at = work.at + 1
      BY <2>1, <2>4, WorkAtResource
    <3>5. PluginHasBackend'
      <4>1. CASE work.at = Len(Order)
        BY <3>3, <4>1, OrderIsProper DEF Accounted
      <4>2. CASE work.at # Len(Order)
        <5>1. "ConsolePlugin" \in Resources \ {Current}
          BY <1>0, <2>2, <4>2, OrderIsProper
        <5> QED BY <3>2, <5>1 DEF Accounted
      <4> QED BY <4>1, <4>2
    <3> QED BY <1>0, <2>1, <3>3, <3>4, <3>5
  <2>5. CASE Replaces
    <3>1. /\ work'.pc = "replace" /\ work'.at = work.at
          /\ work.pc = "ensure" /\ Remove(Current)
      BY <2>1, <2>5, WorkAtResource DEF Replaces
    <3>2. \A i \in 1 .. work.at - 1 : Accounted(Order[i])'
      BY <1>0, <1>a, <2>1, <2>2, <3>1
    <3>3. PluginHasBackend'
      BY <1>0, <1>a, <2>1, <3>1, OrderIsProper DEF Accounted
    <3> QED BY <3>1, <3>2, <3>3
  <2>6. CASE Deletes
    <3>1. /\ work.pc = "delete"
          /\ object' = [object EXCEPT ![Current] = NoObject]
          /\ \/ work' = NoWork
             \/ work'.pc = "delete" /\ work'.at = work.at - 1
      BY <2>1, <2>6, WorkAtResource DEF Deletes, Write
    <3>2. ~object'["ConsolePlugin"].live
      <4>1. CASE work.at = Len(Order)
        BY <1>0, <2>1, <3>1, <4>1, OrderIsProper
      <4>2. CASE work.at # Len(Order)
        BY <1>0, <2>1, <3>1, <4>2, OrderIsProper
      <4> QED BY <4>1, <4>2
    <3> QED BY <1>0, <3>1, <3>2
  <2> QED BY <2>1, <2>3, <2>4, <2>5, <2>6
<1>6. ASSUME \/ \E r \in Resources : Deliver(r)
             \/ DeliverConfig \/ ChangeConfig \/ Retire
             \/ CrashAndRestart \/ Upgrade \/ UNCHANGED vars
      PROVE  UNCHANGED <<object, removed>> /\ (UNCHANGED work \/ work' = NoWork)
  BY <1>6
     DEF Deliver, DeliverConfig, ChangeConfig, Retire, CrashAndRestart,
         Upgrade, NewProcess, vars
<1>7. ASSUME NEW r \in Resources, DeleteByUser(r) \/ CollectGarbage(r)
      PROVE  Remove(r) /\ UNCHANGED work
  BY <1>7 DEF DeleteByUser, CollectGarbage
<1> QED
  BY <1>1, <1>2, <1>3, <1>4, <1>5, <1>6, <1>7 DEF Next, Step, ReadSteps

-----------------------------------------------------------------------------
(* Rest.                                                                    *)

\* At the start the request is in the queue.
LEMMA InitRest == Init => RestInv
BY DEF Init, RestInv

\* A step that leaves the work and the ConfigMap in the store alone, and what
\* is kept and gone.
LEMMA RestFrame ==
    ASSUME TypeInv, RestInv, ~queued' => ~queued,
           UNCHANGED <<work, configCache>>,
           ~queued' => \A r \in Resources :
                          (Kept(r) => Kept(r)') /\ (Gone(r) => Gone(r)')
    PROVE  RestInv'
<1> SUFFICES ASSUME ~queued' PROVE RestInv'
  BY DEF RestInv
<1>1. /\ work.pc \in {"ensure", "replace", "delete"} =>
            work.at \in 1 .. Len(Order)
      /\ Len(Order) \in Nat /\ \A i \in 1 .. Len(Order) : Order[i] \in Resources
  BY OrderIsProper DEF TypeInv, AtResource
<1>2. work.pc \in {"ensure", "replace"} =>
         \A i \in 1 .. work.at - 1 : Order[i] \in Resources
  BY <1>1
<1>3. work.pc = "delete" =>
         \A i \in work.at + 1 .. Len(Order) : Order[i] \in Resources
  BY <1>1
<1>4. \A r \in Resources : (Kept(r) => Kept(r)') /\ (Gone(r) => Gone(r)')
  OBVIOUS
<1> QED BY <1>2, <1>3, <1>4 DEF RestInv

\* What somebody else removes has an event to come; what the garbage collector
\* removes was not owned by the release that runs.
LEMMA EnvironmentKeepsRest ==
    ASSUME TypeInv, RestInv,
           \/ \E r \in Resources :
                 Deliver(r) \/ DeleteByUser(r) \/ CollectGarbage(r)
           \/ DeliverConfig \/ ChangeConfig \/ CrashAndRestart
           \/ Upgrade \/ Retire
    PROVE  RestInv'
<1>0. /\ object \in [Resources -> Object] /\ queued \in BOOLEAN
      /\ retired < release /\ retired \in Nat /\ release \in Nat
      /\ \A r \in Resources : object[r].owners \subseteq 1 .. release
      /\ managed \/ \A r \in Resources : object[r].owners = {}
  BY DEF TypeInv, TypeOK
<1>1. ASSUME NEW r \in Resources, Remove(r),
             UNCHANGED <<managed, release, configCache>>
      PROVE  /\ \A q \in Resources : Gone(q) => Gone(q)'
             /\ \A q \in Resources \ {r} : Kept(q) => Kept(q)'
             /\ r \in Watched => Kept(r)'
             /\ r \in lag \cap Watched => Kept(r)'
  <2>1. /\ object'[r] = NoObject /\ lag' = lag \cup {r}
        /\ \A q \in Resources \ {r} : object'[q] = object[q]
    BY <1>0, <1>1 DEF Remove
  <2> QED BY <1>1, <2>1, ConstantTypes DEF Kept, Gone
<1>2. ASSUME NEW r \in Resources, Deliver(r) PROVE RestInv'
  <2>1. /\ UNCHANGED <<object, work, managed, release, configCache>>
        /\ lag' = lag \ {r} /\ queued' = (queued \/ r \in Watched)
    BY <1>2 DEF Deliver, configVars, olmVars
  <2>2. ~queued' => ~queued /\ r \notin Watched
    BY <2>1
  <2>3. ~queued' => \A q \in Resources :
                       (Kept(q) => Kept(q)') /\ (Gone(q) => Gone(q)')
    BY <2>1, <2>2 DEF Kept, Gone
  <2> QED BY <2>1, <2>2, <2>3, RestFrame
<1>3. ASSUME NEW r \in Resources, DeleteByUser(r) PROVE RestInv'
  <2>1. /\ Remove(r) /\ r \in Watched
        /\ UNCHANGED <<managed, release, configCache, work, queued>>
    BY <1>3 DEF DeleteByUser, configVars, olmVars
  <2> QED BY <1>1, <2>1, RestFrame
<1>4. ASSUME NEW r \in Resources, CollectGarbage(r) PROVE RestInv'
  <2>1. /\ Remove(r)
        /\ object[r].owners # {} /\ \A o \in object[r].owners : o <= retired
        /\ UNCHANGED <<managed, release, configCache, work, queued>>
    BY <1>4 DEF CollectGarbage, configVars, olmVars
  <2>2. Kept(r) => r \in lag \cap Watched
    <3>1. managed
      BY <1>0, <2>1
    <3>2. release \notin object[r].owners
      BY <1>0, <2>1
    <3> QED BY <3>1, <3>2 DEF Kept
  <2>3. \A q \in Resources : (Kept(q) => Kept(q)') /\ (Gone(q) => Gone(q)')
    BY <1>1, <2>1, <2>2
  <2> QED BY <2>1, <2>3, RestFrame
<1>5. CASE DeliverConfig \/ CrashAndRestart \/ Upgrade
  BY <1>5 DEF DeliverConfig, CrashAndRestart, Upgrade, NewProcess, RestInv
<1>6. CASE ChangeConfig \/ Retire
  <2>1. UNCHANGED <<object, lag, managed, release, configCache, work, queued>>
    BY <1>6 DEF ChangeConfig, Retire, configVars, olmVars
  <2>2. \A q \in Resources : (Kept(q) => Kept(q)') /\ (Gone(q) => Gone(q)')
    BY <2>1 DEF Kept, Gone
  <2> QED BY <2>1, <2>2, RestFrame
<1> QED BY <1>2, <1>3, <1>4, <1>5, <1>6

\* A step at a resource leaves it as asked for, and the others alone.
LEMMA ResourcesKeepRest ==
    ASSUME TypeInv, RestInv, Create \/ Update \/ ReplaceRoleBinding \/ Delete
    PROVE  RestInv'
<1>0. /\ object \in [Resources -> Object] /\ Len(Order) \in Nat \ {0}
      /\ NoWork.pc = "idle"
  BY OrderIsProper, ConstantTypes DEF TypeInv, TypeOK
<1>1. /\ AtResource /\ Current \in Resources /\ Current = Order[work.at]
      /\ work.at \in 1 .. Len(Order) /\ Resolved
      /\ UNCHANGED <<configCache, managed, release>>
      /\ Fails \/ Ensures \/ Replaces \/ Deletes
  BY ResourceSteps
     DEF Current, TypeInv, configVars, olmVars, AtResource, Resolved, Steps
<1>2. \A i \in 1 .. Len(Order) : i # work.at =>
         Order[i] \in Resources \ {Current}
  BY <1>1, OrderIsProper
<1>3. \A q \in Resources \ {Current} :
         object'[q] = object[q] /\ lag \subseteq lag' =>
            (Kept(q) => Kept(q)') /\ (Gone(q) => Gone(q)')
  BY <1>1 DEF Kept, Gone
<1>4. CASE Fails
  BY <1>1, <1>4, WorkAtResource DEF RestInv
<1>5. CASE Ensures
  <2>1. PICK owners \in SUBSET (1 .. release) :
           /\ managed \/ owners = {}
           /\ Write(Current, Desired(Current, owners))
    BY <1>5 DEF Ensures
  <2>2. /\ object'[Current] = Desired(Current, owners)
        /\ lag \subseteq lag'
        /\ \A q \in Resources \ {Current} : object'[q] = object[q]
    BY <1>0, <1>1, <2>1 DEF Write
  <2>3. work.pc \in {"ensure", "replace"}
    BY <1>5 DEF Ensures
  <2>4. SUFFICES ASSUME ~queued' PROVE RestInv'
    BY DEF RestInv
  <2>5. ~queued
    BY <1>1, <1>5, <2>4, WorkAtResource
  <2>6. /\ configCache'.enabled = "true" /\ work.url = configCache'.url
        /\ \A i \in 1 .. work.at - 1 : Kept(Order[i])
    BY <1>1, <2>3, <2>5 DEF RestInv
  <2>7. \A r \in Resources : r = Current => Kept(r)'
    BY <1>1, <2>1, <2>2, <2>6, DesiredTypes DEF Kept
  <2>8. \A i \in 1 .. work.at : Kept(Order[i])'
    <3>1. \A i \in 1 .. work.at - 1 : Order[i] \in Resources \ {Current}
      BY <1>0, <1>1, <1>2
    <3>2. \A i \in 1 .. work.at - 1 : Kept(Order[i])'
      BY <1>3, <2>2, <2>6, <3>1
    <3>3. \A i \in 1 .. work.at : i = work.at \/ i \in 1 .. work.at - 1
      BY <1>1
    <3>4. \A i \in 1 .. Len(Order) : i = work.at => Order[i] = Current
      BY <1>1
    <3> QED BY <1>1, <2>7, <3>2, <3>3, <3>4
  <2>9. CASE work.at = Len(Order) /\ work' = NoWork
    <3>1. \A r \in Resources : Kept(r)'
      BY <2>8, <2>9, OrderIsProper
    <3> QED BY <1>0, <2>6, <2>9, <3>1 DEF RestInv
  <2>10. CASE /\ work'.pc = "ensure" /\ work'.at = work.at + 1
              /\ work'.url = work.url
    <3>1. work'.at - 1 = work.at
      BY <1>1, <2>10
    <3> QED BY <2>6, <2>8, <2>10, <3>1 DEF RestInv
  <2> QED BY <1>1, <1>5, <2>9, <2>10, WorkAtResource
<1>6. CASE Replaces
  <2>1. /\ queued' = queued /\ work.pc = "ensure"
        /\ work'.pc = "replace" /\ work'.at = work.at /\ work'.url = work.url
        /\ object' = [object EXCEPT ![Current] = NoObject]
        /\ lag' = lag \cup {Current}
    BY <1>1, <1>6, WorkAtResource DEF Replaces, Remove
  <2>2. \A i \in 1 .. work.at - 1 : Order[i] \in Resources \ {Current}
    BY <1>0, <1>1, <1>2
  <2>3. \A i \in 1 .. work.at - 1 : Kept(Order[i]) => Kept(Order[i])'
    BY <1>0, <1>3, <2>1, <2>2
  <2> QED BY <1>1, <2>1, <2>3 DEF RestInv
<1>7. CASE Deletes
  <2>1. /\ queued' = queued /\ work.pc = "delete"
        /\ \/ work.at = 1 /\ work' = NoWork
           \/ work'.pc = "delete" /\ work'.at = work.at - 1
        /\ object' = [object EXCEPT ![Current] = NoObject]
        /\ lag \subseteq lag'
    BY <1>1, <1>7, WorkAtResource DEF Deletes, Write
  <2>2. SUFFICES ASSUME ~queued' PROVE RestInv'
    BY DEF RestInv
  <2>3. /\ configCache'.enabled \in {"false", "nokey"}
        /\ \A i \in work.at + 1 .. Len(Order) : Gone(Order[i])
    BY <1>1, <2>1, <2>2 DEF RestInv
  <2>4. \A r \in Resources : r = Current => Gone(r)'
    BY <1>0, <1>1, <2>1, ConstantTypes DEF Gone
  <2>5. \A i \in work.at .. Len(Order) : Gone(Order[i])'
    <3>1. \A i \in work.at + 1 .. Len(Order) : Order[i] \in Resources \ {Current}
      BY <1>0, <1>1, <1>2
    <3>2. \A i \in work.at + 1 .. Len(Order) : Gone(Order[i])'
      BY <1>0, <1>3, <2>1, <2>3, <3>1
    <3>3. \A i \in work.at .. Len(Order) :
             i = work.at \/ i \in work.at + 1 .. Len(Order)
      BY <1>0, <1>1
    <3>4. \A i \in 1 .. Len(Order) : i = work.at => Order[i] = Current
      BY <1>1
    <3> QED BY <1>0, <1>1, <2>4, <3>2, <3>3, <3>4
  <2>6. CASE work.at = 1 /\ work' = NoWork
    <3>1. \A r \in Resources : Gone(r)'
      BY <2>5, <2>6, OrderIsProper
    <3> QED BY <1>0, <2>3, <2>6, <3>1 DEF RestInv
  <2>7. CASE work'.pc = "delete" /\ work'.at = work.at - 1
    <3>1. work'.at + 1 = work.at
      BY <1>1, <2>7
    <3> QED BY <2>3, <2>5, <2>7, <3>1 DEF RestInv
  <2> QED BY <2>1, <2>6, <2>7
<1> QED BY <1>1, <1>4, <1>5, <1>6, <1>7

\* Each step keeps it.
LEMMA NextKeepsRest ==
    ASSUME TypeInv, RestInv, [Next]_vars
    PROVE  RestInv'
<1>1. CASE ReadSteps
  <2>1. UNCHANGED configCache
    BY <1>1, WorkBeforeResources DEF configVars
  <2>2. 1 .. 1 - 1 = {} /\ Len(Order) + 1 .. Len(Order) = {}
    BY OrderIsProper
  <2>3. CASE work'.pc \in {"owner", "config"} \/ queued'
    BY <2>3 DEF RestInv
  <2>4. CASE /\ work'.pc \in {"cluster", "url"} /\ queued' = queued
             /\ work.pc = "cluster" \/ configCache.enabled = "true"
    BY <2>1, <2>4 DEF RestInv
  <2>5. CASE /\ work'.pc = "ensure" /\ work'.at = 1 /\ work.pc = "url"
             /\ queued' = queued
             /\ work'.url = IF configCache.enabled = "absent" THEN NoUrl
                            ELSE configCache.url
    BY <2>1, <2>2, <2>5 DEF RestInv
  <2>6. CASE /\ work'.pc = "delete" /\ work'.at = Len(Order)
             /\ configCache.enabled \in {"false", "nokey"}
    BY <2>1, <2>2, <2>6 DEF RestInv
  <2> QED BY <1>1, <2>3, <2>4, <2>5, <2>6, WorkBeforeResources
<1>2. CASE UNCHANGED vars
  <2>1. UNCHANGED <<object, lag, managed, release, configCache, work, queued>>
    BY <1>2 DEF vars, configVars, olmVars
  <2>2. \A q \in Resources : (Kept(q) => Kept(q)') /\ (Gone(q) => Gone(q)')
    BY <2>1 DEF Kept, Gone
  <2> QED BY <2>1, <2>2, RestFrame
<1> QED
  BY <1>1, <1>2, EnvironmentKeepsRest, ResourcesKeepRest
     DEF Next, Step, ReadSteps

-----------------------------------------------------------------------------
(* The theorems.                                                            *)

\* The three invariants hold in every reachable state.
LEMMA InvariantsHold == Spec => []Inv
<1>1. Init => Inv
  BY InitTypes, InitBackend, InitRest DEF Inv
<1>2. Inv /\ [Next]_vars => Inv'
  BY NextTypes, NextKeepsBackend, NextKeepsRest DEF Inv
<1> QED BY <1>1, <1>2, PTL DEF Spec

\* The state of ConsolePluginReconciler and of its resources has its types:
\* only the Deployment has a URL, nothing is owned by a release that has not
\* run, and the process never takes another release for its own.
THEOREM TypeCorrect == Spec => []TypeOK
<1>1. Inv => TypeOK
  BY DEF Inv, TypeInv
<1> QED BY <1>1, InvariantsHold, PTL

\* While there is a ConsolePlugin, Reconcile has created all that it needs and
\* removed none of it.
THEOREM PluginKeepsBackend == Spec => []PluginHasBackend
<1>1. Inv => PluginHasBackend
  BY DEF Inv, BackendInv
<1> QED BY <1>1, InvariantsHold, PTL

\* When no request is queued, no Reconcile runs and no event is to come, all
\* is as the controller-config ConfigMap asks for.
THEOREM RestIsAsConfigured == Spec => []ConfiguredAtRest
<1>1. Inv => ConfiguredAtRest
  BY DEF Inv, RestInv, Kept, Gone, ConfiguredAtRest, AsConfigured, Installed
<1> QED BY <1>1, InvariantsHold, PTL
=============================================================================
