-------------------------- MODULE ObjectBucketSource --------------------------
(***************************************************************************)
(* The ObjectBucketSourceReconciler of internal/objectbucketsource/        *)
(* controller/objectbucketsource_controller.go with the bucket             *)
(* notifications it writes (s3client/client.go), and the other writer of   *)
(* the same objects, handleTestEvent of notificationserver/handler.go.     *)
(*                                                                         *)
(* There is one worker (MaxConcurrentReconciles is not set). Its Reconcile *)
(* is cut at every read of the informer's store, every write to the API    *)
(* server and every call of the S3 API (work.pc).                          *)
(*                                                                         *)
(* Abstractions.                                                           *)
(*  - gen stands for the pair of metadata.uid and metadata.generation, so  *)
(*    a source that is deleted and created again gets a fresh one.         *)
(*  - A claim stands for the ObjectBucketClaim, its ConfigMap, Secret and  *)
(*    bucket. Its three reads are one step, and see the present state.     *)
(*  - A write with an outdated resourceVersion fails; work.stale says that *)
(*    the working copy has one. lag says that the informer's has.          *)
(*  - A write of conditions that changes none is no event. The message of  *)
(*    a failed PutBucketNotification holds a request id, so it does.       *)
(*  - retry.RetryOnConflict is a read and a write without another write in *)
(*    between, or gives up.                                                *)
(***************************************************************************)
EXTENDS Naturals, FiniteSets

CONSTANTS
    Sources,        \* names of the ObjectBucketSources of one namespace
    NoSource,       \* no source
    Claims,         \* names of the ObjectBucketClaims they can refer to
    NoClaim,        \* no claim
    Requests,       \* the lists of S3 event types that a source can name
    MaxGeneration,  \* spec versions of one source, over all incarnations
    Limit           \* how often each disturbance may happen

\* "spec": a source is created or its spec changed. "test": a test event is
\* handled. "trouble": a call fails or the process crashes. "withdraw": a claim
\* is deleted.
Disturbances == {"spec", "test", "trouble", "withdraw"}

EventTypes == UNION Requests

ASSUME BucketNamesAssumption ==
    NoSource \notin Sources /\ NoClaim \notin Claims

ASSUME BucketBoundsAssumption ==
    /\ MaxGeneration \in Nat \ {0}
    /\ Limit \in [Disturbances -> Nat]

VARIABLES
    object,         \* object[s]: the ObjectBucketSource on the API server
    cache,          \* cache[s]: the same in the informer's store
    lag,            \* sources written since the informer got its last version
    queue,          \* the work queue, with those awaiting a retry or a requeue
    work,           \* the Reconcile that runs, NoWork when none does
    claim,          \* claim[c]: "absent", "bound" to a storage class, "ready"
                    \* with its bucket and credentials, or "gone"
    notification,   \* notification[c]: events the bucket of c is notified of
    spent           \* spent[k]: how often disturbance k has happened

vars == <<object, cache, lag, queue, work, claim, notification, spent>>

informerVars == <<cache, queue>>
storageVars  == <<claim, notification>>

-----------------------------------------------------------------------------
(* The data.                                                               *)

\* A condition: its status and its observedGeneration.
Condition == [is : {"None", "True", "False"}, gen : 0 .. MaxGeneration]

Object ==
    [ live : BOOLEAN, deleting : BOOLEAN, finalizer : BOOLEAN,
      gen : 0 .. MaxGeneration, claim : Claims \cup {NoClaim},
      events : SUBSET EventTypes, set : Condition, tested : BOOLEAN ]

NoCondition == [is |-> "None", gen |-> 0]

NewObject(gen, c, es) ==
    [ live |-> TRUE, deleting |-> FALSE, finalizer |-> FALSE, gen |-> gen,
      claim |-> c, events |-> es, set |-> NoCondition, tested |-> FALSE ]

NoObject(gen) == [NewObject(gen, NoClaim, {}) EXCEPT !.live = FALSE]

Steps == {"idle", "finalize", "claim", "noCreds", "creds", "merge", "put",
          "set", "notSet", "deleteClaim", "deleteMerge", "deletePut",
          "unfinalize"}

Work ==
    [ pc : Steps, source : Sources \cup {NoSource}, copy : Object, stale : BOOLEAN,
      merged : SUBSET EventTypes ]

NoWork ==
    [ pc |-> "idle", source |-> NoSource, copy |-> NoObject(0),
      stale |-> FALSE, merged |-> {} ]

Spend(k) ==
    /\ spent[k] < Limit[k]
    /\ spent' = [spent EXCEPT ![k] = @ + 1]

\* A call fails because of cond, or for a reason outside the model.
FailsIf(cond) ==
    \/ cond /\ UNCHANGED spent
    \/ Spend("trouble")

Init ==
    /\ object = [s \in Sources |-> NoObject(0)]
    /\ cache = object
    /\ lag = {}
    /\ queue = {}
    /\ work = NoWork
    /\ claim = [c \in Claims |-> "absent"]
    /\ notification = [c \in Claims |-> {}]
    /\ spent = [k \in Disturbances |-> 0]

-----------------------------------------------------------------------------
(* The users, the provisioner of the claims, and handleTestEvent.          *)

\* Another client than the Reconcile that runs writes o as source s.
Written(s, o) ==
    /\ object' = [object EXCEPT ![s] = o]
    /\ lag' = lag \cup {s}
    /\ work' = IF work.source = s THEN [work EXCEPT !.stale = TRUE] ELSE work

CreateSource(s) ==
    /\ ~object[s].live
    /\ object[s].gen < MaxGeneration
    /\ Spend("spec")
    /\ \E c \in Claims, es \in Requests :
          Written(s, NewObject(object[s].gen + 1, c, es))
    /\ UNCHANGED <<informerVars, storageVars>>

ChangeSource(s) ==
    /\ object[s].live /\ ~object[s].deleting
    /\ object[s].gen < MaxGeneration
    /\ Spend("spec")
    /\ \E c \in Claims, es \in Requests :
          /\ <<c, es>> # <<object[s].claim, object[s].events>>
          /\ Written(s, [object[s] EXCEPT !.gen = @ + 1, !.claim = c,
                                          !.events = es])
    /\ UNCHANGED <<informerVars, storageVars>>

\* Without the finalizer the object is gone at once.
DeleteSource(s) ==
    /\ object[s].live /\ ~object[s].deleting
    /\ Written(s, IF object[s].finalizer
                  THEN [object[s] EXCEPT !.deleting = TRUE]
                  ELSE NoObject(object[s].gen))
    /\ UNCHANGED <<informerVars, storageVars, spent>>

Provision(c) ==
    /\ \/ claim[c] = "absent" /\ claim' = [claim EXCEPT ![c] = "bound"]
       \/ claim[c] = "bound" /\ claim' = [claim EXCEPT ![c] = "ready"]
    /\ UNCHANGED <<object, lag, work, informerVars, notification, spent>>

\* The claim is deleted, and its bucket with its notifications. (It
\* does not return: nothing would wake its sources, see the README.)
WithdrawClaim(c) ==
    /\ claim[c] = "ready"
    /\ Spend("withdraw")
    /\ claim' = [claim EXCEPT ![c] = "gone"]
    /\ notification' = [notification EXCEPT ![c] = {}]
    /\ UNCHANGED <<object, lag, work, informerVars>>

\* The storage sends s3:TestEvent for the bucket s refers to: the handler
\* reads s and writes its condition. (Where the retries give up, nothing
\* changes.)
HandleTestEvent(s) ==
    /\ cache[s].live /\ claim[cache[s].claim] = "ready"
    /\ s \notin lag
    /\ ~object[s].tested
    /\ Spend("test")
    /\ Written(s, [object[s] EXCEPT !.tested = TRUE])
    /\ UNCHANGED <<informerVars, storageVars>>

-----------------------------------------------------------------------------
(* The informer and the process.                                           *)

\* The informer gets the present version of s and queues s (no predicate).
Deliver(s) ==
    /\ s \in lag
    /\ cache' = [cache EXCEPT ![s] = object[s]]
    /\ lag' = lag \ {s}
    /\ queue' = queue \cup {s}
    /\ UNCHANGED <<object, work, storageVars, spent>>

\* The process ends; the next one lists the sources and queues each.
CrashAndRestart ==
    /\ Spend("trouble")
    /\ cache' = object
    /\ lag' = {}
    /\ queue' = {s \in Sources : object[s].live}
    /\ work' = NoWork
    /\ UNCHANGED <<object, storageVars>>

-----------------------------------------------------------------------------
(* Reconcile.                                                              *)

\* Mutant: a source that is not found is reconciled all the same.
BeginNotFound(s) ==
    /\ work.pc = "idle"
    /\ s \in queue
    /\ queue' = queue \ {s}
    /\ work' = [NoWork EXCEPT !.pc = "finalize", !.source = s,
                              !.copy = cache[s], !.stale = s \in lag]
    /\ UNCHANGED <<object, cache, lag, storageVars, spent>>

\* The Get at its start, its early returns and its branch on the deletion.
BeginReconcile(s) ==
    /\ work.pc = "idle"
    /\ s \in queue
    /\ queue' = queue \ {s}
    /\ LET step == CASE ~cache[s].live -> "idle"
                     [] cache[s].live /\ cache[s].deleting ->
                          IF cache[s].finalizer THEN "deleteClaim" ELSE "idle"
                     [] cache[s].live /\ ~cache[s].deleting ->
                          IF cache[s].finalizer THEN "claim" ELSE "finalize"
       IN  work' = IF step = "idle" THEN NoWork
                   ELSE [NoWork EXCEPT !.pc = step, !.source = s,
                                       !.copy = cache[s], !.stale = s \in lag]
    /\ UNCHANGED <<object, cache, lag, storageVars, spent>>

GoTo(step) == work' = [work EXCEPT !.pc = step]

Return == work' = NoWork /\ UNCHANGED queue

\* Return an error, or RequeueAfter: the source comes back.
ReturnAndRequeue ==
    /\ work' = NoWork
    /\ queue' = queue \cup {work.source}

\* r.Update of the working copy as o.
Update(o) ==
    \/ /\ ~work.stale
       /\ object' = [object EXCEPT ![work.source] = o]
       /\ lag' = lag \cup {work.source}
       /\ Return
       /\ UNCHANGED spent
    \/ /\ FailsIf(work.stale)
       /\ ReturnAndRequeue
       /\ UNCHANGED <<object, lag>>

\* AddFinalizer. The event of the write starts the next Reconcile.
Finalize ==
    /\ work.pc = "finalize"
    /\ Update([work.copy EXCEPT !.finalizer = TRUE])
    /\ UNCHANGED <<cache, storageVars>>

\* resolveAdapterConfig: the claim names a storage class one adapter is for.
AdapterResolves(c) == claim[c] \in {"bound", "ready"}

\* readOBCConfigMap and readOBCSecret: both are there, with their keys.
CredentialsReadable(c) == claim[c] = "ready"

ClaimReadable(c) == AdapterResolves(c) /\ CredentialsReadable(c)

ReadClaim ==
    /\ work.pc = "claim"
    /\ GoTo(IF ClaimReadable(work.copy.claim) THEN "creds" ELSE "noCreds")
    /\ UNCHANGED <<object, lag, informerVars, storageVars, spent>>

\* SetStatusCondition on the working copy, and the status write of
\* setCondition. That it failed is only logged: the copy keeps the condition.
\* again: the condition changes even when its status does not.
StatusCopy(o, c) ==
    [o EXCEPT !.set = c.set, !.tested = c.tested]

\* Mutant: the status is written without the resourceVersion.
OverwriteStatus(c, again) ==
    /\ object' = [object EXCEPT ![work.source] = StatusCopy(@, c)]
    /\ lag' = lag \cup {work.source}
    /\ UNCHANGED spent

WriteStatus(c, again) ==
    \/ /\ ~work.stale
       /\ object' = [object EXCEPT ![work.source] = StatusCopy(@, c)]
       /\ lag' = IF again \/ object' # object THEN lag \cup {work.source}
                 ELSE lag
       /\ UNCHANGED spent
    \/ /\ FailsIf(work.stale)
       /\ UNCHANGED <<object, lag>>

WithSet(is) ==
    [work.copy EXCEPT !.set = [is |-> is, gen |-> work.copy.gen]]

\* Mutant: no RequeueAfter.
ReportNoCredsOnce ==
    /\ work.pc = "noCreds"
    /\ \E again \in BOOLEAN : WriteStatus(work.copy, again)
    /\ Return
    /\ UNCHANGED <<cache, storageVars>>

ReportNoCreds ==
    /\ work.pc = "noCreds"
    /\ \E again \in BOOLEAN : WriteStatus(work.copy, again)
    /\ ReturnAndRequeue
    /\ UNCHANGED <<cache, storageVars>>

ReportCreds ==
    /\ work.pc = "creds"
    /\ \E again \in BOOLEAN : WriteStatus(work.copy, again)
    /\ GoTo("merge")
    /\ UNCHANGED <<informerVars, storageVars>>

\* Mutant: only the events of the source itself.
OwnEvents(c, excluded) ==
    UNION {cache[s].events : s \in {work.source} \ excluded}

\* computeMergedEventsExcluding, by the List of the informer's store.
MergedEvents(c, excluded) ==
    UNION {cache[s].events : s \in {t \in Sources \ excluded :
              cache[t].live /\ ~cache[t].deleting /\ cache[t].claim = c}}

Merge ==
    /\ work.pc = "merge"
    /\ work' = [work EXCEPT !.pc = "put",
                            !.merged = MergedEvents(work.copy.claim, {})]
    /\ UNCHANGED <<object, lag, informerVars, storageVars, spent>>

\* PutBucketNotification or RemoveBucketNotification (merged = {}).
PutSucceeds ==
    /\ claim[work.copy.claim] = "ready"
    /\ notification' = [notification EXCEPT ![work.copy.claim] = work.merged]
    /\ UNCHANGED spent

\* It fails, whether the storage applied it or not.
PutFails ==
    /\ FailsIf(claim[work.copy.claim] # "ready")
    /\ \/ UNCHANGED notification
       \/ /\ claim[work.copy.claim] = "ready"
          /\ notification' =
                [notification EXCEPT ![work.copy.claim] = work.merged]

PutNotification ==
    /\ work.pc = "put"
    /\ \/ PutSucceeds /\ GoTo("set")
       \/ PutFails /\ GoTo("notSet")
    /\ UNCHANGED <<object, lag, informerVars, claim>>

ReportSet ==
    /\ work.pc = "set"
    /\ WriteStatus(WithSet("True"), FALSE)
    /\ Return
    /\ UNCHANGED <<cache, storageVars>>

ReportNotSet ==
    /\ work.pc = "notSet"
    /\ WriteStatus(WithSet("False"), TRUE)
    /\ ReturnAndRequeue
    /\ UNCHANGED <<cache, storageVars>>

-----------------------------------------------------------------------------
(* reconcileDelete.                                                        *)

\* Without its claim the finalizer is removed anyway.
DeleteReadClaim ==
    /\ work.pc = "deleteClaim"
    /\ GoTo(IF ClaimReadable(work.copy.claim) THEN "deleteMerge"
            ELSE "unfinalize")
    /\ UNCHANGED <<object, lag, informerVars, storageVars, spent>>

\* Mutant: the notification is removed although other sources need it.
DeleteMergeNothing ==
    /\ work.pc = "deleteMerge"
    /\ work' = [work EXCEPT !.pc = "deletePut", !.merged = {}]
    /\ UNCHANGED <<object, lag, informerVars, storageVars, spent>>

DeleteMerge ==
    /\ work.pc = "deleteMerge"
    /\ work' = [work EXCEPT !.pc = "deletePut",
                  !.merged = MergedEvents(work.copy.claim, {work.source})]
    /\ UNCHANGED <<object, lag, informerVars, storageVars, spent>>

\* A failure is only logged.
DeletePut ==
    /\ work.pc = "deletePut"
    /\ PutSucceeds \/ PutFails
    /\ GoTo("unfinalize")
    /\ UNCHANGED <<object, lag, informerVars, claim>>

\* Mutant: a failure of the last write is only logged, like that of a status.
UnfinalizeOnce ==
    /\ work.pc = "unfinalize"
    /\ \/ /\ ~work.stale
          /\ object' = [object EXCEPT ![work.source] =
                           NoObject(work.copy.gen)]
          /\ lag' = lag \cup {work.source}
          /\ UNCHANGED spent
       \/ FailsIf(work.stale) /\ UNCHANGED <<object, lag>>
    /\ Return
    /\ UNCHANGED <<cache, storageVars>>

\* RemoveFinalizer: with the write the object is gone.
Unfinalize ==
    /\ work.pc = "unfinalize"
    /\ Update(NoObject(work.copy.gen))
    /\ UNCHANGED <<cache, storageVars>>

-----------------------------------------------------------------------------
Step ==
    \/ Finalize \/ ReadClaim \/ ReportNoCreds \/ ReportCreds \/ Merge
    \/ PutNotification \/ ReportSet \/ ReportNotSet
    \/ DeleteReadClaim \/ DeleteMerge \/ DeletePut \/ Unfinalize

Next ==
    \/ \E s \in Sources : \/ CreateSource(s) \/ ChangeSource(s)
                          \/ DeleteSource(s) \/ HandleTestEvent(s)
                          \/ Deliver(s) \/ BeginReconcile(s)
    \/ \E c \in Claims : Provision(c) \/ WithdrawClaim(c)
    \/ CrashAndRestart
    \/ Step

Spec == Init /\ [][Next]_vars

\* The informer delivers, the worker runs, and the queue is fair: a source in
\* it gets its turn even when another one is requeued without end.
FairSpec ==
    /\ Spec
    /\ WF_vars(Step)
    /\ \A s \in Sources : WF_vars(Deliver(s)) /\ SF_vars(BeginReconcile(s))

-----------------------------------------------------------------------------
(* Properties.                                                             *)

\* The variables have their types, and a Reconcile runs for a source it has
\* read alive.
TypeOK ==
    /\ object \in [Sources -> Object]
    /\ cache \in [Sources -> Object]
    /\ lag \in SUBSET Sources
    /\ queue \in SUBSET Sources
    /\ work \in Work
    /\ work.source # NoSource => work.copy.live
    /\ claim \in [Claims -> {"absent", "bound", "ready", "gone"}]
    /\ notification \in [Claims -> SUBSET EventTypes]
    /\ spent \in [Disturbances -> Nat]

Active(s) == object[s].live /\ ~object[s].deleting

\* The events that s asks for are notified of.
Covered(s) ==
    claim[object[s].claim] = "ready" =>
        object[s].events \subseteq notification[object[s].claim]

\* BucketNotificationSet=True for the present generation: as long as its claim
\* has its bucket, the source gets every event it asks for, whatever the other
\* sources of the bucket do meanwhile.
SetIsHonest ==
    \A s \in Sources :
        Active(s) /\ object[s].set = [is |-> "True", gen |-> object[s].gen]
            => Covered(s)

\* Nothing is to be done for s.
AtRest(s) ==
    s \notin lag /\ s \notin queue /\ work.source # s

\* No wake-up is lost: a source for which nothing is to be done any more has
\* its events, although a Reconcile reads the sources from a store that lags
\* and ignores the failures of its status writes.
CoveredAtRest ==
    \A s \in Sources : Active(s) /\ AtRest(s) => Covered(s)

\* The two writers of the status: what handleTestEvent has written is not
\* undone by a Reconcile that read the source before.
TestEventKept ==
    [][\A s \in Sources :
          object[s].tested /\ object'[s].live /\ object[s].gen <= object'[s].gen
             => object'[s].tested \/ object'[s].gen # object[s].gen]_vars

\* The finalizer goes: a deleted source disappears, whatever fails meanwhile.
DeletionCompletes ==
    \A s \in Sources : (object[s].live /\ object[s].deleting) ~> ~object[s].live

\* A source whose claim has its bucket gets its events, whatever fails
\* meanwhile, and although another source waits for its claim for ever: a
\* failed Reconcile, a lost conflict or a crash is made up for.
EventuallyCovered ==
    \A s \in Sources :
        (Active(s) /\ claim[object[s].claim] = "ready") ~>
            (~Active(s) \/ Covered(s))

\* The subscriptions as their users see them: BucketSubscription.
Subscription ==
    INSTANCE BucketSubscription WITH
        Subscribers <- Sources,
        Buckets <- Claims,
        Events <- EventTypes,
        want <- [s \in Sources |->
                    IF Active(s) THEN {object[s].claim} \X object[s].events
                    ELSE {}],
        acked <- {s \in Sources :
                    /\ Active(s)
                    /\ object[s].set = [is |-> "True", gen |-> object[s].gen]
                    /\ claim[object[s].claim] = "ready"},
        notified <- {p \in Claims \X EventTypes : p[2] \in notification[p[1]]}

\* The reconciler implements the subscriptions: each of its steps is one step
\* of BucketSubscription or leaves it unchanged.
ImplementsSubscription == Subscription!Spec
=============================================================================
