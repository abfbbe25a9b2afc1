--------------------- MODULE FunctionControllerInvariant ---------------------
(***************************************************************************)
(* The inductive invariant behind SpecObserved, OptOutRespected and        *)
(* ObservedNeverRegresses of FunctionController.                           *)
(***************************************************************************)
EXTENDS FunctionController

\* A Reconcile of f is under way.
Busy(f) == work[f].pc # "idle"

\* A Reconcile of f will start: its key is queued or an event will queue it.
Told(f) == f \in events \/ f \in queue

\* Spec versions and stamps only grow, the informer is never ahead of the API
\* server, and a running Reconcile is never ahead of the informer.
VersionsInOrder(f) ==
    /\ cache[f].gen <= object[f].gen
    /\ cache[f].ann <= object[f].stamped
    /\ object[f].ann <= object[f].stamped
    /\ Busy(f) => /\ work[f].gen <= cache[f].gen
                  /\ work[f].status.observed = work[f].gen

\* Nothing is left of a Function that is deleted.
DeletedIsBare(f) ==
    ~object[f].live => object[f].ann = 0 /\ object[f].status.observed = 0

\* The status on the API server is about a spec the informer has delivered, and
\* a running Reconcile is about one that is not older.
ObservationsInOrder(f) ==
    object[f].live =>
        /\ object[f].status.observed <= cache[f].gen
        /\ Busy(f) => object[f].status.observed <= work[f].gen

\* What a Reconcile has flushed is the status until the spec changes.
SentIsStored(f) ==
    Busy(f) /\ work[f].sent # NoStatus /\ object[f].live
        /\ work[f].gen = object[f].gen
    => object[f].status.observed = work[f].gen

\* The informer's version is accounted for: a Reconcile of it will run, runs, or
\* has stored its status.
GenerationCovered(f) ==
    ~Told(f) /\ cache[f].live =>
        IF Busy(f) THEN work[f].gen = cache[f].gen
        ELSE object[f].live /\ object[f].gen = cache[f].gen =>
                 object[f].status.observed = cache[f].gen

\* An annotation the informer has shown is removed before the key is let go.
AnnotationCovered(f) ==
    /\ ~Told(f) /\ cache[f].live /\ object[f].live
    /\ ~Busy(f) \/ (work[f].pc = "flush" /\ ~work[f].failed)
    => object[f].ann = 0 \/ object[f].ann # cache[f].ann

\* A generation names one spec, and a rebuild is under way only for a spec that
\* does not opt out.
SpecOfGeneration(f) ==
    /\ object[f].live /\ cache[f].live /\ object[f].gen = cache[f].gen =>
           object[f].auto = cache[f].auto
    /\ Busy(f) /\ object[f].live /\ object[f].gen = work[f].gen =>
           object[f].auto = work[f].auto
    /\ work[f].pc = "latest" /\ work[f].enabled => work[f].auto # "off"
    /\ work[f].pc \in {"preflush", "deploy", "wait"} => work[f].auto # "off"

\* An informer that lags behind nothing holds what the API server holds.
NoLagIsEqual(f) == f \notin lag => cache[f] = object[f]

FunctionInv(f) ==
    /\ NoLagIsEqual(f)
    /\ VersionsInOrder(f)
    /\ DeletedIsBare(f)
    /\ ObservationsInOrder(f)
    /\ SentIsStored(f)
    /\ GenerationCovered(f)
    /\ AnnotationCovered(f)
    /\ SpecOfGeneration(f)

\* The inductive invariant: FunctionInv for every Function.
Inv == TypeOK /\ \A f \in Functions : FunctionInv(f)
=============================================================================
