------------------------ MODULE MCFunctionController ------------------------
(***************************************************************************)
(* Instances of FunctionController for TLC: how often each disturbance may *)
(* happen in a run. The name of a limit lists the disturbances it allows.  *)
(***************************************************************************)
EXTENDS FunctionControllerInvariant, TLC

Limits(c, s, r, f, k) ==
    ("config" :> c) @@ ("service" :> s) @@ ("release" :> r) @@ ("fault" :> f)
        @@ ("crash" :> k)

OneServiceFault        == Limits(0, 1, 0, 1, 0)
OneServiceReleaseFault == Limits(0, 1, 1, 1, 0)
TwoConfigServiceCrash  == Limits(2, 1, 0, 0, 1)
=============================================================================
