------------------------- MODULE MCObjectBucketSource -------------------------
(***************************************************************************)
(* Instances of ObjectBucketSource for TLC: how often each disturbance may *)
(* happen in a run.                                                        *)
(***************************************************************************)
EXTENDS ObjectBucketSource, TLC

Limits(s, e, t, w) ==
    ("spec" :> s) @@ ("test" :> e) @@ ("trouble" :> t) @@ ("withdraw" :> w)

ThreeSpecsTroubleWithdraw == Limits(3, 1, 1, 1)
TwoSpecsTrouble           == Limits(2, 0, 1, 0)

CONSTANTS s1, s2, c1, c2, created, removed

Symmetry ==
    Permutations({s1, s2}) \cup Permutations({c1, c2})
        \cup Permutations({created, removed})
=============================================================================
