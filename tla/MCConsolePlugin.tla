--------------------------- MODULE MCConsolePlugin ---------------------------
(***************************************************************************)
(* An instance of ConsolePlugin for TLC: four of the resources, one not    *)
(* watched, and how often each disturbance may happen.                     *)
(***************************************************************************)
EXTENDS ConsolePlugin

FourResources == <<"ServiceAccount", "RoleBinding", "Deployment", "ConsolePlugin">>

OneConfigTrouble == [k \in Disturbances |-> 1]
=============================================================================
