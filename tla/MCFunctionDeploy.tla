--------------------------- MODULE MCFunctionDeploy ---------------------------
(***************************************************************************)
(* An instance of FunctionDeploy for TLC: one of two Functions is created  *)
(* twice.                                                                  *)
(***************************************************************************)
EXTENDS FunctionDeploy

CONSTANTS f1, f2

FirstTwice == [f \in Functions |-> IF f = f1 THEN 2 ELSE 1]
=============================================================================
