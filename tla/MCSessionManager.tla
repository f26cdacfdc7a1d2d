-------------------------- MODULE MCSessionManager --------------------------
(***************************************************************************)
(* Instances of SessionManager for TLC.                                    *)
(***************************************************************************)
EXTENDS SessionManager, TLC

(* Open calls of a kind are interchangeable.                               *)
Symmetry == Permutations(Loaders)

AllFailures ==
  {"openFailures", "configFailures", "persistFailures", "closeFailures"}
============================================================================
