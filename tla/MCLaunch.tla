------------------------------- MODULE MCLaunch -------------------------------
(***************************************************************************)
(* An instance of LaunchRegistry for TLC.                                  *)
(***************************************************************************)
EXTENDS LaunchRegistry

CONSTANTS c1, c2, c3

(* Two calls of one process and one of another.                            *)
TwoProcesses == [c \in {c1, c2, c3} |-> IF c = c3 THEN 2 ELSE 1]
===============================================================================
