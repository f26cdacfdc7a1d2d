----------------------------- MODULE MCSimulator -----------------------------
(***************************************************************************)
(* Instances of Simulator for TLC.                                         *)
(***************************************************************************)
EXTENDS Simulator, TLC

CONSTANTS s1, s2

(* The scenario uses all the tools.                                        *)
SomeActions == {"describe", "rename", "scenario", "simulate"}
===============================================================================
