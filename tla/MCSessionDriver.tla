-------------------------- MODULE MCSessionDriver --------------------------
(***************************************************************************)
(* Instances of SessionDriver for TLC.                                     *)
(***************************************************************************)
EXTENDS SessionDriver

CONSTANTS t1, t2, t3

(* Turns are interchangeable, apart from which may have a timeout.         *)
Symmetry == Permutations(TimedTurns) \cup Permutations(Turns \ TimedTurns)

AllAnswers  == {"endTurn", "cancelled", "error", "abort"}
ReentrantEnvironment == {"policyChanges", "connectionLoss", "denials",
                         "watcherCalls", "controlOperations"}
============================================================================
