------------------------- MODULE MCSessionRegistry -------------------------
(***************************************************************************)
(* Instances of SessionRegistry for TLC.                                   *)
(***************************************************************************)
EXTENDS SessionRegistry, TLC

(* Nothing but DeletionKept is said of what follows a theft of the lock.    *)
NotStolen == ~stolen

Symmetry == Permutations(Processes) \cup Permutations(Ids)
=============================================================================
