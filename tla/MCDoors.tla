------------------------------ MODULE MCDoors ------------------------------
(* Two names, two grants and two callers that overlap. *)
EXTENDS Doors, TLC
CallerSymmetry == Permutations(Callers)
=============================================================================
