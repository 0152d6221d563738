---------------------------- MODULE MCWayfinder ----------------------------
(* Two maps, two tickets, a project and one nested under it. *)
EXTENDS Wayfinder, TLC
CONSTANTS p, ps
Nested == {<<ps, p>>}
WayfinderSymmetry == Permutations(Callers) \cup Permutations(Maps) \cup Permutations(Tickets)
=============================================================================
