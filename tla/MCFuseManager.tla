--------------------------- MODULE MCFuseManager ---------------------------
(* FuseManager for TLC: calls are interchangeable. *)
EXTENDS FuseManager, TLC

Symmetry == Permutations(Calls)
============================================================================
