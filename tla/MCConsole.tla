----------------------------- MODULE MCConsole -----------------------------
(* Console on two endpoints and one form. *)
EXTENDS Console, TLC

Symmetry == Permutations(Endpoints) \cup Permutations(Slots)
=============================================================================
