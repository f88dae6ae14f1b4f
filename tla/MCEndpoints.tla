----------------------------- MODULE MCEndpoints -----------------------------
(* Instances of Endpoints for TLC. *)
EXTENDS Endpoints, TLC

\* Ids and processes of a kind are interchangeable: sound for safety.
Symmetry ==
    Permutations(Ids) \cup Permutations(Creators) \cup Permutations(Submitters)
        \cup Permutations(Senders)
=============================================================================
