----------------------------- MODULE MCDelivery -----------------------------
(* Instances of Delivery for TLC. *)
EXTENDS Delivery, TLC

\* Rows, workers, ticks and requests are interchangeable: sound for safety.
Symmetry ==
    Permutations(Deliveries) \cup Permutations(Workers)
    \cup Permutations(Tickers) \cup Permutations(Operators)
=============================================================================
