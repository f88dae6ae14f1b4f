-------------------------- MODULE MCDeliveriesPage --------------------------
(* DeliveriesPage on one delivery. *)
EXTENDS DeliveriesPage, TLC
=============================================================================
