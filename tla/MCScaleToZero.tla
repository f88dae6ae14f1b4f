---------------------------- MODULE MCScaleToZero ----------------------------
(* Instances of ScaleToZero for TLC. Visitors are interchangeable, but the    *)
(* runs have liveness properties, for which symmetry is not sound.            *)
EXTENDS ScaleToZero
=============================================================================
