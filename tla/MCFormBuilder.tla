---------------------------- MODULE MCFormBuilder ----------------------------
(* An instance of FormBuilder for TLC; its one tab leaves little symmetry,   *)
(* and its liveness property allows none.                                    *)
EXTENDS FormBuilder
================================================================================
