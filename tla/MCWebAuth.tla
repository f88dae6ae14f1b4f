------------------------------ MODULE MCWebAuth ------------------------------
(* An instance of WebAuth for TLC.                                            *)
EXTENDS WebAuth
==============================================================================
