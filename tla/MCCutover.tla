----------------------------- MODULE MCCutover -----------------------------
(* Model-checking instance of Cutover. *)
EXTENDS Cutover
=============================================================================
