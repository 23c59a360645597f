--------------------------- MODULE MCSupervision ---------------------------
(* Model-checking instances of Supervision. *)
EXTENDS Supervision
=============================================================================
