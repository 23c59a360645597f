------------------------------ MODULE MCOutbox ------------------------------
(* Model-checking instance of Outbox. *)
EXTENDS Outbox
=============================================================================
