------------------------ MODULE MCVerificationStage ------------------------
(* Model-checking instances of VerificationStage. *)
EXTENDS VerificationStage

(* One folder with one message; the other folder does not exist yet. *)
MCInitialCounts == {<<1, 0>>}
=============================================================================
