------------------------- MODULE MCBatchController -------------------------
(* Model-checking instances of BatchController. *)
EXTENDS BatchController, TLC

MailboxSymmetry == Permutations(Mailboxes)
=============================================================================
