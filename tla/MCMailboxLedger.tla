--------------------------- MODULE MCMailboxLedger ---------------------------
(* Model-checking instance of MailboxLedger. *)
EXTENDS MailboxLedger, TLC

CONSTANTS p1, m1, m2

(* Two mailboxes of one project that write to the same destination account  *)
(* under different names.                                                   *)
OneProject == m1 :> p1 @@ m2 :> p1
DistinctAccounts == m1 :> "a" @@ m2 :> "b"
SameAccount == m1 :> "a" @@ m2 :> "a"

RunSymmetry == Permutations(RunIds)
=============================================================================
