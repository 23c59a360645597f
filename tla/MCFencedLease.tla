---------------------------- MODULE MCFencedLease ----------------------------
(* Model-checking instance of FencedLease. *)
EXTENDS FencedLease, TLC

WorkerSymmetry == Permutations(Workers)
=============================================================================
