--------------------------- MODULE MCReceivables ---------------------------
(***************************************************************************)
(* Receivables for TLC: the transactions are interchangeable.              *)
(***************************************************************************)
EXTENDS Receivables, TLC

ClerkSymmetry == Permutations(Clerks)
=============================================================================
