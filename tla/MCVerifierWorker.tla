-------------------------- MODULE MCVerifierWorker --------------------------
(* Small instances of VerifierWorker.                                      *)
EXTENDS VerifierWorker, TLC

Symmetry == Permutations(Entries)
=============================================================================
