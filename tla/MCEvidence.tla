----------------------------- MODULE MCEvidence -----------------------------
(* Evidence for TLC.                                                       *)
EXTENDS Evidence, TLC

Symmetry == Permutations(Shell)
=============================================================================
