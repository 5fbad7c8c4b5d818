----------------------------- MODULE MCPassages -----------------------------
(* Instances of Passages for TLC. *)
EXTENDS Passages, TLC

MCSymmetry == Permutations(Hit)
=============================================================================
