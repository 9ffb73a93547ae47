---------------------------- MODULE MCLocalIndex ----------------------------
(* A small index for TLC. *)
EXTENDS LocalIndex, TLC

MCSymmetry == Permutations(Entry)
=============================================================================
