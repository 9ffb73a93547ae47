---------------------------- MODULE MCImageIndex ----------------------------
(* A small catalog and index for TLC. *)
EXTENDS ImageIndex, TLC

MCSymmetry == Permutations(Hash) \cup Permutations(Deleter)
=============================================================================
