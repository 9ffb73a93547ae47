--------------------------- MODULE MCSearcherSwap ---------------------------
(* A small server for TLC. *)
EXTENDS SearcherSwap, TLC

MCSymmetry ==
    Permutations(Image) \cup Permutations(Deleter) \cup Permutations(Slot)
=============================================================================
