--------------------------- MODULE MCImageCatalog ---------------------------
(* A small catalog for TLC. *)
EXTENDS ImageCatalog, TLC

\* An image without descriptors, and images with one and two.
MCCounts == {0, 1, 2}

MCSymmetry == Permutations(Hash)
=============================================================================
