------------------------------ MODULE Hamming ------------------------------
(* Binary descriptors: a descriptor is the set of its bits that are one.   *)
(* internal/hamming, and the xor of internal/ivf.                          *)
EXTENDS FiniteSets

Xor(a, b) == (a \ b) \cup (b \ a)

Distance(a, b) == Cardinality(Xor(a, b))
=============================================================================
