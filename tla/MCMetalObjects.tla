--------------------------- MODULE MCMetalObjects ---------------------------
EXTENDS MetalObjects, TLC

\* Pools are interchangeable.
Symmetry == Permutations(Pools)
=============================================================================
