---------------------------- MODULE MCRenderQueue ---------------------------
EXTENDS RenderQueue, TLC

\* Encoders and textures are interchangeable.
Symmetry == Permutations(Encoders) \cup Permutations(Textures)
=============================================================================
