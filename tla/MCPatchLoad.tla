---------------------------- MODULE MCPatchLoad ----------------------------
(* Model-checking instance of PatchLoad: patches are interchangeable.      *)
EXTENDS PatchLoad, TLC

CONSTANTS p1, p2

MCPatches == {p1, p2}
PatchSymmetry == Permutations(MCPatches)
=============================================================================
