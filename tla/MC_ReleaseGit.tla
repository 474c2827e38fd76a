--------------------------- MODULE MC_ReleaseGit ---------------------------
(* Instances of ReleaseGit for TLC.                                         *)
EXTENDS ReleaseGit, TLC

CONSTANTS v1, v2, d1, d2

Symmetric == Permutations(Versions) \cup Permutations(Drainers)
=============================================================================
