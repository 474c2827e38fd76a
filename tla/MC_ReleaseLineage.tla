------------------------- MODULE MC_ReleaseLineage -------------------------
(* Instances of ReleaseLineage for TLC.                                     *)
EXTENDS ReleaseLineage, TLC

CONSTANTS p1, p2, p3, n1, n2, o1, o2

\* p3 may inherit from p2, and p2 from p1.
Line == {<<p2, p1>>, <<p3, p2>>}
Pair == {<<p2, p1>>}

\* Version numbers are only compared for equality.
NumberSymmetry == Permutations(Numbers)
=============================================================================
