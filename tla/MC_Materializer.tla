-------------------------- MODULE MC_Materializer --------------------------
(* Instances of Materializer for TLC: a field f placed by a model m, or two  *)
(* unrelated entities, and a few requests.                                   *)
EXTENDS Materializer, TLC

CONSTANTS f, m, d1, d2, sweep, s1, s2, s3

Placed == {<<f, m>>}
NotPlaced == {}
SaveSymmetry == Permutations(Saves \ Bad)
=============================================================================
