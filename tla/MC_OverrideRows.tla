-------------------------- MODULE MC_OverrideRows ---------------------------
(***************************************************************************)
(* Small instances of OverrideRows for TLC.                                *)
(***************************************************************************)
EXTENDS OverrideRows, TLC

CONSTANTS w1, w2, f1, f2, c1, c2

Symmetries == Permutations(Writer) \cup Permutations(Field) \cup Permutations(Place)
=============================================================================
