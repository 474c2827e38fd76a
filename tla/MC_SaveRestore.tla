--------------------------- MODULE MC_SaveRestore ---------------------------
(***************************************************************************)
(* Small instances of SaveRestore for TLC, and its properties.             *)
(***************************************************************************)
EXTENDS SaveRestoreProperties, TLC

CONSTANTS s1, s2, r1, r2, p1, p2, m1, c1

\* One project that owns a model and a collection.
OneProject == (m1 :> p1 @@ c1 :> p1)

\* Each entity in a project of its own.
TwoProjects == (m1 :> p1 @@ c1 :> p2)

OneModel == (m1 :> p1)

\* The savers are interchangeable.
SaverSymmetry == Permutations(Saver)
=============================================================================
