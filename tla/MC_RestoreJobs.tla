--------------------------- MODULE MC_RestoreJobs ---------------------------
(* Instances of RestoreJobs for TLC: a project t whose parent p has the      *)
(* parent g; the snapshot of t vendors both.                                *)
EXTENDS RestoreJobs, TLC

CONSTANTS g, p, t, jp, jt, r1, r2, none

Tree == (g :> {} @@ p :> {g} @@ t :> {p, g})
Parents == (g :> {} @@ p :> {g} @@ t :> {p})
Targets == (jp :> p @@ jt :> t)
=============================================================================
