---------------------------- MODULE PatternStore ----------------------------
(***************************************************************************)
(* What saving a pattern promises, without locks, phases or fingerprints:  *)
(* a pattern changes by one save or by one restore at a time, and a save   *)
(* made from a view of the pattern replaces exactly the content viewed.    *)
(* SaveRestore implements it (SaveRestore!PatternStoreSpec).               *)
(***************************************************************************)
CONSTANTS Saver, Entity, Project, ProjectOf, Version, None

VARIABLES
    pattern,    \* pattern[e]: the content of an entity's override rows
    view        \* view[s]: the content s edits; None when it never looked

patternVars == <<pattern, view>>

Init ==
    /\ pattern \in [Entity -> Version]
    /\ view = [s \in Saver |-> None]

\* Opening the editor, or the answer of a save, shows what is stored.
Look(s) ==
    /\ \E e \in Entity : view' = [view EXCEPT ![s] = pattern[e]]
    /\ UNCHANGED pattern

Forget(s) ==
    /\ view' = [view EXCEPT ![s] = None]
    /\ UNCHANGED pattern

\* Tooling that looked at nothing overwrites whatever is there.
Save(s) ==
    /\ \E e \in Entity, v \in Version :
          /\ view[s] \in {None, pattern[e]}
          /\ pattern' = [pattern EXCEPT ![e] = v]
    /\ UNCHANGED view

Restore(p) ==
    /\ \E v \in Version :
          pattern' = [e \in Entity |-> IF ProjectOf[e] = p THEN v ELSE pattern[e]]
    /\ UNCHANGED view

Next ==
    \/ \E s \in Saver : Look(s) \/ Forget(s) \/ Save(s)
    \/ \E p \in Project : Restore(p)

Spec == Init /\ [][Next]_patternVars
=============================================================================
