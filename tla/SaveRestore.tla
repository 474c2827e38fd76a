---------------------------- MODULE SaveRestore -----------------------------
(***************************************************************************)
(* Saving a pattern (a model's or a collection's overrides) while other    *)
(* curators save and an operator restores a project from git.              *)
(*                                                                         *)
(* A save (pkg/weave/project/override_write.go, saveOverrides) is a        *)
(* sequence of separately committed writes run under two advisory locks,   *)
(* SHARED on the project and then EXCLUSIVE on the entity; it is refused   *)
(* when the fingerprint the editor loaded is no longer the entity's.  A    *)
(* restore (pkg/service/gitmaterializer, HydrateRestorePlan) takes the     *)
(* project EXCLUSIVE and rewrites it in separately committed phases.  Any  *)
(* step can fail, any wait can time out, and any process can die between   *)
(* two commits.                                                            *)
(*                                                                         *)
(* Content is abstracted to versions: every submission writes a version of *)
(* its own, every restore writes the restorer's.                           *)
(***************************************************************************)
EXTENDS Naturals, Sequences

CONSTANTS
    Saver,          \* editor sessions, each with one save in flight at most
    Restorer,       \* restore runs
    Project,
    Entity,         \* models and collections
    Model,          \* the entities that are models: only they have placements
    ProjectOf,      \* the project that owns an entity
    Initial,        \* the version every part starts with
    None,           \* no fingerprint, nothing read
    MaxSubmits,     \* bound: submissions per editor session
    LockLoss,       \* may a connection that holds locks be lost in mid-work?
    Undo            \* may a submission bring earlier content back?

ASSUME SaveRestoreAssumption ==
    /\ Model \subseteq Entity
    /\ ProjectOf \in [Entity -> Project]
    /\ Saver \cap Restorer = {}
    /\ Project \cap Entity = {}
    /\ MaxSubmits \in Nat \ {0}
    /\ LockLoss \in BOOLEAN
    /\ Undo \in BOOLEAN

VARIABLES
    holds, waits,   \* the lock table
    db,             \* db[e][part]: the committed version of a part of e
    pc,             \* where each save and each restore is
    entity,         \* the entity a saver edits
    base,           \* the fingerprint the next submission carries
    seen,           \* the content the editor showed when it was loaded
    reads,          \* how many of the six reads of a load are done
    submits,        \* submissions made
    stage,          \* how many of its commits the running save has made
    outcome,        \* what the callback, or the failure to run it, decided
    target,         \* the project a restorer restores
    torn            \* history: entities whose last writer stopped half way

INSTANCE AdvisoryLock WITH Key <- Project \cup Entity,
                           Session <- Saver \cup Restorer

lockVars == <<holds, waits>>
dbVars == <<db, torn>>
editVars == <<entity, base, seen, reads, submits>>
vars == <<holds, waits, db, pc, entity, base, seen, reads, submits, stage,
          outcome, target, torn>>

-----------------------------------------------------------------------------
\* The fingerprint hashes rows, refs and placements; adoptions are outside it.
FpPart == {"rows", "refs", "placements"}
Part == FpPart \cup {"adoptions"}

\* A part a save writes in several commits holds "some" of its version between
\* the first and the last of them.
Version ==
    {Initial} \cup Restorer \cup (Saver \X (1 .. MaxSubmits) \X {"some", "all"})

\* Different writes write different content: a version names its write.
ASSUME VersionAssumption ==
    /\ None \notin Version
    /\ Initial \notin Restorer \cup (Saver \X (1 .. MaxSubmits) \X {"some", "all"})
    /\ Restorer \cap (Saver \X (1 .. MaxSubmits) \X {"some", "all"}) = {}

\* EntityFingerprint, and then the editor payload, read in this order, each
\* read on its own connection.
LoadOrder == <<"rows", "refs", "placements">>

\* saveOverrides commits in this order: the rows in one transaction, which takes
\* the refs of removed rows along, each placement in its own, the refs of each row
\* in their own, the adoptions in one.
Commits == << <<"rows", "all">>, <<"placements", "some">>, <<"placements", "all">>,
              <<"refs", "all">>, <<"adoptions", "all">> >>

Nothing == [p \in FpPart |-> None]

Fingerprint(e) == [p \in FpPart |-> db[e][p]]

\* What a submission writes.  With Undo an editor's second submission brings the
\* first content back, and equal content has an equal fingerprint.
Mine(s, how) ==
    IF Undo /\ submits[s] > 1 /\ how = "all" THEN Initial ELSE <<s, submits[s], how>>

InFlight == {"project", "entity", "write", "fingerprint",
             "unlockEntity", "unlockProject"}

TypeOK ==
    /\ LockTypeOK
    /\ db \in [Entity -> [Part -> Version]]
    /\ \A s \in Saver : pc[s] \in InFlight \cup {"idle", "load", "ready", "answered"}
    /\ \A r \in Restorer : pc[r] \in {"idle", "lock", "overrides", "provenance",
                                      "unlock", "done", "failed"}
    /\ DOMAIN pc = Saver \cup Restorer
    /\ entity \in [Saver -> Entity]
    /\ base \in [Saver -> [FpPart -> Version \cup {None}]]
    /\ seen \in [Saver -> [FpPart -> Version \cup {None}]]
    /\ reads \in [Saver -> 0 .. 6]
    /\ submits \in [Saver -> 0 .. MaxSubmits]
    /\ stage \in [Saver -> 0 .. 5]
    /\ outcome \in [Saver -> {"none", "ok", "busy", "conflict", "error"}]
    /\ target \in [Restorer -> Project]
    /\ torn \subseteq Entity

Init ==
    /\ LockInit
    /\ db = [e \in Entity |-> [p \in Part |-> Initial]]
    /\ pc = [x \in Saver \cup Restorer |-> "idle"]
    /\ entity \in [Saver -> Entity]
    /\ base = [s \in Saver |-> Nothing]
    /\ seen = [s \in Saver |-> Nothing]
    /\ reads = [s \in Saver |-> 0]
    /\ submits = [s \in Saver |-> 0]
    /\ stage = [s \in Saver |-> 0]
    /\ outcome = [s \in Saver |-> "none"]
    /\ target \in [Restorer -> Project]
    /\ torn = {}

Go(x, to) == pc' = [pc EXCEPT ![x] = to]

-----------------------------------------------------------------------------
(* The editor.                                                             *)

\* Opening the editor: ModelOverrides / CollectionOverrides start reading.
StartLoad(s) ==
    /\ pc[s] \in {"idle", "answered"}
    /\ submits[s] < MaxSubmits
    /\ Go(s, "load")
    /\ reads' = [reads EXCEPT ![s] = 0]
    /\ base' = [base EXCEPT ![s] = Nothing]
    /\ seen' = [seen EXCEPT ![s] = Nothing]
    /\ outcome' = [outcome EXCEPT ![s] = "none"]
    /\ UNCHANGED <<lockVars, dbVars, entity, submits, stage, target>>

\* Fault: the content is read before the fingerprint that describes it.
ReadPartFault(s) ==
    /\ pc[s] = "load"
    /\ LET n == reads[s]
           p == LoadOrder[IF n < 3 THEN n + 1 ELSE n - 2]
           v == db[entity[s]][p]
       IN /\ seen' = IF n < 3 THEN [seen EXCEPT ![s][p] = v] ELSE seen
          /\ base' = IF n < 3 THEN base ELSE [base EXCEPT ![s][p] = v]
          /\ Go(s, IF n = 5 THEN "ready" ELSE "load")
    /\ reads' = [reads EXCEPT ![s] = @ + 1]
    /\ UNCHANGED <<lockVars, dbVars, entity, submits, stage, outcome, target>>

\* One of the reads: first the three of the fingerprint, then the content.
ReadPart(s) ==
    /\ pc[s] = "load"
    /\ LET n == reads[s]
           p == LoadOrder[IF n < 3 THEN n + 1 ELSE n - 2]
           v == db[entity[s]][p]
       IN /\ base' = IF n < 3 THEN [base EXCEPT ![s][p] = v] ELSE base
          /\ seen' = IF n < 3 THEN seen ELSE [seen EXCEPT ![s][p] = v]
          /\ Go(s, IF n = 5 THEN "ready" ELSE "load")
    /\ reads' = [reads EXCEPT ![s] = @ + 1]
    /\ UNCHANGED <<lockVars, dbVars, entity, submits, stage, outcome, target>>

\* Tooling that never loaded an editor payload sends an empty fingerprint.
StartBlind(s) ==
    /\ pc[s] = "idle"
    /\ submits[s] < MaxSubmits
    /\ Go(s, "ready")
    /\ UNCHANGED <<lockVars, dbVars, editVars, stage, outcome, target>>

\* The answer is in: the client sends the same draft again with the
\* fingerprint it has, which is the one the save returned if it returned one.
Resubmit(s) ==
    /\ pc[s] = "answered"
    /\ submits[s] < MaxSubmits
    /\ Go(s, "ready")
    /\ UNCHANGED <<lockVars, dbVars, editVars, stage, outcome, target>>

-----------------------------------------------------------------------------
(* saveOverrides under WithAdvisoryLock.                                   *)

\* Take a connection, set lock_timeout, ask for the project lock SHARED.
Submit(s) ==
    /\ pc[s] = "ready"
    /\ submits[s] < MaxSubmits
    /\ submits' = [submits EXCEPT ![s] = @ + 1]
    /\ stage' = [stage EXCEPT ![s] = 0]
    /\ outcome' = [outcome EXCEPT ![s] = "none"]
    /\ Acquire(s, ProjectOf[entity[s]], "shared")
    /\ Go(s, "project")
    /\ UNCHANGED <<dbVars, entity, base, seen, reads, target>>

\* The project lock is held: ask for the entity lock EXCLUSIVE.
TakeEntityLock(s) ==
    /\ pc[s] = "project"
    /\ Holds(s, ProjectOf[entity[s]], "shared")
    /\ Acquire(s, entity[s], "exclusive")
    /\ Go(s, "entity")
    /\ UNCHANGED <<dbVars, editVars, stage, outcome, target>>

\* Fault: a busy entity lock leaves without releasing the project lock.
LockTimeoutFault(s) ==
    /\ pc[s] \in {"project", "entity"}
    /\ GiveUp(s, IF pc[s] = "project" THEN ProjectOf[entity[s]] ELSE entity[s])
    /\ Go(s, "answered")
    /\ outcome' = [outcome EXCEPT ![s] = "busy"]
    /\ UNCHANGED <<dbVars, editVars, stage, target>>

\* Either wait runs out of its budget: the save is answered "busy", and a
\* project lock already held is released on the way out.
LockTimeout(s) ==
    /\ \/ /\ pc[s] = "project"
          /\ GiveUp(s, ProjectOf[entity[s]])
          /\ Go(s, "answered")
       \/ /\ pc[s] = "entity"
          /\ GiveUp(s, entity[s])
          /\ Go(s, "unlockProject")
    /\ outcome' = [outcome EXCEPT ![s] = "busy"]
    /\ UNCHANGED <<dbVars, editVars, stage, target>>

InCallback(s) == pc[s] = "entity" /\ Holds(s, entity[s], "exclusive")

Unchecked(s) == base[s] = Nothing

\* Fault: the staleness check is skipped.
CheckFingerprintFault(s) ==
    /\ InCallback(s)
    /\ Go(s, "write")
    /\ UNCHANGED <<lockVars, dbVars, editVars, stage, outcome, target>>

\* The callback starts: a non-empty fingerprint must still be the entity's.
CheckFingerprint(s) ==
    /\ InCallback(s)
    /\ IF Unchecked(s) \/ base[s] = Fingerprint(entity[s])
       THEN Go(s, "write") /\ UNCHANGED outcome
       ELSE /\ Go(s, "unlockEntity")
            /\ outcome' = [outcome EXCEPT ![s] = "conflict"]
    /\ UNCHANGED <<lockVars, dbVars, editVars, stage, target>>

\* Fault: the entity lock is released before the new fingerprint is read.
WritePartFault(s) ==
    /\ pc[s] = "write"
    /\ LET e == entity[s]
           c == Commits[stage[s] + 1]
           last == stage[s] + 1 = 5
       IN /\ db' = CASE c[1] = "rows" ->
                         [db EXCEPT ![e]["rows"] = Mine(s, "all"),
                                    ![e]["refs"] = Mine(s, "some")]
                    [] c[1] = "placements" /\ e \notin Model -> db
                    [] OTHER -> [db EXCEPT ![e][c[1]] = Mine(s, c[2])]
          /\ torn' = IF last THEN torn \ {e} ELSE torn
          /\ Go(s, IF last THEN "fingerprint" ELSE "write")
          /\ IF last THEN Unlock(s, e, "exclusive") ELSE UNCHANGED lockVars
    /\ stage' = [stage EXCEPT ![s] = @ + 1]
    /\ UNCHANGED <<editVars, outcome, target>>

\* One committed write: SaveForEntity, the placement upserts and deletes of a
\* model, SetRefs, ReplaceForContext.
WritePart(s) ==
    /\ pc[s] = "write"
    /\ LET e == entity[s]
           c == Commits[stage[s] + 1]
           last == stage[s] + 1 = 5
       IN /\ db' = CASE c[1] = "rows" ->
                         [db EXCEPT ![e]["rows"] = Mine(s, "all"),
                                    ![e]["refs"] = Mine(s, "some")]
                    [] c[1] = "placements" /\ e \notin Model -> db
                    [] OTHER -> [db EXCEPT ![e][c[1]] = Mine(s, c[2])]
          /\ torn' = IF last THEN torn \ {e} ELSE torn
          /\ Go(s, IF last THEN "fingerprint" ELSE "write")
    /\ stage' = [stage EXCEPT ![s] = @ + 1]
    /\ UNCHANGED <<lockVars, editVars, outcome, target>>

\* Stopping after the first commit and before the last one.
Tear(s) ==
    torn' = IF pc[s] = "write" /\ stage[s] > 0 THEN torn \cup {entity[s]} ELSE torn

\* A step of the callback returns an error: nothing is rolled back.
CallbackFails(s) ==
    /\ InCallback(s) \/ pc[s] \in {"write", "fingerprint"}
    /\ Tear(s)
    /\ Go(s, "unlockEntity")
    /\ outcome' = [outcome EXCEPT ![s] = "error"]
    /\ UNCHANGED <<lockVars, db, editVars, stage, target>>

\* The new fingerprint goes back to the editor, which now shows its own draft.
ReturnFingerprint(s) ==
    /\ pc[s] = "fingerprint"
    /\ base' = [base EXCEPT ![s] = Fingerprint(entity[s])]
    /\ seen' = [seen EXCEPT ![s] =
                   [p \in FpPart |-> IF p = "placements" /\ entity[s] \notin Model
                                     THEN db[entity[s]][p]
                                     ELSE Mine(s, "all")]]
    /\ outcome' = [outcome EXCEPT ![s] = "ok"]
    /\ Go(s, "unlockEntity")
    /\ UNCHANGED <<lockVars, dbVars, entity, reads, submits, stage, target>>

\* The deferred releases, entity first.
UnlockEntity(s) ==
    /\ pc[s] = "unlockEntity"
    /\ Holds(s, entity[s], "exclusive")
    /\ Unlock(s, entity[s], "exclusive")
    /\ Go(s, "unlockProject")
    /\ UNCHANGED <<dbVars, editVars, stage, outcome, target>>

\* Fault: the project lock stays with the pooled connection.
UnlockProjectFault(s) ==
    /\ pc[s] = "unlockProject"
    /\ Go(s, "answered")
    /\ UNCHANGED <<lockVars, dbVars, editVars, stage, outcome, target>>

UnlockProject(s) ==
    /\ pc[s] = "unlockProject"
    /\ Holds(s, ProjectOf[entity[s]], "shared")
    /\ Unlock(s, ProjectOf[entity[s]], "shared")
    /\ Go(s, "answered")
    /\ UNCHANGED <<dbVars, editVars, stage, outcome, target>>

\* An unlock fails: the connection is closed and the later teardown skipped.
\* The outcome stands.
TeardownFails(s) ==
    /\ pc[s] \in {"unlockEntity", "unlockProject"}
    /\ Disconnect(s)
    /\ Go(s, "answered")
    /\ UNCHANGED <<dbVars, editVars, stage, outcome, target>>

\* Fault: a callback that never ran is read as one that returned nil.
SaveDiesFault(s) ==
    /\ pc[s] \in InFlight
    /\ Disconnect(s)
    /\ Tear(s)
    /\ Go(s, "answered")
    /\ outcome' = [outcome EXCEPT ![s] = IF pc[s] \in {"project", "entity"}
                                        THEN "ok" ELSE "error"]
    /\ UNCHANGED <<db, editVars, stage, target>>

\* The lock connection, the request or the server dies.  A request that
\* never took its locks reports an error, never the zero value of success.
SaveDies(s) ==
    /\ pc[s] \in InFlight
    /\ Disconnect(s)
    /\ Tear(s)
    /\ Go(s, "answered")
    /\ outcome' = [outcome EXCEPT ![s] = "error"]
    /\ UNCHANGED <<db, editVars, stage, target>>

-----------------------------------------------------------------------------
(* HydrateRestorePlan under LockProjectForRestore.                         *)

EntitiesOf(p) == {e \in Entity : ProjectOf[e] = p}

StartRestore(r) ==
    /\ pc[r] = "idle"
    /\ Acquire(r, target[r], "exclusive")
    /\ Go(r, "lock")
    /\ UNCHANGED <<dbVars, editVars, stage, outcome, target>>

RestoreTimeout(r) ==
    /\ pc[r] = "lock"
    /\ GiveUp(r, target[r])
    /\ Go(r, "failed")
    /\ UNCHANGED <<dbVars, editVars, stage, outcome, target>>

\* Fault: the restore writes without waiting for its lock.
HydrateEntitiesFault(r) ==
    /\ pc[r] = "lock"
    /\ Go(r, "overrides")
    /\ UNCHANGED <<lockVars, dbVars, editVars, stage, outcome, target>>

\* The lock is held: vendored parents, shell and entities, which upsert other
\* tables than a save writes.
HydrateEntities(r) ==
    /\ pc[r] = "lock"
    /\ Holds(r, target[r], "exclusive")
    /\ Go(r, "overrides")
    /\ UNCHANGED <<lockVars, dbVars, editVars, stage, outcome, target>>

\* Fault: the lock is scoped to each hydration transaction, so it is released
\* at the first commit.
HydrateOverridesFault(r) ==
    /\ pc[r] = "overrides"
    /\ db' = [e \in Entity |->
                 IF e \in EntitiesOf(target[r])
                 THEN [db[e] EXCEPT !["rows"] = r, !["refs"] = r]
                 ELSE db[e]]
    /\ Unlock(r, target[r], "exclusive")
    /\ Go(r, "provenance")
    /\ UNCHANGED <<torn, editVars, stage, outcome, target>>

\* One transaction: clear and reinsert every override row and ref of the
\* project.  Collection placements are not in the tree and stay as they are.
HydrateOverrides(r) ==
    /\ pc[r] = "overrides"
    /\ db' = [e \in Entity |->
                 IF e \in EntitiesOf(target[r])
                 THEN [db[e] EXCEPT !["rows"] = r, !["refs"] = r]
                 ELSE db[e]]
    /\ Go(r, "provenance")
    /\ UNCHANGED <<lockVars, torn, editVars, stage, outcome, target>>

\* A second transaction: clear and reinsert the project's adoptions.
HydrateProvenance(r) ==
    /\ pc[r] = "provenance"
    /\ db' = [e \in Entity |->
                 IF e \in EntitiesOf(target[r])
                 THEN [db[e] EXCEPT !["adoptions"] = r]
                 ELSE db[e]]
    /\ torn' = torn \ EntitiesOf(target[r])
    /\ Go(r, "unlock")
    /\ UNCHANGED <<lockVars, editVars, stage, outcome, target>>

\* Fault: the restore finishes without calling release.
RestoreUnlockFault(r) ==
    /\ pc[r] = "unlock"
    /\ Go(r, "done")
    /\ UNCHANGED <<lockVars, dbVars, editVars, stage, outcome, target>>

\* A failed unlock is only logged, and its connection closed.
RestoreUnlock(r) ==
    /\ pc[r] = "unlock"
    /\ Unlock(r, target[r], "exclusive")
    /\ Go(r, "done")
    /\ UNCHANGED <<dbVars, editVars, stage, outcome, target>>

\* A phase (moving the entity counters past the restored ids is the last) fails
\* or the restoring process dies: committed phases stay.
RestoreFails(r) ==
    /\ pc[r] \in {"lock", "overrides", "provenance", "unlock"}
    /\ Disconnect(r)
    /\ torn' = IF pc[r] = "provenance" THEN torn \cup EntitiesOf(target[r]) ELSE torn
    /\ Go(r, "failed")
    /\ UNCHANGED <<db, editVars, stage, outcome, target>>

-----------------------------------------------------------------------------
\* The connection that holds the locks is lost while the work goes on: every
\* write of a save or a restore runs on other pooled connections, so nothing
\* stops it, and only the unlock at the end notices.
LoseLocks(x) ==
    /\ LockLoss
    /\ pc[x] \in {"write", "fingerprint", "overrides", "provenance"}
    /\ Disconnect(x)
    /\ UNCHANGED <<dbVars, pc, editVars, stage, outcome, target>>

GrantLock ==
    /\ \E k \in Project \cup Entity : Grant(k)
    /\ UNCHANGED <<dbVars, pc, editVars, stage, outcome, target>>

SaveStep(s) ==
    \/ TakeEntityLock(s) \/ CheckFingerprint(s) \/ WritePart(s)
    \/ ReturnFingerprint(s) \/ UnlockEntity(s) \/ UnlockProject(s)

RestoreStep(r) ==
    \/ HydrateEntities(r) \/ HydrateOverrides(r) \/ HydrateProvenance(r)
    \/ RestoreUnlock(r)

Next ==
    \/ \E s \in Saver :
          \/ StartLoad(s) \/ ReadPart(s) \/ StartBlind(s) \/ Resubmit(s)
          \/ Submit(s) \/ SaveStep(s) \/ LockTimeout(s) \/ CallbackFails(s)
          \/ TeardownFails(s) \/ SaveDies(s)
    \/ \E r \in Restorer :
          StartRestore(r) \/ RestoreStep(r) \/ RestoreTimeout(r) \/ RestoreFails(r)
    \/ \E x \in Saver \cup Restorer : LoseLocks(x)
    \/ GrantLock

Spec == Init /\ [][Next]_vars

\* Handlers and restores run, and Postgres wakes waiters; nothing makes a user
\* act, a wait time out or a step fail.  An unlock is attempted and succeeds or
\* fails: a save that lost its locks has only the second.
Fairness ==
    /\ \A s \in Saver : WF_vars(SaveStep(s) \/ TeardownFails(s))
    /\ \A r \in Restorer : WF_vars(RestoreStep(r))
    /\ WF_vars(GrantLock)

FairSpec == Spec /\ Fairness
=============================================================================
