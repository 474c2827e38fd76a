------------------------- MODULE SaveRestoreProofs --------------------------
(***************************************************************************)
(* Proofs about SaveRestore, for every value of its constants.             *)
(*                                                                         *)
(*   TypeInvariance, Typing  TypeOK, strengthened by Shape                 *)
(*   AnswersAreHonest        AnswerIsHonest, from TypeInv                  *)
(*   Exclusion               LockExclusion, from TypeInv                   *)
(*   Isolation               SaveIsolated, from all of these and Section   *)
(*   NoLeaks                 NoLockLeaks, from TypeInv and Footprint       *)
(*   OwnFingerprint          OkMeansMine, from SaveIsolated                *)
(*   Coherence               PatternCoherent, from SafeInv                 *)
(*   NothingOverwritten      NoSilentOverwrite, from EditInv               *)
(*   ImplementsStore         the refinement of PatternStore, from EditInv  *)
(*                                                                         *)
(* Section is why the lock code is correct: it says which locks a process  *)
(* holds at the point it has reached.  With LockExclusion it gives the two *)
(* facts the isolation of a save rests on: no second save is past the      *)
(* fingerprint check of its entity (OneWriter), and no restore writes its  *)
(* project (NoRestoreDuringSave).  Footprint is its converse: the locks a  *)
(* process may hold or wait for there, and no others.                      *)
(*                                                                         *)
(* EditInv adds what the reads of a load have established.  The heart of   *)
(* it is ChangesAreFresh: a part never changes back to a version it had,   *)
(* so a fingerprint that still matches proves that nothing happened since. *)
(***************************************************************************)
EXTENDS SaveRestoreProperties, SequenceTheorems, TLAPS

\* What can be locked.
Keys == Project \cup Entity

\* Taking a request out of a queue leaves a queue of requests.
LEMMA DropType ==
    ASSUME NEW S, NEW q \in Seq(S), NEW i \in DOMAIN q
    PROVE  Drop(q, i) \in Seq(S)
  BY DEF Drop

\* The lock operations keep the lock table well typed.
LEMMA AcquireType ==
    ASSUME LockTypeOK, NEW s \in Process, NEW k \in Keys, NEW m \in Mode,
           Acquire(s, k, m)
    PROVE  LockTypeOK'
<1> DEFINE r == [session |-> s, mode |-> m]
<1>1. r \in Request
  BY DEF Request, Process
<1>2. Append(waits[k], r) \in Seq(Request)
  BY <1>1 DEF LockTypeOK, Keys
<1>3. holds[k] \cup {r} \in SUBSET Request
  BY <1>1 DEF LockTypeOK, Keys
<1> QED
  BY <1>2, <1>3 DEF LockTypeOK, Acquire, Keys

\* Postgres grants a request of the queue.
LEMMA GrantType ==
    ASSUME LockTypeOK, NEW k \in Keys, Grant(k)
    PROVE  LockTypeOK'
<1>1. PICK i \in DOMAIN waits[k] : GrantAt(k, i)
  BY DEF Grant
<1>2. waits[k][i] \in Request /\ Drop(waits[k], i) \in Seq(Request)
  BY DropType DEF LockTypeOK, Keys
<1> QED
  BY <1>1, <1>2 DEF LockTypeOK, GrantAt, Keys

\* lock_timeout takes a request out of its queue.
LEMMA GiveUpType ==
    ASSUME LockTypeOK, NEW s \in Process, NEW k \in Keys, GiveUp(s, k)
    PROVE  LockTypeOK'
<1>1. PICK i \in DOMAIN waits[k] : waits' = [waits EXCEPT ![k] = Drop(waits[k], i)]
  BY DEF GiveUp
<1>2. Drop(waits[k], i) \in Seq(Request)
  BY DropType DEF LockTypeOK, Keys
<1> QED
  BY <1>1, <1>2 DEF LockTypeOK, GiveUp, Keys

\* An unlock takes a request out of the granted ones.
LEMMA UnlockType ==
    ASSUME LockTypeOK, NEW s \in Process, NEW k \in Keys, NEW m \in Mode,
           Unlock(s, k, m)
    PROVE  LockTypeOK'
  BY DEF LockTypeOK, Unlock, Keys

\* The end of a session takes its requests out of every queue.
LEMMA DisconnectType ==
    ASSUME LockTypeOK, NEW s \in Process, Disconnect(s)
    PROVE  LockTypeOK'
<1>1. ASSUME NEW k \in Keys, IsWaiting(s, k)
      PROVE  Drop(waits[k], CHOOSE i \in DOMAIN waits[k] : waits[k][i].session = s)
                \in Seq(Request)
  <2> DEFINE i == CHOOSE j \in DOMAIN waits[k] : waits[k][j].session = s
  <2>1. i \in DOMAIN waits[k]
    BY <1>1 DEF IsWaiting
  <2> QED
    BY <2>1, DropType DEF LockTypeOK, Keys
<1>2. waits' \in [Keys -> Seq(Request)]
  BY <1>1 DEF LockTypeOK, Disconnect, Keys
<1>3. holds' \in [Keys -> SUBSET Request]
  BY DEF LockTypeOK, Disconnect, Keys
<1> QED
  BY <1>2, <1>3 DEF LockTypeOK, Keys

-----------------------------------------------------------------------------
\* The initial states are well typed.
LEMMA InitType == Init => TypeOK
<1> SUFFICES ASSUME Init PROVE TypeOK
  OBVIOUS
<1> USE SaveRestoreAssumption
<1>1. LockTypeOK
  BY DEF Init, LockInit, LockTypeOK
<1>2. db \in [Entity -> [Part -> Version]]
  BY DEF Init, Version
<1>3. Nothing \in [FpPart -> Version \cup {None}]
  BY DEF Nothing
<1>4. base \in [Saver -> [FpPart -> Version \cup {None}]]
      /\ seen \in [Saver -> [FpPart -> Version \cup {None}]]
  BY <1>3 DEF Init
<1>5. submits \in [Saver -> 0 .. MaxSubmits]
  BY DEF Init
<1> QED
  BY <1>1, <1>2, <1>4, <1>5 DEF Init, TypeOK

\* What a submission writes is a version.
LEMMA MineType ==
    ASSUME TypeOK, NEW s \in Saver, NEW how \in {"some", "all"}, submits[s] > 0
    PROVE  Mine(s, how) \in Version
<1>1. submits[s] \in 1 .. MaxSubmits
  BY SaveRestoreAssumption DEF TypeOK
<1> QED
  BY <1>1 DEF Mine, Version

\* The fingerprint of an entity is made of versions.
LEMMA FingerprintType ==
    ASSUME TypeOK, NEW e \in Entity
    PROVE  Fingerprint(e) \in [FpPart -> Version]
  BY DEF TypeOK, Fingerprint, FpPart, Part

-----------------------------------------------------------------------------
\* Where the program counters of a save stand with its counters and its outcome.
Shape ==
    \A s \in Saver :
        /\ pc[s] = "load" => reads[s] < 6
        /\ pc[s] \in InFlight => submits[s] > 0
        /\ pc[s] \in {"project", "entity"} => stage[s] = 0
        /\ pc[s] = "write" => stage[s] < 5
        /\ pc[s] = "fingerprint" => stage[s] = 5
        /\ pc[s] \in {"load", "project", "entity", "write", "fingerprint"} => outcome[s] = "none"

TypeInv == TypeOK /\ Shape

\* TypeInv is kept by the steps of the editor.
LEMMA EditorType ==
    ASSUME TypeInv, NEW s \in Saver,
           StartLoad(s) \/ ReadPart(s) \/ StartBlind(s) \/ Resubmit(s)
    PROVE  TypeInv'
<1> USE SaveRestoreAssumption DEF TypeInv
<1>0. LockTypeOK'
  BY DEF TypeOK, LockTypeOK, StartLoad, ReadPart, StartBlind, Resubmit, lockVars
<1>1. CASE StartLoad(s)
  <2>1. Nothing \in [FpPart -> Version \cup {None}]
    BY DEF Nothing
  <2> QED
    BY <1>0, <1>1, <2>1
    DEF TypeOK, Shape, StartLoad, Go, InFlight, lockVars, dbVars
<1>2. CASE ReadPart(s)
  <2>1. reads[s] \in 0 .. 5
    BY <1>2 DEF TypeOK, Shape, ReadPart
  <2>2. ASSUME NEW i \in 1 .. 3 PROVE LoadOrder[i] \in FpPart
    BY DEF LoadOrder, FpPart
  <2> DEFINE p == LoadOrder[IF reads[s] < 3 THEN reads[s] + 1 ELSE reads[s] - 2]
             v == db[entity[s]][p]
  <2>3. p \in FpPart
    BY <2>1, <2>2
  <2>4. v \in Version
    BY <2>3 DEF TypeOK, Part
  <2>5. base' \in [Saver -> [FpPart -> Version \cup {None}]]
    BY <1>2, <2>3, <2>4 DEF TypeOK, ReadPart
  <2>6. seen' \in [Saver -> [FpPart -> Version \cup {None}]]
    BY <1>2, <2>3, <2>4 DEF TypeOK, ReadPart
  <2>7. pc' = [pc EXCEPT ![s] = IF reads[s] = 5 THEN "ready" ELSE "load"]
        /\ reads' = [reads EXCEPT ![s] = reads[s] + 1]
    BY <1>2 DEF ReadPart, Go
  <2>8. reads' \in [Saver -> 0 .. 6] /\ (pc'[s] = "load" => reads'[s] < 6)
    BY <2>1, <2>7 DEF TypeOK
  <2>9. UNCHANGED <<lockVars, dbVars, entity, submits, stage, outcome, target>>
        /\ pc[s] = "load"
    BY <1>2 DEF ReadPart
  <2> HIDE DEF p, v
  <2> QED
    BY <1>0, <2>5, <2>6, <2>7, <2>8, <2>9 DEF TypeOK, Shape, InFlight, lockVars, dbVars
<1>3. CASE StartBlind(s)
  BY <1>0, <1>3 DEF TypeOK, Shape, StartBlind, Go, InFlight, lockVars, dbVars, editVars
<1>4. CASE Resubmit(s)
  BY <1>0, <1>4 DEF TypeOK, Shape, Resubmit, Go, InFlight, lockVars, dbVars, editVars
<1> QED
  BY <1>1, <1>2, <1>3, <1>4

\* A saver locks its entity and the project of it, which are keys.
LEMMA SaverKeys ==
    ASSUME TypeOK, NEW s \in Saver
    PROVE  /\ s \in Process
           /\ entity[s] \in Entity
           /\ entity[s] \in Keys
           /\ ProjectOf[entity[s]] \in Keys
           /\ "shared" \in Mode
           /\ "exclusive" \in Mode
  BY SaveRestoreAssumption DEF TypeOK, Process, Keys, Mode

\* A restorer locks its target, which is a key.
LEMMA RestorerKeys ==
    ASSUME TypeOK, NEW r \in Restorer
    PROVE  /\ r \in Process
           /\ target[r] \in Project
           /\ target[r] \in Keys
           /\ "exclusive" \in Mode
  BY DEF TypeOK, Process, Keys, Mode

\* TypeInv is kept by the steps of a save that take or give back a lock.
LEMMA LockingType ==
    ASSUME TypeInv, NEW s \in Saver,
           \/ Submit(s) \/ TakeEntityLock(s) \/ LockTimeout(s) \/ UnlockEntity(s)
           \/ UnlockProject(s) \/ TeardownFails(s) \/ SaveDies(s)
    PROVE  TypeInv'
<1> USE SaveRestoreAssumption, SaverKeys DEF TypeInv
<1>1. CASE Submit(s)
  <2>1. LockTypeOK'
    BY <1>1, AcquireType DEF Submit, TypeOK
  <2> QED
    BY <1>1, <2>1 DEF TypeOK, Shape, Submit, Go, InFlight, dbVars
<1>2. CASE TakeEntityLock(s)
  <2>1. LockTypeOK'
    BY <1>2, AcquireType DEF TakeEntityLock, TypeOK
  <2> QED
    BY <1>2, <2>1 DEF TypeOK, Shape, TakeEntityLock, Go, InFlight, dbVars, editVars
<1>3. CASE LockTimeout(s)
  <2>1. LockTypeOK'
    BY <1>3, GiveUpType DEF LockTimeout, TypeOK
  <2>2. /\ pc[s] \in {"project", "entity"}
        /\ Go(s, "answered") \/ Go(s, "unlockProject")
        /\ outcome' = [outcome EXCEPT ![s] = "busy"]
        /\ UNCHANGED <<dbVars, editVars, stage, target>>
    BY <1>3 DEF LockTimeout
  <2>3. PICK to \in {"answered", "unlockProject"} : Go(s, to)
    BY <2>2
  <2> QED
    BY <2>1, <2>2, <2>3 DEF TypeOK, Shape, Go, InFlight, dbVars, editVars
<1>4. CASE UnlockEntity(s)
  <2>1. LockTypeOK'
    BY <1>4, UnlockType DEF UnlockEntity, TypeOK
  <2> QED
    BY <1>4, <2>1 DEF TypeOK, Shape, UnlockEntity, Go, InFlight, dbVars, editVars
<1>5. CASE UnlockProject(s)
  <2>1. LockTypeOK'
    BY <1>5, UnlockType DEF UnlockProject, TypeOK
  <2> QED
    BY <1>5, <2>1 DEF TypeOK, Shape, UnlockProject, Go, InFlight, dbVars, editVars
<1>6. CASE TeardownFails(s)
  <2>1. LockTypeOK'
    BY <1>6, DisconnectType DEF TeardownFails, TypeOK
  <2> QED
    BY <1>6, <2>1 DEF TypeOK, Shape, TeardownFails, Go, InFlight, dbVars, editVars
<1>7. CASE SaveDies(s)
  <2>1. LockTypeOK'
    BY <1>7, DisconnectType DEF SaveDies, TypeOK
  <2> QED
    BY <1>7, <2>1 DEF TypeOK, Shape, SaveDies, Tear, Go, InFlight, editVars
<1> QED
  BY <1>1, <1>2, <1>3, <1>4, <1>5, <1>6, <1>7

\* TypeInv is kept by the steps a save makes under its locks.
LEMMA CallbackType ==
    ASSUME TypeInv, NEW s \in Saver,
           \/ CheckFingerprint(s) \/ WritePart(s) \/ CallbackFails(s)
           \/ ReturnFingerprint(s)
    PROVE  TypeInv'
<1> USE SaveRestoreAssumption, SaverKeys DEF TypeInv
<1>0. LockTypeOK'
  BY DEF TypeOK, LockTypeOK, CheckFingerprint, WritePart, CallbackFails,
         ReturnFingerprint, lockVars
<1>1. CASE CheckFingerprint(s)
  <2> DEFINE fresh == Unchecked(s) \/ base[s] = Fingerprint(entity[s])
  <2>1. CASE fresh
    <3>1. Go(s, "write") /\ pc[s] = "entity"
          /\ UNCHANGED <<lockVars, dbVars, editVars, stage, outcome, target>>
      BY <1>1, <2>1 DEF CheckFingerprint, InCallback
    <3> QED
      BY <1>0, <3>1 DEF TypeOK, Shape, Go, InFlight, lockVars, dbVars, editVars
  <2>2. CASE ~fresh
    <3>1. /\ Go(s, "unlockEntity") /\ pc[s] = "entity"
          /\ outcome' = [outcome EXCEPT ![s] = "conflict"]
          /\ UNCHANGED <<lockVars, dbVars, editVars, stage, target>>
      BY <1>1, <2>2 DEF CheckFingerprint, InCallback
    <3> QED
      BY <1>0, <3>1 DEF TypeOK, Shape, Go, InFlight, lockVars, dbVars, editVars
  <2> QED
    BY <2>1, <2>2
<1>2. CASE WritePart(s)
  <2> DEFINE e == entity[s]
             c == Commits[stage[s] + 1]
  <2>1. stage[s] \in 0 .. 4 /\ submits[s] > 0
    BY <1>2 DEF TypeOK, Shape, WritePart, InFlight
  <2>2. c \in Part \X {"some", "all"}
    BY <2>1 DEF Commits, Part, FpPart
  <2>3. Mine(s, "all") \in Version /\ Mine(s, "some") \in Version
        /\ Mine(s, c[2]) \in Version
    BY <2>1, <2>2, MineType
  <2>4. db' = CASE c[1] = "rows" ->
                       [db EXCEPT ![e]["rows"] = Mine(s, "all"),
                                  ![e]["refs"] = Mine(s, "some")]
                [] c[1] = "placements" /\ e \notin Model -> db
                [] OTHER -> [db EXCEPT ![e][c[1]] = Mine(s, c[2])]
    BY <1>2 DEF WritePart
  <2>5. c[1] \in Part
    BY <2>2
  <2>6. db \in [Entity -> [Part -> Version]] /\ e \in Entity
    BY DEF TypeOK
  <2>7. db' \in [Entity -> [Part -> Version]]
    <3> HIDE DEF c, e
    <3> QED
      BY <2>3, <2>4, <2>5, <2>6
  <2>8. /\ torn' \subseteq Entity
        /\ stage' = [stage EXCEPT ![s] = stage[s] + 1]
        /\ Go(s, IF stage[s] + 1 = 5 THEN "fingerprint" ELSE "write")
        /\ UNCHANGED <<editVars, outcome, target>>
    BY <1>2, <2>6 DEF WritePart, TypeOK
  <2>9. stage'[s] \in 1 .. 5 /\ pc[s] = "write"
    BY <1>2, <2>1, <2>8 DEF TypeOK, WritePart
  <2> HIDE DEF c, e
  <2> QED
    BY <1>0, <2>1, <2>7, <2>8, <2>9 DEF TypeOK, Shape, Go, InFlight, editVars
<1>3. CASE CallbackFails(s)
  BY <1>0, <1>3 DEF TypeOK, Shape, CallbackFails, InCallback, Tear, Go, InFlight, lockVars,
     editVars
<1>4. CASE ReturnFingerprint(s)
  <2>1. submits[s] > 0
    BY <1>4 DEF ReturnFingerprint, Shape, InFlight
  <2>2. Mine(s, "all") \in Version
    BY <2>1, MineType
  <2>3. base' \in [Saver -> [FpPart -> Version \cup {None}]]
    BY <1>4, FingerprintType DEF TypeOK, ReturnFingerprint
  <2>4. db[entity[s]]["placements"] \in Version
    BY DEF TypeOK, Part, FpPart
  <2>5. seen' \in [Saver -> [FpPart -> Version \cup {None}]]
    BY <1>4, <2>2, <2>4 DEF TypeOK, ReturnFingerprint
  <2> QED
    BY <1>0, <1>4, <2>3, <2>5 DEF TypeOK, Shape, ReturnFingerprint, Go, InFlight, lockVars,
       dbVars
<1> QED
  BY <1>1, <1>2, <1>3, <1>4

\* TypeInv is kept by the steps of a restore.
LEMMA RestoreType ==
    ASSUME TypeInv, NEW r \in Restorer,
           \/ StartRestore(r) \/ RestoreStep(r) \/ RestoreTimeout(r)
           \/ RestoreFails(r)
    PROVE  TypeInv'
<1> USE SaveRestoreAssumption, RestorerKeys DEF TypeInv
<1>1. CASE StartRestore(r)
  <2>1. LockTypeOK'
    BY <1>1, AcquireType DEF StartRestore, TypeOK
  <2> QED
    BY <1>1, <2>1 DEF TypeOK, Shape, StartRestore, Go, InFlight, dbVars, editVars
<1>2. CASE RestoreTimeout(r)
  <2>1. LockTypeOK'
    BY <1>2, GiveUpType DEF RestoreTimeout, TypeOK
  <2> QED
    BY <1>2, <2>1 DEF TypeOK, Shape, RestoreTimeout, Go, InFlight, dbVars, editVars
<1>3. CASE RestoreFails(r)
  <2>1. LockTypeOK'
    BY <1>3, DisconnectType DEF RestoreFails, TypeOK
  <2>2. torn' \subseteq Entity
    BY <1>3 DEF RestoreFails, TypeOK, EntitiesOf
  <2> QED
    BY <1>3, <2>1, <2>2 DEF TypeOK, Shape, RestoreFails, Go, InFlight, editVars
<1>4. CASE HydrateEntities(r)
  <2>1. LockTypeOK'
    BY <1>4 DEF HydrateEntities, TypeOK, LockTypeOK, lockVars
  <2> QED
    BY <1>4, <2>1 DEF TypeOK, Shape, HydrateEntities, Go, InFlight, dbVars, editVars
<1>5. CASE HydrateOverrides(r)
  <2>1. LockTypeOK'
    BY <1>5 DEF HydrateOverrides, TypeOK, LockTypeOK, lockVars
  <2>2. db' \in [Entity -> [Part -> Version]]
    BY <1>5 DEF HydrateOverrides, TypeOK, Part, FpPart, Version
  <2> QED
    BY <1>5, <2>1, <2>2 DEF TypeOK, Shape, HydrateOverrides, Go, InFlight, editVars
<1>6. CASE HydrateProvenance(r)
  <2>1. LockTypeOK'
    BY <1>6 DEF HydrateProvenance, TypeOK, LockTypeOK, lockVars
  <2>2. db' \in [Entity -> [Part -> Version]]
    BY <1>6 DEF HydrateProvenance, TypeOK, Part, FpPart, Version
  <2> QED
    BY <1>6, <2>1, <2>2 DEF TypeOK, Shape, HydrateProvenance, Go, InFlight, editVars
<1>7. CASE RestoreUnlock(r)
  <2>1. LockTypeOK'
    BY <1>7, UnlockType DEF RestoreUnlock, TypeOK
  <2> QED
    BY <1>7, <2>1 DEF TypeOK, Shape, RestoreUnlock, Go, InFlight, dbVars, editVars
<1> QED
  BY <1>1, <1>2, <1>3, <1>4, <1>5, <1>6, <1>7 DEF RestoreStep

\* TypeInv is kept by the steps of the lock table.
LEMMA LockTableType ==
    ASSUME TypeInv, GrantLock \/ \E x \in Process : LoseLocks(x)
    PROVE  TypeInv'
<1> USE DEF TypeInv
<1>1. CASE GrantLock
  <2>1. LockTypeOK'
    BY <1>1, GrantType DEF GrantLock, TypeOK, Keys
  <2> QED
    BY <1>1, <2>1 DEF TypeOK, Shape, GrantLock, dbVars, editVars
<1>2. ASSUME NEW x \in Process, LoseLocks(x) PROVE TypeInv'
  <2>1. LockTypeOK'
    BY <1>2, DisconnectType DEF LoseLocks, TypeOK
  <2> QED
    BY <1>2, <2>1 DEF TypeOK, Shape, LoseLocks, dbVars, editVars
<1> QED
  BY <1>1, <1>2

\* TypeInv is kept by stuttering steps.
LEMMA StutterType ==
    ASSUME TypeInv, UNCHANGED vars
    PROVE  TypeInv'
  BY DEF TypeInv, TypeOK, LockTypeOK, Shape, vars

\* TypeInv is inductive.
LEMMA NextType == TypeInv /\ [Next]_vars => TypeInv'
  BY EditorType, LockingType, CallbackType, RestoreType, LockTableType, StutterType
  DEF Next, SaveStep, Process

\* Every reachable state is well typed, and a save's counters and outcome fit the
\* point it has reached: the six reads, the five commits and the answer come in
\* the order saveOverrides makes them.
THEOREM TypeInvariance == Spec => []TypeInv
<1>1. Init => TypeInv
  BY InitType DEF TypeInv, Init, Shape, InFlight
<1> QED
  BY <1>1, NextType, PTL DEF Spec

\* TypeOK holds for any number of editors, restores, projects and entities.
THEOREM Typing == Spec => []TypeOK
  BY TypeInvariance, PTL DEF TypeInv

-----------------------------------------------------------------------------
\* AnswerIsHonest is inductive relative to TypeInv.
LEMMA AnswerStep == TypeInv /\ AnswerIsHonest /\ [Next]_vars => AnswerIsHonest'
<1> SUFFICES ASSUME TypeInv, AnswerIsHonest, [Next]_vars PROVE AnswerIsHonest'
  OBVIOUS
<1>1. ASSUME NEW s \in Saver,
             \/ StartLoad(s) \/ ReadPart(s) \/ StartBlind(s) \/ Resubmit(s)
             \/ TakeEntityLock(s) \/ UnlockEntity(s) \/ UnlockProject(s)
             \/ TeardownFails(s) \/ SaveDies(s) \/ CallbackFails(s)
      PROVE  AnswerIsHonest'
  <2>1. UNCHANGED stage
    BY <1>1 DEF StartLoad, ReadPart, StartBlind, Resubmit, TakeEntityLock, UnlockEntity,
       UnlockProject, TeardownFails, SaveDies, CallbackFails
  <2>2. \/ UNCHANGED outcome
        \/ outcome' = [outcome EXCEPT ![s] = "none"]
        \/ outcome' = [outcome EXCEPT ![s] = "error"]
    BY <1>1 DEF StartLoad, ReadPart, StartBlind, Resubmit, TakeEntityLock, UnlockEntity,
       UnlockProject, TeardownFails, SaveDies, CallbackFails, editVars
  <2> QED
    BY <2>1, <2>2 DEF AnswerIsHonest, TypeInv, TypeOK
<1>2. ASSUME NEW s \in Saver, Submit(s) PROVE AnswerIsHonest'
  BY <1>2 DEF Submit, AnswerIsHonest, TypeInv, TypeOK
<1>3. ASSUME NEW s \in Saver, LockTimeout(s) PROVE AnswerIsHonest'
  BY <1>3 DEF LockTimeout, AnswerIsHonest, TypeInv, TypeOK, Shape
<1>4. ASSUME NEW s \in Saver, CheckFingerprint(s) PROVE AnswerIsHonest'
  BY <1>4 DEF CheckFingerprint, InCallback, AnswerIsHonest, TypeInv, TypeOK, Shape
<1>5. ASSUME NEW s \in Saver, WritePart(s) PROVE AnswerIsHonest'
  <2>1. /\ stage' = [stage EXCEPT ![s] = stage[s] + 1]
        /\ UNCHANGED outcome
        /\ outcome[s] = "none"
    BY <1>5 DEF WritePart, TypeInv, Shape
  <2> QED
    BY <2>1 DEF AnswerIsHonest, TypeInv, TypeOK
<1>6. ASSUME NEW s \in Saver, ReturnFingerprint(s) PROVE AnswerIsHonest'
  <2>1. UNCHANGED stage /\ outcome' = [outcome EXCEPT ![s] = "ok"] /\ stage[s] = 5
    BY <1>6 DEF ReturnFingerprint, TypeInv, Shape
  <2> QED
    BY <2>1 DEF AnswerIsHonest, TypeInv, TypeOK
<1>7. ASSUME \/ \E r \in Restorer : \/ StartRestore(r) \/ RestoreStep(r)
                                     \/ RestoreTimeout(r) \/ RestoreFails(r)
             \/ \E x \in Process : LoseLocks(x)
             \/ GrantLock
             \/ UNCHANGED vars
      PROVE  AnswerIsHonest'
  <2>1. UNCHANGED <<stage, outcome>>
    BY <1>7 DEF StartRestore, RestoreStep, RestoreTimeout, RestoreFails, HydrateEntities,
       HydrateOverrides, HydrateProvenance, RestoreUnlock, LoseLocks, GrantLock, vars
  <2> QED
    BY <2>1 DEF AnswerIsHonest
<1> QED
  BY <1>1, <1>2, <1>3, <1>4, <1>5, <1>6, <1>7 DEF Next, SaveStep, Process

\* A 200 is only ever answered after the last commit, and "busy" or "pattern
\* changed" only before the first one, whatever fails, dies or is lost on the way.
THEOREM AnswersAreHonest == Spec => []AnswerIsHonest
<1>1. Init => AnswerIsHonest
  BY DEF Init, AnswerIsHonest
<1> QED
  BY <1>1, TypeInvariance, AnswerStep, PTL DEF Spec

-----------------------------------------------------------------------------
\* Mutual exclusion of the lock table is preserved by every lock operation.
LEMMA GrantedExclusion ==
    ASSUME LockTypeOK, LockExclusion, NEW k \in Keys, NEW r \in Request, Compatible(k, r),
           holds' = [holds EXCEPT ![k] = holds[k] \cup {r}]
    PROVE  LockExclusion'
<1> SUFFICES ASSUME NEW j \in Keys, NEW g \in holds'[j], NEW h \in holds'[j],
                    g.session # h.session
             PROVE  ~Conflicts(g.mode, h.mode)
  BY DEF LockExclusion, Keys
<1>1. CASE j # k
  BY <1>1 DEF LockExclusion, LockTypeOK, Keys
<1>2. CASE j = k
  <2>1. holds'[k] = holds[k] \cup {r}
    BY DEF LockTypeOK, Keys
  <2> QED
    BY <1>2, <2>1 DEF LockExclusion, Compatible, Conflicts, Keys
<1> QED
  BY <1>1, <1>2

\* Releasing locks cannot break mutual exclusion.
LEMMA ShrinkingExclusion ==
    ASSUME LockExclusion, \A k \in Keys : holds'[k] \subseteq holds[k]
    PROVE  LockExclusion'
  BY DEF LockExclusion, Keys

\* A request is granted only when it is compatible with the holders.
LEMMA AcquireExclusion ==
    ASSUME LockTypeOK, LockExclusion, NEW s \in Process, NEW k \in Keys, NEW m \in Mode,
           Acquire(s, k, m)
    PROVE  LockExclusion'
<1> DEFINE r == [session |-> s, mode |-> m]
<1>1. r \in Request
  BY DEF Request, Process
<1>2. \/ Compatible(k, r) /\ holds' = [holds EXCEPT ![k] = holds[k] \cup {r}]
      \/ UNCHANGED holds
  BY DEF Acquire
<1> QED
  BY <1>1, <1>2, GrantedExclusion, ShrinkingExclusion

\* So is a request taken from a queue.
LEMMA GrantExclusion ==
    ASSUME LockTypeOK, LockExclusion, NEW k \in Keys, Grant(k)
    PROVE  LockExclusion'
<1>1. PICK i \in DOMAIN waits[k] : GrantAt(k, i)
  BY DEF Grant
<1>2. waits[k][i] \in Request
  BY DEF LockTypeOK, Keys
<1> QED
  BY <1>1, <1>2, GrantedExclusion DEF GrantAt

\* An unlock only takes requests away.
LEMMA UnlockShrinks ==
    ASSUME LockTypeOK, NEW s \in Process, NEW k \in Keys, NEW m, Unlock(s, k, m)
    PROVE  \A j \in Keys : holds'[j] \subseteq holds[j]
  BY DEF Unlock, LockTypeOK, Keys

\* The end of a session only takes requests away.
LEMMA DisconnectShrinks ==
    ASSUME NEW s, Disconnect(s)
    PROVE  \A j \in Keys : holds'[j] \subseteq holds[j]
  BY DEF Disconnect, Keys

\* LockExclusion is preserved by every step: each changes the lock table through
\* one lock operation, or not at all.
LEMMA ExclusionStep == TypeInv /\ LockExclusion /\ [Next]_vars => LockExclusion'
<1> SUFFICES ASSUME TypeInv, LockExclusion, [Next]_vars PROVE LockExclusion'
  OBVIOUS
<1> USE SaverKeys, RestorerKeys
<1>0. TypeOK /\ LockTypeOK
  BY DEF TypeInv, TypeOK
<1>1. ASSUME NEW s \in Saver,
             \/ StartLoad(s) \/ ReadPart(s) \/ StartBlind(s) \/ Resubmit(s)
             \/ CheckFingerprint(s) \/ WritePart(s) \/ CallbackFails(s)
             \/ ReturnFingerprint(s)
      PROVE  UNCHANGED holds
  BY <1>1 DEF StartLoad, ReadPart, StartBlind, Resubmit, CheckFingerprint, WritePart,
     CallbackFails, ReturnFingerprint, lockVars
<1>2. ASSUME NEW s \in Saver, Submit(s) \/ TakeEntityLock(s) PROVE LockExclusion'
  BY <1>0, <1>2, AcquireExclusion DEF Submit, TakeEntityLock
<1>3. ASSUME NEW s \in Saver, LockTimeout(s) PROVE UNCHANGED holds
  BY <1>3 DEF LockTimeout, GiveUp
<1>4. ASSUME NEW s \in Saver,
             UnlockEntity(s) \/ UnlockProject(s) \/ TeardownFails(s) \/ SaveDies(s)
      PROVE  LockExclusion'
  BY <1>0, <1>4, UnlockShrinks, DisconnectShrinks, ShrinkingExclusion
  DEF UnlockEntity, UnlockProject, TeardownFails, SaveDies
<1>5. ASSUME NEW r \in Restorer, StartRestore(r) PROVE LockExclusion'
  BY <1>0, <1>5, AcquireExclusion DEF StartRestore
<1>6. ASSUME NEW r \in Restorer,
             \/ HydrateEntities(r) \/ HydrateOverrides(r) \/ HydrateProvenance(r)
             \/ RestoreTimeout(r)
      PROVE  UNCHANGED holds
  BY <1>6 DEF HydrateEntities, HydrateOverrides, HydrateProvenance, RestoreTimeout, GiveUp,
     lockVars
<1>7. ASSUME NEW r \in Restorer, RestoreUnlock(r) \/ RestoreFails(r) PROVE LockExclusion'
  BY <1>0, <1>7, UnlockShrinks, DisconnectShrinks, ShrinkingExclusion
  DEF RestoreUnlock, RestoreFails
<1>8. ASSUME NEW x \in Process, LoseLocks(x) PROVE LockExclusion'
  BY <1>8, DisconnectShrinks, ShrinkingExclusion DEF LoseLocks
<1>9. CASE GrantLock
  BY <1>0, <1>9, GrantExclusion DEF GrantLock, Keys
<1>10. UNCHANGED holds => LockExclusion'
  BY ShrinkingExclusion
<1> QED
  BY <1>1, <1>2, <1>3, <1>4, <1>5, <1>6, <1>7, <1>8, <1>9, <1>10
  DEF Next, SaveStep, RestoreStep, Process, vars

\* Nobody shares a key with an EXCLUSIVE holder, however many sessions come and
\* go, time out or die.
THEOREM Exclusion == Spec => []LockExclusion
<1>1. Init => LockExclusion
  BY DEF Init, LockInit, LockExclusion, Keys
<1> QED
  BY <1>1, TypeInvariance, ExclusionStep, PTL DEF Spec

-----------------------------------------------------------------------------
\* A lock operation of one session takes nothing from another.
LEMMA OthersKeep ==
    ASSUME LockTypeOK, NEW s \in Process, NEW k \in Keys, NEW m \in Mode,
           \/ Acquire(s, k, m) \/ GiveUp(s, k) \/ Unlock(s, k, m) \/ Disconnect(s)
           \/ Grant(k) \/ UNCHANGED holds,
           NEW x \in Process, x # s, NEW j \in Keys, NEW n \in Mode, Holds(x, j, n)
    PROVE  Holds(x, j, n)'
<1>1. CASE Acquire(s, k, m)
  BY <1>1 DEF Acquire, Holds, LockTypeOK, Keys
<1>2. CASE GiveUp(s, k)
  BY <1>2 DEF GiveUp, Holds
<1>3. CASE Unlock(s, k, m)
  BY <1>3 DEF Unlock, Holds, LockTypeOK, Keys
<1>4. CASE Disconnect(s)
  BY <1>4 DEF Disconnect, Holds, Keys
<1>5. CASE Grant(k)
  BY <1>5 DEF Grant, GrantAt, Holds, LockTypeOK, Keys
<1>6. CASE UNCHANGED holds
  BY <1>6 DEF Holds
<1> QED
  BY <1>1, <1>2, <1>3, <1>4, <1>5, <1>6

\* Only an unlock and the end of a session take a lock away.
LEMMA WaitersKeep ==
    ASSUME LockTypeOK, NEW s \in Process, NEW k \in Keys, NEW m \in Mode,
           Acquire(s, k, m) \/ GiveUp(s, k) \/ Grant(k) \/ UNCHANGED holds,
           NEW x \in Process, NEW j \in Keys, NEW n \in Mode, Holds(x, j, n)
    PROVE  Holds(x, j, n)'
<1>1. CASE Acquire(s, k, m)
  BY <1>1 DEF Acquire, Holds, LockTypeOK, Keys
<1>2. CASE GiveUp(s, k)
  BY <1>2 DEF GiveUp, Holds
<1>3. CASE Grant(k)
  BY <1>3 DEF Grant, GrantAt, Holds, LockTypeOK, Keys
<1>4. CASE UNCHANGED holds
  BY <1>4 DEF Holds
<1> QED
  BY <1>1, <1>2, <1>3, <1>4

\* The locks a process holds at the point it has reached.  A save that lost its
\* connection does not, so this is an invariant only where none is lost.
SaverSection(s) ==
    /\ pc[s] \in {"write", "fingerprint", "unlockEntity"} => Holds(s, entity[s], "exclusive")
    /\ pc[s] \in {"entity", "write", "fingerprint", "unlockEntity", "unlockProject"}
          => Holds(s, ProjectOf[entity[s]], "shared")

RestorerSection(r) ==
    pc[r] \in {"overrides", "provenance", "unlock"} => Holds(r, target[r], "exclusive")

Section ==
    /\ \A s \in Saver : SaverSection(s)
    /\ \A r \in Restorer : RestorerSection(r)

\* A step that moves x alone and takes no lock from the others only has to answer
\* for the section of x.
LEMMA SectionOfOthers ==
    ASSUME TypeInv, Section, NEW x \in Process, NEW to, Go(x, to),
           UNCHANGED <<entity, target>>,
           \A y \in Process, j \in Keys, n \in Mode : y # x /\ Holds(y, j, n) => Holds(y, j, n)',
           x \in Saver => SaverSection(x)',
           x \in Restorer => RestorerSection(x)'
    PROVE  Section'
<1> USE SaverKeys, RestorerKeys
<1>0. TypeOK
  BY DEF TypeInv
<1>1. \A y \in Process : y # x => pc'[y] = pc[y]
  BY <1>0 DEF Go, TypeOK, Process
<1>2. ASSUME NEW s \in Saver, s # x PROVE SaverSection(s)'
  <2>1. pc'[s] = pc[s] /\ entity'[s] = entity[s]
    BY <1>0, <1>1, <1>2
  <2>2. Holds(s, entity[s], "exclusive") => Holds(s, entity[s], "exclusive")'
    BY <1>0, <1>2, <2>1
  <2>3. Holds(s, ProjectOf[entity[s]], "shared") => Holds(s, ProjectOf[entity[s]], "shared")'
    BY <1>0, <1>2, <2>1
  <2> QED
    BY <2>1, <2>2, <2>3 DEF Section, SaverSection
<1>3. ASSUME NEW r \in Restorer, r # x PROVE RestorerSection(r)'
  <2>1. pc'[r] = pc[r] /\ target'[r] = target[r]
    BY <1>0, <1>1, <1>3
  <2>2. Holds(r, target[r], "exclusive") => Holds(r, target[r], "exclusive")'
    BY <1>0, <1>3, <2>1
  <2> QED
    BY <2>1, <2>2 DEF Section, RestorerSection
<1> QED
  BY <1>2, <1>3 DEF Section

\* The steps of a save keep Section.
LEMMA SaverSectionStep ==
    ASSUME TypeInv, Section, NEW s \in Saver,
           \/ StartLoad(s) \/ ReadPart(s) \/ StartBlind(s) \/ Resubmit(s) \/ Submit(s)
           \/ SaveStep(s) \/ LockTimeout(s) \/ CallbackFails(s) \/ TeardownFails(s)
           \/ SaveDies(s)
    PROVE  Section'
<1> USE SaverKeys
<1> DEFINE e == entity[s]
           p == ProjectOf[entity[s]]
<1>0. TypeOK /\ LockTypeOK /\ s \in Process /\ s \notin Restorer
  BY SaveRestoreAssumption DEF TypeInv, TypeOK, Process
<1>1. ASSUME \/ StartLoad(s) \/ ReadPart(s) \/ StartBlind(s) \/ Resubmit(s)
      PROVE  Section'
  <2>1. PICK to \in {"load", "ready"} : Go(s, to)
    BY <1>1 DEF StartLoad, ReadPart, StartBlind, Resubmit
  <2>2. UNCHANGED <<holds, entity, target>>
    BY <1>1 DEF StartLoad, ReadPart, StartBlind, Resubmit, lockVars, editVars
  <2>3. SaverSection(s)'
    BY <1>0, <2>1 DEF SaverSection, Go, TypeOK
  <2> QED
    BY <1>0, <2>1, <2>2, <2>3, SectionOfOthers DEF Holds
<1>2. ASSUME Submit(s) PROVE Section'
  <2>1. SaverSection(s)'
    BY <1>0, <1>2 DEF Submit, SaverSection, Go, TypeOK
  <2> QED
    BY <1>0, <1>2, <2>1, OthersKeep, SectionOfOthers DEF Submit
<1>3. ASSUME TakeEntityLock(s) PROVE Section'
  <2>1. Holds(s, p, "shared") /\ UNCHANGED entity /\ Go(s, "entity")
    BY <1>3 DEF TakeEntityLock, editVars
  <2>2. Holds(s, p, "shared")'
    BY <1>0, <1>3, <2>1, WaitersKeep DEF TakeEntityLock, Holds
  <2>3. SaverSection(s)'
    BY <1>0, <2>1, <2>2 DEF SaverSection, Go, TypeOK
  <2> QED
    BY <1>0, <1>3, <2>3, OthersKeep, SectionOfOthers DEF TakeEntityLock, editVars
<1>4. ASSUME LockTimeout(s) PROVE Section'
  <2>1. UNCHANGED <<holds, entity, target>>
    BY <1>4 DEF LockTimeout, GiveUp, editVars
  <2>2. SaverSection(s)'
    BY <1>0, <1>4, <2>1 DEF Section, SaverSection, LockTimeout, Go, TypeOK, Holds
  <2>3. Go(s, "answered") \/ Go(s, "unlockProject")
    BY <1>4 DEF LockTimeout
  <2> QED
    BY <1>0, <2>1, <2>2, <2>3, SectionOfOthers DEF Holds
<1>5. ASSUME CheckFingerprint(s) \/ WritePart(s) \/ CallbackFails(s) \/ ReturnFingerprint(s)
      PROVE  Section'
  <2>1. UNCHANGED <<holds, entity, target>>
    BY <1>5 DEF CheckFingerprint, WritePart, CallbackFails, ReturnFingerprint, lockVars,
       editVars
  <2>2. PICK to \in {"write", "fingerprint", "unlockEntity"} : Go(s, to)
    BY <1>5 DEF CheckFingerprint, WritePart, CallbackFails, ReturnFingerprint
  <2>3. Holds(s, e, "exclusive") /\ Holds(s, p, "shared")
    BY <1>5 DEF CheckFingerprint, WritePart, CallbackFails, ReturnFingerprint, InCallback,
       Section, SaverSection
  <2>4. SaverSection(s)'
    BY <1>0, <2>1, <2>2, <2>3 DEF SaverSection, Go, TypeOK, Holds
  <2> QED
    BY <1>0, <2>1, <2>2, <2>4, SectionOfOthers DEF Holds
<1>6. ASSUME UnlockEntity(s) PROVE Section'
  <2>1. Holds(s, p, "shared") /\ Go(s, "unlockProject") /\ UNCHANGED <<entity, target>>
    BY <1>6 DEF UnlockEntity, Section, SaverSection, editVars
  <2>2. Holds(s, p, "shared")'
    BY <1>0, <1>6, <2>1 DEF UnlockEntity, Unlock, Holds, LockTypeOK, Keys
  <2>3. SaverSection(s)'
    BY <1>0, <2>1, <2>2 DEF SaverSection, Go, TypeOK
  <2> QED
    BY <1>0, <1>6, <2>1, <2>3, OthersKeep, SectionOfOthers DEF UnlockEntity
<1>7. ASSUME UnlockProject(s) \/ TeardownFails(s) \/ SaveDies(s) PROVE Section'
  <2>1. Go(s, "answered") /\ UNCHANGED <<entity, target>>
    BY <1>7 DEF UnlockProject, TeardownFails, SaveDies, editVars
  <2>2. SaverSection(s)'
    BY <1>0, <2>1 DEF SaverSection, Go, TypeOK
  <2>3. Unlock(s, p, "shared") \/ Disconnect(s)
    BY <1>7 DEF UnlockProject, TeardownFails, SaveDies
  <2> QED
    BY <1>0, <2>1, <2>2, <2>3, OthersKeep, SectionOfOthers
<1> QED
  BY <1>1, <1>2, <1>3, <1>4, <1>5, <1>6, <1>7 DEF SaveStep

\* The steps of a restore keep Section.
LEMMA RestorerSectionStep ==
    ASSUME TypeInv, Section, NEW r \in Restorer,
           \/ StartRestore(r) \/ RestoreStep(r) \/ RestoreTimeout(r) \/ RestoreFails(r)
    PROVE  Section'
<1> USE RestorerKeys
<1>0. TypeOK /\ LockTypeOK /\ r \in Process /\ r \notin Saver
  BY SaveRestoreAssumption DEF TypeInv, TypeOK, Process
<1>1. ASSUME StartRestore(r) PROVE Section'
  <2>1. RestorerSection(r)'
    BY <1>0, <1>1 DEF StartRestore, RestorerSection, Go, TypeOK
  <2> QED
    BY <1>0, <1>1, <2>1, OthersKeep, SectionOfOthers DEF StartRestore, editVars
<1>2. ASSUME HydrateEntities(r) \/ HydrateOverrides(r) \/ HydrateProvenance(r)
      PROVE  Section'
  <2>1. UNCHANGED <<holds, entity, target>>
    BY <1>2 DEF HydrateEntities, HydrateOverrides, HydrateProvenance, lockVars, editVars
  <2>2. PICK to \in {"overrides", "provenance", "unlock"} : Go(r, to)
    BY <1>2 DEF HydrateEntities, HydrateOverrides, HydrateProvenance
  <2>3. Holds(r, target[r], "exclusive")
    BY <1>2 DEF HydrateEntities, HydrateOverrides, HydrateProvenance, Section,
       RestorerSection
  <2>4. RestorerSection(r)'
    BY <1>0, <2>1, <2>3 DEF RestorerSection, Holds
  <2> QED
    BY <1>0, <2>1, <2>2, <2>4, SectionOfOthers DEF Holds
<1>3. ASSUME RestoreUnlock(r) \/ RestoreTimeout(r) \/ RestoreFails(r) PROVE Section'
  <2>1. UNCHANGED <<entity, target>>
    BY <1>3 DEF RestoreUnlock, RestoreTimeout, RestoreFails, editVars
  <2>2. PICK to \in {"done", "failed"} : Go(r, to)
    BY <1>3 DEF RestoreUnlock, RestoreTimeout, RestoreFails
  <2>3. RestorerSection(r)'
    BY <1>0, <2>2 DEF RestorerSection, Go, TypeOK
  <2>4. Unlock(r, target[r], "exclusive") \/ GiveUp(r, target[r]) \/ Disconnect(r)
    BY <1>3 DEF RestoreUnlock, RestoreTimeout, RestoreFails
  <2> QED
    BY <1>0, <2>1, <2>2, <2>3, <2>4, OthersKeep, SectionOfOthers
<1> QED
  BY <1>1, <1>2, <1>3 DEF RestoreStep

\* Section is inductive when no connection that holds locks is lost.
LEMMA SectionStep ==
    ASSUME ~LockLoss
    PROVE  TypeInv /\ Section /\ [Next]_vars => Section'
<1> SUFFICES ASSUME TypeInv, Section, [Next]_vars PROVE Section'
  OBVIOUS
<1>1. CASE GrantLock
  <2>1. LockTypeOK /\ TypeOK
    BY DEF TypeInv, TypeOK
  <2>2. \A x \in Process, j \in Keys, n \in Mode : Holds(x, j, n) => Holds(x, j, n)'
    BY <1>1, <2>1, WaitersKeep DEF GrantLock, Keys
  <2>3. UNCHANGED <<pc, entity, target>>
    BY <1>1 DEF GrantLock, editVars
  <2>4. ASSUME NEW s \in Saver PROVE SaverSection(s)'
    BY <2>1, <2>2, <2>3, SaverKeys DEF Section, SaverSection, Holds
  <2>5. ASSUME NEW r \in Restorer PROVE RestorerSection(r)'
    BY <2>1, <2>2, <2>3, RestorerKeys DEF Section, RestorerSection, Holds
  <2> QED
    BY <2>4, <2>5 DEF Section
<1>2. CASE UNCHANGED vars
  BY <1>2 DEF vars, Section, SaverSection, RestorerSection, Holds
<1> QED
  BY <1>1, <1>2, SaverSectionStep, RestorerSectionStep DEF Next, LoseLocks

-----------------------------------------------------------------------------
\* At most one save is between its fingerprint check and its unlock on an entity.
LEMMA OneWriter ==
    ASSUME TypeInv, Section, LockExclusion, NEW s \in Saver, NEW t \in Saver,
           pc[s] \in {"write", "fingerprint"}, pc[t] \in {"write", "fingerprint"},
           entity[s] = entity[t]
    PROVE  s = t
<1>1. entity[s] \in Keys
  BY SaverKeys DEF TypeInv
<1>2. Holds(s, entity[s], "exclusive") /\ Holds(t, entity[s], "exclusive")
  BY DEF Section, SaverSection
<1> QED
  BY <1>1, <1>2 DEF Holds, LockExclusion, Conflicts, Keys

\* No restore writes a project in which a save is.
LEMMA NoRestoreDuringSave ==
    ASSUME TypeInv, Section, LockExclusion, NEW s \in Saver, NEW r \in Restorer,
           pc[s] \in {"write", "fingerprint"}, pc[r] \in {"overrides", "provenance"}
    PROVE  entity[s] \notin EntitiesOf(target[r])
<1>1. ProjectOf[entity[s]] \in Keys /\ s # r
  BY SaverKeys, SaveRestoreAssumption DEF TypeInv
<1>2. Holds(s, ProjectOf[entity[s]], "shared") /\ Holds(r, target[r], "exclusive")
  BY DEF Section, SaverSection, RestorerSection
<1> QED
  BY <1>1, <1>2 DEF Holds, LockExclusion, Conflicts, Keys, EntitiesOf

\* What concerns the isolation of s is unchanged.
LEMMA IsolationFrame ==
    ASSUME NEW s \in Saver, pc[s] \in {"write", "fingerprint"} => Isolated(s),
           pc'[s] = pc[s], entity'[s] = entity[s], base'[s] = base[s],
           submits'[s] = submits[s], stage'[s] = stage[s],
           pc[s] \in {"write", "fingerprint"} => db'[entity[s]] = db[entity[s]]
    PROVE  pc'[s] \in {"write", "fingerprint"} => Isolated(s)'
  BY DEF Isolated, Untouched, Unchecked, Mine

\* A save's own commit adds to what it has written and to nothing else.
LEMMA OwnWrite ==
    ASSUME TypeInv, NEW s \in Saver, pc[s] \in {"write", "fingerprint"} => Isolated(s),
           WritePart(s)
    PROVE  Isolated(s)'
<1> USE SaverKeys
<1> DEFINE e == entity[s]
           n == stage[s]
           c == Commits[n + 1]
<1>1. TypeOK /\ n \in 0 .. 4 /\ e \in Entity
  BY DEF TypeInv, TypeOK, Shape, WritePart
<1>2. /\ stage'[s] = n + 1
      /\ UNCHANGED <<entity, base, submits>>
  BY <1>1 DEF WritePart, TypeOK, editVars
<1>3. Isolated(s)
  BY DEF WritePart
<1>4. db' = CASE c[1] = "rows" ->
                     [db EXCEPT ![e]["rows"] = Mine(s, "all"),
                                ![e]["refs"] = Mine(s, "some")]
              [] c[1] = "placements" /\ e \notin Model -> db
              [] OTHER -> [db EXCEPT ![e][c[1]] = Mine(s, c[2])]
  BY DEF WritePart
<1>5. db \in [Entity -> [Part -> Version]]
  BY <1>1 DEF TypeOK
<1>6. \A how : Mine(s, how)' = Mine(s, how)
  BY <1>2 DEF Mine
<1>7. Unchecked(s)' = Unchecked(s)
  BY <1>2 DEF Unchecked
<1>8. ASSUME NEW p \in FpPart, Untouched(p, n + 1), ~Unchecked(s)
      PROVE  db'[e][p] = base[s][p]
  <2>1. Untouched(p, n) /\ p \notin {"rows", "refs"} /\ c[1] # p
    BY <1>1, <1>8 DEF Untouched
  <2>2. db[e][p] = base[s][p]
    BY <1>3, <1>8, <2>1 DEF Isolated
  <2>3. db'[e][p] = db[e][p]
    <3> HIDE DEF c
    <3> QED
      BY <1>1, <1>4, <1>5, <2>1 DEF Part, FpPart
  <2> QED
    BY <2>2, <2>3
<1>9. ASSUME NEW i \in 1 .. n + 1,
             Commits[i][1] = "placements" => e \in Model
      PROVE  \/ db'[e][Commits[i][1]] = Mine(s, Commits[i][2])
             \/ db'[e][Commits[i][1]] = Mine(s, "all")
  <2>1. CASE n = 0
    BY <1>1, <1>4, <1>5, <1>9, <2>1 DEF Commits, Part, FpPart
  <2>2. CASE n = 1
    BY <1>1, <1>3, <1>4, <1>5, <1>9, <2>2 DEF Commits, Part, FpPart, Isolated
  <2>3. CASE n = 2
    BY <1>1, <1>3, <1>4, <1>5, <1>9, <2>3 DEF Commits, Part, FpPart, Isolated
  <2>4. CASE n = 3
    BY <1>1, <1>3, <1>4, <1>5, <1>9, <2>4 DEF Commits, Part, FpPart, Isolated
  <2>5. CASE n = 4
    BY <1>1, <1>3, <1>4, <1>5, <1>9, <2>5 DEF Commits, Part, FpPart, Isolated
  <2> QED
    BY <1>1, <2>1, <2>2, <2>3, <2>4, <2>5
<1> QED
  BY <1>2, <1>6, <1>7, <1>8, <1>9 DEF Isolated

SafeInv == TypeInv /\ LockExclusion /\ Section /\ SaveIsolated

\* The steps of any save keep the isolation of every save.
LEMMA SaverIsolationStep ==
    ASSUME SafeInv, NEW t \in Saver,
           \/ StartLoad(t) \/ ReadPart(t) \/ StartBlind(t) \/ Resubmit(t) \/ Submit(t)
           \/ SaveStep(t) \/ LockTimeout(t) \/ CallbackFails(t) \/ TeardownFails(t)
           \/ SaveDies(t)
    PROVE  SaveIsolated'
<1> USE SaverKeys DEF SafeInv
<1> SUFFICES ASSUME NEW s \in Saver, pc'[s] \in {"write", "fingerprint"}
             PROVE  Isolated(s)'
  BY DEF SaveIsolated
<1>0. TypeOK /\ (pc[s] \in {"write", "fingerprint"} => Isolated(s))
  BY DEF TypeInv, SaveIsolated
<1>1. CASE WritePart(t)
  <2>1. CASE s = t
    BY <1>0, <1>1, <2>1, OwnWrite
  <2>2. CASE s # t
    <3>1. /\ pc'[s] = pc[s] /\ stage'[s] = stage[s]
          /\ UNCHANGED <<entity, base, submits>>
      BY <1>0, <1>1, <2>2 DEF WritePart, Go, TypeOK, editVars
    <3>2. entity[s] # entity[t]
      BY <1>1, <2>2, <3>1, OneWriter DEF WritePart
    <3>3. db'[entity[s]] = db[entity[s]]
      BY <1>0, <1>1, <3>2 DEF WritePart, TypeOK
    <3> QED
      BY <1>0, <3>1, <3>3, IsolationFrame
  <2> QED
    BY <2>1, <2>2
<1>2. CASE CheckFingerprint(t) /\ s = t
  <2>1. /\ Unchecked(s) \/ base[s] = Fingerprint(entity[s])
        /\ UNCHANGED <<db, entity, base, stage>>
        /\ stage[s] = 0
    BY <1>0, <1>2 DEF CheckFingerprint, InCallback, Go, TypeOK, TypeInv, Shape, dbVars,
       editVars
  <2>2. \A p \in FpPart : ~Unchecked(s) => db[entity[s]][p] = base[s][p]
    BY <2>1 DEF Fingerprint
  <2> QED
    BY <2>1, <2>2 DEF Isolated, Unchecked
<1>3. CASE s # t /\ ~WritePart(t)
  <2>1. pc'[s] = pc[s]
    BY <1>0, <1>3 DEF StartLoad, ReadPart, StartBlind, Resubmit, Submit, SaveStep,
       LockTimeout, CallbackFails, TeardownFails, SaveDies, TakeEntityLock,
       CheckFingerprint, ReturnFingerprint, UnlockEntity, UnlockProject, Go, TypeOK
  <2>2. UNCHANGED <<db, entity, stage>> \/ (Submit(t) /\ UNCHANGED <<db, entity>>)
    BY <1>3 DEF StartLoad, ReadPart, StartBlind, Resubmit, Submit, SaveStep,
       LockTimeout, CallbackFails, TeardownFails, SaveDies, TakeEntityLock,
       CheckFingerprint, ReturnFingerprint, UnlockEntity, UnlockProject, dbVars, editVars
  <2>3. stage'[s] = stage[s]
    BY <1>0, <1>3, <2>2 DEF Submit, TypeOK
  <2>4. base'[s] = base[s] /\ submits'[s] = submits[s]
    BY <1>0, <1>3 DEF StartLoad, ReadPart, StartBlind, Resubmit, Submit, SaveStep,
       LockTimeout, CallbackFails, TeardownFails, SaveDies, TakeEntityLock,
       CheckFingerprint, ReturnFingerprint, UnlockEntity, UnlockProject, TypeOK, editVars
  <2> QED
    BY <1>0, <2>1, <2>2, <2>3, <2>4, IsolationFrame
<1>4. CASE s = t /\ ~WritePart(t) /\ ~CheckFingerprint(t)
  BY <1>0, <1>4 DEF StartLoad, ReadPart, StartBlind, Resubmit, Submit, SaveStep,
     LockTimeout, CallbackFails, TeardownFails, SaveDies, TakeEntityLock,
     ReturnFingerprint, UnlockEntity, UnlockProject, Go, TypeOK
<1> QED
  BY <1>1, <1>2, <1>3, <1>4

\* The steps of a restore keep the isolation of every save.
LEMMA RestorerIsolationStep ==
    ASSUME SafeInv, NEW r \in Restorer,
           \/ StartRestore(r) \/ RestoreStep(r) \/ RestoreTimeout(r) \/ RestoreFails(r)
    PROVE  SaveIsolated'
<1> USE SaverKeys, RestorerKeys DEF SafeInv
<1> SUFFICES ASSUME NEW s \in Saver
             PROVE  pc'[s] \in {"write", "fingerprint"} => Isolated(s)'
  BY DEF SaveIsolated
<1>0. TypeOK /\ s # r /\ (pc[s] \in {"write", "fingerprint"} => Isolated(s))
  BY SaveRestoreAssumption DEF TypeInv, SaveIsolated
<1>1. pc'[s] = pc[s]
  BY <1>0 DEF StartRestore, RestoreStep, RestoreTimeout, RestoreFails, HydrateEntities,
     HydrateOverrides, HydrateProvenance, RestoreUnlock, Go, TypeOK
<1>2. UNCHANGED <<entity, base, submits, stage>>
  BY DEF StartRestore, RestoreStep, RestoreTimeout, RestoreFails, HydrateEntities,
     HydrateOverrides, HydrateProvenance, RestoreUnlock, editVars
<1>3. pc[s] \in {"write", "fingerprint"} => db'[entity[s]] = db[entity[s]]
  <2>1. CASE HydrateOverrides(r) \/ HydrateProvenance(r)
    <3>1. pc[s] \in {"write", "fingerprint"} => entity[s] \notin EntitiesOf(target[r])
      BY <2>1, NoRestoreDuringSave DEF HydrateOverrides, HydrateProvenance
    <3> QED
      BY <1>0, <2>1, <3>1 DEF HydrateOverrides, HydrateProvenance
  <2>2. CASE ~HydrateOverrides(r) /\ ~HydrateProvenance(r)
    BY <2>2 DEF StartRestore, RestoreStep, RestoreTimeout, RestoreFails, HydrateEntities,
       RestoreUnlock, dbVars
  <2> QED
    BY <2>1, <2>2
<1> QED
  BY <1>0, <1>1, <1>2, <1>3, IsolationFrame

\* SaveIsolated is inductive relative to the other invariants.
LEMMA IsolationStep ==
    ASSUME ~LockLoss
    PROVE  SafeInv /\ [Next]_vars => SaveIsolated'
<1> SUFFICES ASSUME SafeInv, [Next]_vars PROVE SaveIsolated'
  OBVIOUS
<1>1. CASE GrantLock \/ UNCHANGED vars
  <2>1. UNCHANGED <<db, pc, entity, base, submits, stage>>
    BY <1>1 DEF GrantLock, vars, dbVars, editVars
  <2> QED
    BY <2>1 DEF SafeInv, SaveIsolated, Isolated, Untouched, Unchecked, Mine
<1> QED
  BY <1>1, SaverIsolationStep, RestorerIsolationStep DEF Next, LoseLocks

\* SafeInv is inductive when no connection that holds locks is lost.
LEMMA Safety ==
    ASSUME ~LockLoss
    PROVE  Spec => []SafeInv
<1>1. Init => SafeInv
  <2> SUFFICES ASSUME Init PROVE SafeInv
    OBVIOUS
  <2>1. \A x \in Process : pc[x] = "idle"
    BY DEF Init, Process
  <2>2. TypeInv
    BY InitType DEF TypeInv, Init, Shape, InFlight
  <2>3. LockExclusion
    BY DEF Init, LockInit, LockExclusion
  <2> QED
    BY <2>1, <2>2, <2>3
    DEF SafeInv, Section, SaverSection, RestorerSection, SaveIsolated, Process
<1>2. SafeInv /\ [Next]_vars => SafeInv'
  BY NextType, ExclusionStep, SectionStep, IsolationStep DEF SafeInv
<1> QED
  BY <1>1, <1>2, PTL DEF Spec

\* A save is isolated from its fingerprint check to its last commit, for any
\* number of editors, restores, projects and entities, as long as no connection
\* that holds locks is lost: what it has written is still there, what it has not
\* yet written is still what its fingerprint said.
THEOREM Isolation ==
    ASSUME ~LockLoss
    PROVE  Spec => []SaveIsolated
  BY Safety, PTL DEF SafeInv

-----------------------------------------------------------------------------
(* Locks are given back.                                                  *)

\* x is in the queue of k with a request of mode m.
Waits(x, k, m) == \E i \in DOMAIN waits[k] : waits[k][i] = [session |-> x, mode |-> m]

\* The request a process makes at the point it has reached.
Asks(x, k, m) ==
    \/ /\ x \in Saver
       /\ \/ pc[x] = "project" /\ k = ProjectOf[entity[x]] /\ m = "shared"
          \/ pc[x] = "entity" /\ k = entity[x] /\ m = "exclusive"
    \/ x \in Restorer /\ pc[x] = "lock" /\ k = target[x] /\ m = "exclusive"

\* The locks it may hold there: those of Section, and what it has just asked for.
MayHold(x, k, m) ==
    \/ Asks(x, k, m)
    \/ /\ x \in Saver /\ pc[x] \in InFlight
       /\ \/ k = ProjectOf[entity[x]] /\ m = "shared"
          \/ /\ k = entity[x] /\ m = "exclusive"
             /\ pc[x] \in {"write", "fingerprint", "unlockEntity"}
    \/ /\ x \in Restorer /\ pc[x] \in {"overrides", "provenance", "unlock"}
       /\ k = target[x] /\ m = "exclusive"

\* Nobody holds or waits for more than that, and nobody waits for what it holds.
FootprintOf(x) ==
    \A k \in Keys, m \in Mode :
        /\ Holds(x, k, m) => MayHold(x, k, m)
        /\ Waits(x, k, m) => Asks(x, k, m) /\ ~Holds(x, k, m)

Footprint == \A x \in Process : FootprintOf(x)

\* Nobody is twice in one queue.
OneRequest ==
    \A k \in Keys : \A i, j \in DOMAIN waits[k] :
        waits[k][i].session = waits[k][j].session => i = j

\* Taking a request out of a queue keeps the others, in their order.
LEMMA DropKeeps ==
    ASSUME NEW S, NEW q \in Seq(S), NEW i \in DOMAIN q, NEW j \in DOMAIN Drop(q, i)
    PROVE  \E l \in DOMAIN q \ {i} :
              l = (IF j < i THEN j ELSE j + 1) /\ Drop(q, i)[j] = q[l]
<1> DEFINE a == SubSeq(q, 1, i - 1)
           b == SubSeq(q, i + 1, Len(q))
<1>1. i \in 1 .. Len(q) /\ Len(q) \in Nat
  OBVIOUS
<1>2. a \in Seq(S) /\ Len(a) = i - 1 /\ \A l \in 1 .. i - 1 : a[l] = q[l]
  BY <1>1
<1>3. b \in Seq(S) /\ Len(b) = Len(q) - i /\ \A l \in 1 .. Len(q) - i : b[l] = q[l + i]
  BY <1>1
<1>4. j \in 1 .. Len(q) - 1 /\ Drop(q, i) = a \o b
  BY <1>1, <1>2, <1>3 DEF Drop
<1>5. Drop(q, i)[j] = IF j < i THEN a[j] ELSE b[j - i + 1]
  <2> HIDE DEF a, b
  <2>1. \A l \in 1 .. Len(a) + Len(b) :
           (a \o b)[l] = IF l <= Len(a) THEN a[l] ELSE b[l - Len(a)]
    BY <1>2, <1>3, ConcatProperties
  <2>2. j \in 1 .. Len(a) + Len(b) /\ (j <= Len(a) <=> j < i) /\ j - Len(a) = j - i + 1
    BY <1>1, <1>2, <1>3, <1>4
  <2> QED
    BY <1>4, <2>1, <2>2
<1> HIDE DEF a, b
<1>6. CASE j < i
  BY <1>1, <1>2, <1>4, <1>5, <1>6
<1>7. CASE ~(j < i)
  <2>1. j - i + 1 \in 1 .. Len(q) - i /\ (j - i + 1) + i = j + 1
    BY <1>1, <1>4, <1>7
  <2>2. Drop(q, i)[j] = q[j + 1]
    BY <1>3, <1>5, <1>7, <2>1
  <2> QED
    BY <1>1, <1>4, <1>7, <2>2
<1> QED
  BY <1>6, <1>7

\* What a lock operation of x does to the requests of everyone: nothing is added
\* but the request asked for, and nobody comes to wait twice.
LEMMA AcquireFoot ==
    ASSUME LockTypeOK, OneRequest, NEW x \in Process, NEW k \in Keys, NEW m \in Mode,
           Acquire(x, k, m), \A n \in Mode : ~Waits(x, k, n)
    PROVE  /\ OneRequest'
           /\ \A y \in Process, j \in Keys, n \in Mode :
                 /\ Holds(y, j, n)' => \/ Holds(y, j, n)
                                       \/ (y = x /\ j = k /\ n = m /\ UNCHANGED waits)
                 /\ Waits(y, j, n)' => \/ Waits(y, j, n)
                                       \/ (y = x /\ j = k /\ n = m /\ UNCHANGED holds)
                 /\ UNCHANGED holds \/ UNCHANGED waits
<1> DEFINE r == [session |-> x, mode |-> m]
<1>1. CASE holds' = [holds EXCEPT ![k] = holds[k] \cup {r}] /\ UNCHANGED waits
  BY <1>1 DEF OneRequest, Holds, Waits, LockTypeOK, Keys
<1>2. CASE waits' = [waits EXCEPT ![k] = Append(waits[k], r)] /\ UNCHANGED holds
  <2>1. waits[k] \in Seq(Request) /\ r \in Request
    BY DEF LockTypeOK, Keys, Request, Process
  <2>2. /\ waits'[k] = Append(waits[k], r)
        /\ \A j \in Keys \ {k} : waits'[j] = waits[j]
    BY <1>2 DEF LockTypeOK, Keys
  <2>3. ASSUME NEW i \in DOMAIN waits[k] PROVE waits[k][i].session # x
    <3>1. waits[k][i] \in Request
      BY <2>1
    <3>2. waits[k][i] = [session |-> waits[k][i].session, mode |-> waits[k][i].mode]
          /\ waits[k][i].mode \in Mode
      BY <3>1 DEF Request
    <3> QED
      BY <3>2 DEF Waits
  <2>6. /\ DOMAIN Append(waits[k], r) = DOMAIN waits[k] \cup {Len(waits[k]) + 1}
        /\ \A i \in DOMAIN waits[k] : Append(waits[k], r)[i] = waits[k][i]
        /\ Append(waits[k], r)[Len(waits[k]) + 1] = r
    BY <2>1
  <2>7. r.session = x
    OBVIOUS
  <2>8. \A i, j \in DOMAIN waits'[k] : waits'[k][i].session = waits'[k][j].session => i = j
    <3> HIDE DEF r
    <3> QED
      BY <2>2, <2>3, <2>6, <2>7 DEF OneRequest
  <2>4. OneRequest'
    BY <2>2, <2>8 DEF OneRequest
  <2>5. ASSUME NEW y \in Process, NEW j \in Keys, NEW n \in Mode, Waits(y, j, n)'
        PROVE  Waits(y, j, n) \/ (y = x /\ j = k /\ n = m)
    <3>1. CASE j = k
      <4>1. PICK i \in DOMAIN waits'[k] : waits'[k][i] = [session |-> y, mode |-> n]
        BY <2>5, <3>1 DEF Waits
      <4>2. CASE i \in DOMAIN waits[k]
        BY <2>2, <2>6, <3>1, <4>1, <4>2 DEF Waits
      <4>3. CASE i = Len(waits[k]) + 1
        <5>1. r = [session |-> y, mode |-> n]
          BY <2>2, <2>6, <4>1, <4>3
        <5>2. x = y /\ m = n
          BY <5>1
        <5> QED
          BY <3>1, <5>2
      <4> QED
        BY <2>2, <2>6, <4>2, <4>3
    <3>2. CASE j # k
      BY <2>2, <2>5, <3>2 DEF Waits
    <3> QED
      BY <3>1, <3>2
  <2> QED
    BY <1>2, <2>4, <2>5 DEF Holds
<1> QED
  BY <1>1, <1>2 DEF Acquire

\* The common part of a grant and of a timeout: one request leaves its queue.
LEMMA DropFoot ==
    ASSUME LockTypeOK, OneRequest, NEW k \in Keys, NEW i \in DOMAIN waits[k],
           waits' = [waits EXCEPT ![k] = Drop(waits[k], i)]
    PROVE  /\ OneRequest'
           /\ \A y \in Process, j \in Keys, n \in Mode : Waits(y, j, n)' =>
                 Waits(y, j, n) /\ ~(j = k /\ y = waits[k][i].session)
<1> DEFINE q == waits[k]
<1>1. q \in Seq(Request) /\ \A j \in Keys \ {k} : waits'[j] = waits[j]
  BY DEF LockTypeOK, Keys
<1>2. waits'[k] = Drop(q, i)
  BY DEF LockTypeOK, Keys
<1>3. \A j \in DOMAIN Drop(q, i) : \E l \in DOMAIN q \ {i} :
         l = (IF j < i THEN j ELSE j + 1) /\ Drop(q, i)[j] = q[l]
  BY <1>1, DropKeeps
<1>4. OneRequest'
  <2> SUFFICES ASSUME NEW j \in Keys, NEW a \in DOMAIN waits'[j], NEW b \in DOMAIN waits'[j],
                      waits'[j][a].session = waits'[j][b].session
               PROVE  a = b
    BY DEF OneRequest
  <2>1. CASE j = k
    <3>1. PICK l \in DOMAIN q \ {i} : l = (IF a < i THEN a ELSE a + 1) /\ waits'[k][a] = q[l]
      BY <1>2, <1>3, <2>1
    <3>2. PICK o \in DOMAIN q \ {i} : o = (IF b < i THEN b ELSE b + 1) /\ waits'[k][b] = q[o]
      BY <1>2, <1>3, <2>1
    <3>3. l = o
      BY <2>1, <3>1, <3>2 DEF OneRequest
    <3>4. a \in Nat /\ b \in Nat /\ i \in Nat
      BY <1>1, <1>2, <2>1, DropType
    <3> QED
      BY <3>1, <3>2, <3>3, <3>4
  <2>2. CASE j # k
    BY <1>1, <2>2 DEF OneRequest
  <2> QED
    BY <2>1, <2>2
<1>5. ASSUME NEW y \in Process, NEW j \in Keys, NEW n \in Mode, Waits(y, j, n)'
      PROVE  Waits(y, j, n) /\ ~(j = k /\ y = waits[k][i].session)
  <2>1. CASE j = k
    <3>1. PICK a \in DOMAIN waits'[k] : waits'[k][a] = [session |-> y, mode |-> n]
      BY <1>5, <2>1 DEF Waits
    <3>2. PICK l \in DOMAIN q \ {i} : waits'[k][a] = q[l]
      BY <1>2, <1>3, <3>1
    <3>3. q[l].session = y
      BY <3>1, <3>2
    <3> QED
      BY <2>1, <3>1, <3>2, <3>3 DEF Waits, OneRequest
  <2>2. CASE j # k
    BY <1>1, <1>5, <2>2 DEF Waits
  <2> QED
    BY <2>1, <2>2
<1> QED
  BY <1>4, <1>5

\* A timeout.
LEMMA GiveUpFoot ==
    ASSUME LockTypeOK, OneRequest, NEW x \in Process, NEW k \in Keys, GiveUp(x, k)
    PROVE  /\ OneRequest' /\ UNCHANGED holds
           /\ \A y \in Process, j \in Keys, n \in Mode :
                 Waits(y, j, n)' => Waits(y, j, n) /\ ~(j = k /\ y = x)
  BY DropFoot DEF GiveUp

\* A grant turns one request of a queue into a lock.
LEMMA GrantFoot ==
    ASSUME LockTypeOK, OneRequest, NEW k \in Keys, Grant(k)
    PROVE  /\ OneRequest'
           /\ \A y \in Process, j \in Keys, n \in Mode :
                 /\ Holds(y, j, n)' => \/ Holds(y, j, n)
                                       \/ Waits(y, j, n)
                 /\ Waits(y, j, n)' =>  Waits(y, j, n) /\ (Holds(y, j, n)' => Holds(y, j, n))
<1>1. PICK i \in DOMAIN waits[k] : GrantAt(k, i)
  BY DEF Grant
<1>2. /\ holds' = [holds EXCEPT ![k] = holds[k] \cup {waits[k][i]}]
      /\ waits' = [waits EXCEPT ![k] = Drop(waits[k], i)]
  BY <1>1 DEF GrantAt
<1>3. ASSUME NEW y \in Process, NEW j \in Keys, NEW n \in Mode, Holds(y, j, n)'
      PROVE  Holds(y, j, n) \/ (j = k /\ waits[k][i] = [session |-> y, mode |-> n])
  <2>1. holds'[k] = holds[k] \cup {waits[k][i]} /\ (j # k => holds'[j] = holds[j])
    BY <1>2 DEF LockTypeOK, Keys
  <2> QED
    BY <1>3, <2>1 DEF Holds
<1>4. OneRequest' /\ \A y \in Process, j \in Keys, n \in Mode : Waits(y, j, n)' =>
         Waits(y, j, n) /\ ~(j = k /\ y = waits[k][i].session)
  BY <1>2, DropFoot
<1>5. ASSUME NEW y \in Process, NEW j \in Keys, NEW n \in Mode
      PROVE  /\ Holds(y, j, n)' => Holds(y, j, n) \/ Waits(y, j, n)
             /\ Waits(y, j, n)' => Waits(y, j, n) /\ (Holds(y, j, n)' => Holds(y, j, n))
  <2>1. waits[k][i] = [session |-> y, mode |-> n] => waits[k][i].session = y
    OBVIOUS
  <2>2. j = k /\ waits[k][i] = [session |-> y, mode |-> n] => Waits(y, j, n)
    BY DEF Waits
  <2> QED
    BY <1>3, <1>4, <2>1, <2>2
<1> QED
  BY <1>4, <1>5

\* An unlock.
LEMMA UnlockFoot ==
    ASSUME LockTypeOK, NEW x \in Process, NEW k \in Keys, NEW m \in Mode, Unlock(x, k, m)
    PROVE  /\ UNCHANGED waits /\ ~Holds(x, k, m)'
           /\ \A y \in Process, j \in Keys, n \in Mode : Holds(y, j, n)' => Holds(y, j, n)
  BY DEF Unlock, Holds, LockTypeOK, Keys

\* The end of a session.
LEMMA DisconnectFoot ==
    ASSUME LockTypeOK, OneRequest, NEW x \in Process, Disconnect(x)
    PROVE  /\ OneRequest'
           /\ \A y \in Process, j \in Keys, n \in Mode :
                 /\ Holds(y, j, n)' => Holds(y, j, n) /\ y # x
                 /\ Waits(y, j, n)' => Waits(y, j, n) /\ y # x
<1>1. \A y \in Process, j \in Keys, n \in Mode : Holds(y, j, n)' => Holds(y, j, n) /\ y # x
  BY DEF Disconnect, Holds, Keys
<1>2. ASSUME NEW k \in Keys
      PROVE  /\ \A i, j \in DOMAIN waits'[k] :
                   waits'[k][i].session = waits'[k][j].session => i = j
             /\ \A y \in Process, n \in Mode : Waits(y, k, n)' => Waits(y, k, n) /\ y # x
  <2>1. CASE IsWaiting(x, k)
    <3> DEFINE i == CHOOSE l \in DOMAIN waits[k] : waits[k][l].session = x
               w == [waits EXCEPT ![k] = Drop(waits[k], i)]
               q == waits[k]
    <3>1. i \in DOMAIN q /\ q[i].session = x
      BY <2>1 DEF IsWaiting
    <3>2. waits'[k] = Drop(q, i) /\ q \in Seq(Request)
      BY <2>1 DEF Disconnect, LockTypeOK, Keys
    <3> HIDE DEF i
    <3>3. \A j \in DOMAIN Drop(q, i) : \E l \in DOMAIN q \ {i} :
             l = (IF j < i THEN j ELSE j + 1) /\ Drop(q, i)[j] = q[l]
      BY <3>1, <3>2, DropKeeps
    <3>4. Drop(q, i) \in Seq(Request) /\ i \in Nat
      BY <3>1, <3>2, DropType
    <3>5. ASSUME NEW a \in DOMAIN waits'[k], NEW b \in DOMAIN waits'[k],
                 waits'[k][a].session = waits'[k][b].session
          PROVE  a = b
      <4>1. PICK l \in DOMAIN q \ {i} : l = (IF a < i THEN a ELSE a + 1) /\ waits'[k][a] = q[l]
        BY <3>2, <3>3
      <4>2. PICK o \in DOMAIN q \ {i} : o = (IF b < i THEN b ELSE b + 1) /\ waits'[k][b] = q[o]
        BY <3>2, <3>3
      <4>3. l = o
        BY <3>5, <4>1, <4>2 DEF OneRequest
      <4>4. a \in Nat /\ b \in Nat
        BY <3>2, <3>4
      <4> QED
        BY <3>4, <4>1, <4>2, <4>3, <4>4
    <3>6. ASSUME NEW y \in Process, NEW n \in Mode, Waits(y, k, n)'
          PROVE  Waits(y, k, n) /\ y # x
      <4>1. PICK a \in DOMAIN waits'[k] : waits'[k][a] = [session |-> y, mode |-> n]
        BY <3>6 DEF Waits
      <4>2. PICK l \in DOMAIN q \ {i} : waits'[k][a] = q[l]
        BY <3>2, <3>3, <4>1
      <4>3. q[l].session = y
        BY <4>1, <4>2
      <4> QED
        BY <3>1, <4>1, <4>2, <4>3 DEF Waits, OneRequest
    <3> QED
      BY <3>5, <3>6
  <2>2. CASE ~IsWaiting(x, k)
    BY <2>2 DEF Disconnect, IsWaiting, Waits, OneRequest, Keys
  <2> QED
    BY <2>1, <2>2
<1> QED
  BY <1>1, <1>2 DEF OneRequest

\* A step that moves x alone and adds nothing to the requests of the others only
\* has to answer for the footprint of x.
LEMMA FootprintOfOthers ==
    ASSUME TypeInv, Footprint, NEW x \in Process, NEW to, Go(x, to),
           UNCHANGED <<entity, target>>, OneRequest',
           \A y \in Process, j \in Keys, n \in Mode : y # x =>
              (Holds(y, j, n)' => Holds(y, j, n)) /\ (Waits(y, j, n)' => Waits(y, j, n)),
           FootprintOf(x)'
    PROVE  (Footprint /\ OneRequest)'
<1>1. \A y \in Process : y # x => pc'[y] = pc[y]
  BY DEF Go, TypeInv, TypeOK, Process
<1>2. ASSUME NEW y \in Process, y # x PROVE FootprintOf(y)'
  <2>1. \A k \in Keys, m \in Mode :
           (Asks(y, k, m)' <=> Asks(y, k, m)) /\ (MayHold(y, k, m)' <=> MayHold(y, k, m))
    BY <1>1, <1>2 DEF Asks, MayHold
  <2>2. FootprintOf(y)
    BY DEF Footprint
  <2> SUFFICES ASSUME NEW k \in Keys, NEW m \in Mode
               PROVE  /\ Holds(y, k, m)' => MayHold(y, k, m)'
                      /\ Waits(y, k, m)' => Asks(y, k, m)' /\ ~Holds(y, k, m)'
    BY DEF FootprintOf
  <2> QED
    BY <1>2, <2>1, <2>2 DEF FootprintOf
<1> QED
  BY <1>2 DEF Footprint

\* A process that has gone to rest, or has had its session closed.
LEMMA AtRest ==
    ASSUME NEW x, FootprintOf(x),
           x \in Saver => pc[x] \notin InFlight,
           x \in Restorer => pc[x] \notin {"lock", "overrides", "provenance", "unlock"}
    PROVE  \A k \in Keys, m \in Mode : ~Holds(x, k, m) /\ ~Waits(x, k, m)
  BY DEF FootprintOf, MayHold, Asks, InFlight

\* A request that is waited for has a mode.
LEMMA WaitsMode ==
    ASSUME LockTypeOK, NEW x \in Process, NEW k \in Keys, IsWaiting(x, k)
    PROVE  \E m \in Mode : Waits(x, k, m)
<1>1. PICK i \in DOMAIN waits[k] : waits[k][i].session = x
  BY DEF IsWaiting
<1>2. waits[k][i] \in Request
  BY DEF LockTypeOK, Keys
<1>3. waits[k][i].mode \in Mode /\ waits[k][i] = [session |-> x, mode |-> waits[k][i].mode]
  BY <1>1, <1>2 DEF Request
<1> QED
  BY <1>3 DEF Waits

\* The steps of a save keep the footprints.
LEMMA SaverFootprintStep ==
    ASSUME TypeInv, Footprint, OneRequest, NEW s \in Saver,
           \/ StartLoad(s) \/ ReadPart(s) \/ StartBlind(s) \/ Resubmit(s) \/ Submit(s)
           \/ SaveStep(s) \/ LockTimeout(s) \/ CallbackFails(s) \/ TeardownFails(s)
           \/ SaveDies(s)
    PROVE  (Footprint /\ OneRequest)'
<1> USE SaverKeys
<1> DEFINE e == entity[s]
           p == ProjectOf[entity[s]]
<1>0. TypeOK /\ LockTypeOK /\ s \in Process /\ s \notin Restorer /\ FootprintOf(s)
  BY SaveRestoreAssumption DEF TypeInv, TypeOK, Process, Footprint
<1>a. ASSUME UNCHANGED lockVars
      PROVE  /\ OneRequest'
             /\ \A y \in Process, j \in Keys, n \in Mode :
                  (Holds(y, j, n)' <=> Holds(y, j, n)) /\ (Waits(y, j, n)' <=> Waits(y, j, n))
  BY <1>a DEF OneRequest, Holds, Waits, lockVars
<1>1. ASSUME \/ StartLoad(s) \/ ReadPart(s) \/ StartBlind(s) \/ Resubmit(s)
      PROVE  (Footprint /\ OneRequest)'
  <2>1. PICK to \in {"load", "ready"} : Go(s, to)
    BY <1>1 DEF StartLoad, ReadPart, StartBlind, Resubmit
  <2>2. UNCHANGED lockVars /\ UNCHANGED <<entity, target>> /\ pc[s] \notin InFlight
    BY <1>1 DEF StartLoad, ReadPart, StartBlind, Resubmit, editVars, InFlight
  <2>3. FootprintOf(s)'
    BY <1>0, <1>a, <2>2, AtRest DEF FootprintOf
  <2> QED
    BY <1>0, <1>a, <2>1, <2>2, <2>3, FootprintOfOthers
<1>2. ASSUME Submit(s) PROVE (Footprint /\ OneRequest)'
  <2>1. /\ Acquire(s, p, "shared") /\ Go(s, "project") /\ pc[s] \notin InFlight
        /\ UNCHANGED <<entity, target>>
    BY <1>2 DEF Submit, InFlight
  <2>2. \A k \in Keys, m \in Mode : ~Holds(s, k, m) /\ ~Waits(s, k, m)
    BY <1>0, <2>1, AtRest
  <2>3. Asks(s, p, "shared")'
    BY <1>0, <2>1 DEF Asks, Go, TypeOK
  <2>4. /\ OneRequest'
        /\ \A y \in Process, j \in Keys, n \in Mode :
              /\ Holds(y, j, n)' => \/ Holds(y, j, n)
                                    \/ (y = s /\ j = p /\ n = "shared" /\ UNCHANGED waits)
              /\ Waits(y, j, n)' => \/ Waits(y, j, n)
                                    \/ (y = s /\ j = p /\ n = "shared" /\ UNCHANGED holds)
              /\ UNCHANGED holds \/ UNCHANGED waits
    BY <1>0, <2>1, <2>2, AcquireFoot
  <2>5. FootprintOf(s)'
    BY <1>0, <2>1, <2>2, <2>3, <2>4 DEF FootprintOf, MayHold, Holds
  <2> QED
    BY <1>0, <2>1, <2>4, <2>5, FootprintOfOthers
<1>3. ASSUME TakeEntityLock(s) PROVE (Footprint /\ OneRequest)'
  <2>1. /\ Acquire(s, e, "exclusive") /\ Go(s, "entity") /\ pc[s] = "project"
        /\ Holds(s, p, "shared")
        /\ UNCHANGED <<entity, target>>
    BY <1>3 DEF TakeEntityLock, editVars
  <2>2. \A k \in Keys, m \in Mode :
           (Holds(s, k, m) => k = p /\ m = "shared") /\ ~Waits(s, k, m)
    BY <1>0, <2>1 DEF FootprintOf, MayHold, Asks
  <2>3. Asks(s, e, "exclusive")' /\ MayHold(s, p, "shared")'
    BY <1>0, <2>1 DEF Asks, MayHold, Go, TypeOK, InFlight
  <2>4. /\ OneRequest'
        /\ \A y \in Process, j \in Keys, n \in Mode :
              /\ Holds(y, j, n)' => \/ Holds(y, j, n)
                                    \/ (y = s /\ j = e /\ n = "exclusive" /\ UNCHANGED waits)
              /\ Waits(y, j, n)' => \/ Waits(y, j, n)
                                    \/ (y = s /\ j = e /\ n = "exclusive" /\ UNCHANGED holds)
              /\ UNCHANGED holds \/ UNCHANGED waits
    BY <1>0, <2>1, <2>2, AcquireFoot
  <2>5. FootprintOf(s)'
    BY <1>0, <2>1, <2>2, <2>3, <2>4 DEF FootprintOf, MayHold, Holds
  <2> QED
    BY <1>0, <2>1, <2>4, <2>5, FootprintOfOthers
<1>4. ASSUME LockTimeout(s) PROVE (Footprint /\ OneRequest)'
  <2>1. PICK k \in {e, p} : /\ GiveUp(s, k)
                            /\ \/ pc[s] = "project" /\ k = p /\ Go(s, "answered")
                               \/ pc[s] = "entity" /\ k = e /\ Go(s, "unlockProject")
    BY <1>4 DEF LockTimeout
  <2>2. UNCHANGED <<entity, target>> /\ k \in Keys
    BY <1>0, <1>4 DEF LockTimeout, editVars
  <2>3. /\ OneRequest' /\ UNCHANGED holds
        /\ \A y \in Process, j \in Keys, n \in Mode :
              Waits(y, j, n)' => Waits(y, j, n) /\ ~(j = k /\ y = s)
    BY <1>0, <2>1, <2>2, GiveUpFoot
  <2>4. PICK m \in Mode : Waits(s, k, m)
    BY <1>0, <2>1, <2>2, WaitsMode DEF GiveUp, IsWaiting
  <2>5. Asks(s, k, m) /\ ~Holds(s, k, m)
    BY <1>0, <2>2, <2>4 DEF FootprintOf
  <2>6. \A j \in Keys, n \in Mode : Holds(s, j, n)' <=> Holds(s, j, n)
    BY <2>3 DEF Holds
  <2>7. CASE pc[s] = "project"
    <3>1. \A j \in Keys, n \in Mode : ~Holds(s, j, n)' /\ ~Waits(s, j, n)'
      BY <1>0, <2>1, <2>3, <2>5, <2>6, <2>7 DEF FootprintOf, MayHold, Asks
    <3> QED
      BY <1>0, <2>1, <2>2, <2>3, <3>1, FootprintOfOthers DEF FootprintOf, Holds
  <2>8. CASE pc[s] = "entity"
    <3>1. \A j \in Keys, n \in Mode :
             (Holds(s, j, n)' => j = p /\ n = "shared") /\ ~Waits(s, j, n)'
      BY <1>0, <2>1, <2>3, <2>5, <2>6, <2>8 DEF FootprintOf, MayHold, Asks
    <3>2. MayHold(s, p, "shared")'
      BY <1>0, <2>1, <2>2, <2>8 DEF MayHold, Go, TypeOK, InFlight
    <3>3. FootprintOf(s)'
      BY <2>2, <3>1, <3>2 DEF FootprintOf
    <3>4. Go(s, "unlockProject")
      BY <2>1, <2>8
    <3> QED
      BY <1>0, <2>2, <2>3, <3>3, <3>4, FootprintOfOthers DEF Holds
  <2> QED
    BY <2>1, <2>7, <2>8
<1>5. ASSUME CheckFingerprint(s) \/ WritePart(s) \/ CallbackFails(s) \/ ReturnFingerprint(s)
      PROVE  (Footprint /\ OneRequest)'
  <2>1. UNCHANGED lockVars /\ UNCHANGED <<entity, target>>
    BY <1>5 DEF CheckFingerprint, WritePart, CallbackFails, ReturnFingerprint, editVars
  <2>2. PICK to \in {"write", "fingerprint", "unlockEntity"} : Go(s, to)
    BY <1>5 DEF CheckFingerprint, WritePart, CallbackFails, ReturnFingerprint
  <2>3. pc[s] \in {"write", "fingerprint"} \/ (pc[s] = "entity" /\ Holds(s, e, "exclusive"))
    BY <1>5 DEF CheckFingerprint, WritePart, CallbackFails, ReturnFingerprint, InCallback
  <2>4. \A k \in Keys, m \in Mode :
           /\ Holds(s, k, m) => (k = p /\ m = "shared") \/ (k = e /\ m = "exclusive")
           /\ ~Waits(s, k, m)
    BY <1>0, <2>3 DEF FootprintOf, MayHold, Asks
  <2>5. MayHold(s, p, "shared")' /\ MayHold(s, e, "exclusive")'
    BY <1>0, <2>1, <2>2 DEF MayHold, Go, TypeOK, InFlight
  <2>6. FootprintOf(s)'
    BY <1>0, <1>a, <2>1, <2>4, <2>5 DEF FootprintOf
  <2> QED
    BY <1>0, <1>a, <2>1, <2>2, <2>6, FootprintOfOthers
<1>6. ASSUME NEW k \in Keys, NEW m \in Mode, NEW to, Unlock(s, k, m), Go(s, to),
             UNCHANGED <<entity, target>>,
             \/ pc[s] = "unlockEntity" /\ k = e /\ m = "exclusive" /\ to = "unlockProject"
             \/ pc[s] = "unlockProject" /\ k = p /\ m = "shared" /\ to = "answered"
      PROVE  (Footprint /\ OneRequest)'
  <2>1. /\ UNCHANGED waits /\ ~Holds(s, k, m)'
        /\ \A y \in Process, j \in Keys, n \in Mode : Holds(y, j, n)' => Holds(y, j, n)
    BY <1>0, <1>6, UnlockFoot
  <2>2. \A j \in Keys, n \in Mode :
           /\ Holds(s, j, n)' => j = p /\ n = "shared" /\ to = "unlockProject"
           /\ ~Waits(s, j, n)'
    BY <1>0, <1>6, <2>1 DEF FootprintOf, MayHold, Asks, Waits
  <2>3. to = "unlockProject" => MayHold(s, p, "shared")'
    BY <1>0, <1>6 DEF MayHold, Go, TypeOK, InFlight
  <2>4. FootprintOf(s)'
    BY <1>0, <1>6, <2>2, <2>3 DEF FootprintOf
  <2>5. OneRequest'
    BY <2>1 DEF OneRequest
  <2> QED
    BY <1>0, <1>6, <2>1, <2>4, <2>5, FootprintOfOthers DEF Waits
<1>7. ASSUME TeardownFails(s) \/ SaveDies(s) PROVE (Footprint /\ OneRequest)'
  <2>1. Disconnect(s) /\ Go(s, "answered") /\ UNCHANGED <<entity, target>>
    BY <1>7 DEF TeardownFails, SaveDies, editVars
  <2>2. FootprintOf(s)'
    BY <1>0, <2>1, DisconnectFoot DEF FootprintOf
  <2> QED
    BY <1>0, <2>1, <2>2, DisconnectFoot, FootprintOfOthers
<1>8. UnlockEntity(s) \/ UnlockProject(s) => (Footprint /\ OneRequest)'
  BY <1>0, <1>6 DEF UnlockEntity, UnlockProject, editVars
<1> QED
  BY <1>1, <1>2, <1>3, <1>4, <1>5, <1>7, <1>8 DEF SaveStep

\* The steps of a restore keep the footprints.
LEMMA RestorerFootprintStep ==
    ASSUME TypeInv, Footprint, OneRequest, NEW r \in Restorer,
           \/ StartRestore(r) \/ RestoreStep(r) \/ RestoreTimeout(r) \/ RestoreFails(r)
    PROVE  (Footprint /\ OneRequest)'
<1> USE RestorerKeys
<1> DEFINE k == target[r]
           x == "exclusive"
<1>0. TypeOK /\ LockTypeOK /\ r \in Process /\ r \notin Saver /\ FootprintOf(r)
  BY SaveRestoreAssumption DEF TypeInv, TypeOK, Process, Footprint
<1>1. ASSUME StartRestore(r) PROVE (Footprint /\ OneRequest)'
  <2>1. /\ Acquire(r, k, x) /\ Go(r, "lock") /\ pc[r] = "idle" /\ UNCHANGED <<entity, target>>
    BY <1>1 DEF StartRestore, editVars
  <2>2. \A j \in Keys, n \in Mode : ~Holds(r, j, n) /\ ~Waits(r, j, n)
    BY <1>0, <2>1, AtRest
  <2>3. Asks(r, k, x)'
    BY <1>0, <2>1 DEF Asks, Go, TypeOK
  <2>4. /\ OneRequest'
        /\ \A y \in Process, j \in Keys, n \in Mode :
              /\ Holds(y, j, n)' => \/ Holds(y, j, n)
                                    \/ (y = r /\ j = k /\ n = x /\ UNCHANGED waits)
              /\ Waits(y, j, n)' => \/ Waits(y, j, n)
                                    \/ (y = r /\ j = k /\ n = x /\ UNCHANGED holds)
              /\ UNCHANGED holds \/ UNCHANGED waits
    BY <1>0, <2>1, <2>2, AcquireFoot
  <2>5. FootprintOf(r)'
    BY <1>0, <2>1, <2>2, <2>3, <2>4 DEF FootprintOf, MayHold, Holds
  <2> QED
    BY <1>0, <2>1, <2>4, <2>5, FootprintOfOthers
<1>2. ASSUME HydrateEntities(r) \/ HydrateOverrides(r) \/ HydrateProvenance(r)
      PROVE  (Footprint /\ OneRequest)'
  <2>1. UNCHANGED <<lockVars, entity, target>>
    BY <1>2 DEF HydrateEntities, HydrateOverrides, HydrateProvenance, editVars
  <2>2. PICK to \in {"overrides", "provenance", "unlock"} : Go(r, to)
    BY <1>2 DEF HydrateEntities, HydrateOverrides, HydrateProvenance
  <2>3. pc[r] \in {"overrides", "provenance"} \/ (pc[r] = "lock" /\ Holds(r, k, x))
    BY <1>2 DEF HydrateEntities, HydrateOverrides, HydrateProvenance
  <2>4. \A j \in Keys, n \in Mode : (Holds(r, j, n) => j = k /\ n = x) /\ ~Waits(r, j, n)
    BY <1>0, <2>3 DEF FootprintOf, MayHold, Asks
  <2>5. MayHold(r, k, x)'
    BY <1>0, <2>1, <2>2 DEF MayHold, Go, TypeOK
  <2>6. FootprintOf(r)' /\ OneRequest'
    BY <1>0, <2>1, <2>4, <2>5 DEF FootprintOf, Holds, Waits, lockVars, OneRequest
  <2> QED
    BY <1>0, <2>1, <2>2, <2>6, FootprintOfOthers DEF Holds, Waits, lockVars
<1>3. ASSUME RestoreUnlock(r) PROVE (Footprint /\ OneRequest)'
  <2>1. /\ Unlock(r, k, x) /\ Go(r, "done") /\ pc[r] = "unlock" /\ UNCHANGED <<entity, target>>
    BY <1>3 DEF RestoreUnlock, editVars
  <2>2. /\ UNCHANGED waits /\ ~Holds(r, k, x)'
        /\ \A y \in Process, j \in Keys, n \in Mode : Holds(y, j, n)' => Holds(y, j, n)
    BY <1>0, <2>1, UnlockFoot
  <2>3. \A j \in Keys, n \in Mode : ~Holds(r, j, n)' /\ ~Waits(r, j, n)'
    BY <1>0, <2>1, <2>2 DEF FootprintOf, MayHold, Asks, Waits
  <2>4. FootprintOf(r)' /\ OneRequest'
    BY <2>2, <2>3 DEF FootprintOf, OneRequest
  <2> QED
    BY <1>0, <2>1, <2>2, <2>4, FootprintOfOthers DEF Waits
<1>4. ASSUME RestoreTimeout(r) PROVE (Footprint /\ OneRequest)'
  <2>1. /\ GiveUp(r, k) /\ Go(r, "failed") /\ pc[r] = "lock" /\ UNCHANGED <<entity, target>>
    BY <1>4 DEF RestoreTimeout, editVars
  <2>2. /\ OneRequest' /\ UNCHANGED holds
        /\ \A y \in Process, j \in Keys, n \in Mode :
              Waits(y, j, n)' => Waits(y, j, n) /\ ~(j = k /\ y = r)
    BY <1>0, <2>1, GiveUpFoot
  <2>3. PICK m \in Mode : Waits(r, k, m)
    BY <1>0, <2>1, WaitsMode DEF GiveUp, IsWaiting
  <2>4. Asks(r, k, m) /\ ~Holds(r, k, m)
    BY <1>0, <2>3 DEF FootprintOf
  <2>5. \A j \in Keys, n \in Mode : ~Holds(r, j, n)' /\ ~Waits(r, j, n)'
    BY <1>0, <2>1, <2>2, <2>4 DEF FootprintOf, MayHold, Asks, Holds
  <2>6. FootprintOf(r)'
    BY <2>5 DEF FootprintOf
  <2> QED
    BY <1>0, <2>1, <2>2, <2>6, FootprintOfOthers DEF Holds
<1>5. ASSUME RestoreFails(r) PROVE (Footprint /\ OneRequest)'
  <2>1. Disconnect(r) /\ Go(r, "failed") /\ UNCHANGED <<entity, target>>
    BY <1>5 DEF RestoreFails, editVars
  <2>2. FootprintOf(r)'
    BY <1>0, <2>1, DisconnectFoot DEF FootprintOf
  <2> QED
    BY <1>0, <2>1, <2>2, DisconnectFoot, FootprintOfOthers
<1> QED
  BY <1>1, <1>2, <1>3, <1>4, <1>5 DEF RestoreStep

\* Footprint and OneRequest are inductive relative to TypeInv.
LEMMA FootprintStep ==
    TypeInv /\ Footprint /\ OneRequest /\ [Next]_vars => (Footprint /\ OneRequest)'
<1> SUFFICES ASSUME TypeInv, Footprint, OneRequest, [Next]_vars
             PROVE  (Footprint /\ OneRequest)'
  OBVIOUS
<1>0. TypeOK /\ LockTypeOK
  BY DEF TypeInv, TypeOK
<1>1. ASSUME UNCHANGED <<pc, entity, target>>, OneRequest',
             \A y \in Process, j \in Keys, n \in Mode :
                /\ Holds(y, j, n)' => Holds(y, j, n) \/ Waits(y, j, n)
                /\ Waits(y, j, n)' => Waits(y, j, n) /\ (Holds(y, j, n)' => Holds(y, j, n))
      PROVE  (Footprint /\ OneRequest)'
  <2>1. \A y \in Process, k \in Keys, m \in Mode :
           (Asks(y, k, m)' <=> Asks(y, k, m)) /\ (MayHold(y, k, m)' <=> MayHold(y, k, m))
    BY <1>1 DEF Asks, MayHold
  <2>2. ASSUME NEW y \in Process PROVE FootprintOf(y)'
    BY <1>1, <2>1 DEF Footprint, FootprintOf, MayHold
  <2> QED
    BY <1>1, <2>2 DEF Footprint
<1>2. CASE GrantLock
  <2>1. PICK k \in Keys : Grant(k)
    BY <1>2 DEF GrantLock, Keys
  <2>2. UNCHANGED <<pc, entity, target>>
    BY <1>2 DEF GrantLock, editVars
  <2> QED
    BY <1>0, <1>1, <2>1, <2>2, GrantFoot
<1>3. ASSUME NEW x \in Process, LoseLocks(x) PROVE (Footprint /\ OneRequest)'
  <2>1. Disconnect(x) /\ UNCHANGED <<pc, entity, target>>
    BY <1>3 DEF LoseLocks, editVars
  <2> QED
    BY <1>0, <1>1, <2>1, DisconnectFoot
<1>4. CASE UNCHANGED vars
  BY <1>1, <1>4 DEF vars, Holds, Waits, OneRequest
<1> QED
  BY <1>2, <1>3, <1>4, SaverFootprintStep, RestorerFootprintStep DEF Next, Process

\* A process outside its locked section holds nothing and waits for nothing,
\* whatever fails, times out, dies or is lost on the way: no lock outlives the
\* request or the restore that took it.
THEOREM NoLeaks == Spec => []NoLockLeaks
<1>1. Init => Footprint /\ OneRequest
  BY DEF Init, LockInit, Footprint, FootprintOf, OneRequest, Holds, Waits, Keys
<1>2. TypeInv /\ Footprint => NoLockLeaks
  <2> SUFFICES ASSUME TypeInv, Footprint, NEW x \in Process, NEW k \in Keys,
                      pc[x] \in {"idle", "load", "ready", "answered", "done", "failed"}
               PROVE  (\A m \in Mode : ~Holds(x, k, m)) /\ ~IsWaiting(x, k)
    BY DEF NoLockLeaks, Keys
  <2>1. \A m \in Mode : ~Holds(x, k, m) /\ ~Waits(x, k, m)
    BY AtRest DEF Footprint, InFlight
  <2> QED
    BY <2>1, WaitsMode DEF TypeInv, TypeOK
<1> QED
  BY <1>1, <1>2, TypeInvariance, FootprintStep, PTL DEF Spec

-----------------------------------------------------------------------------
(* The answer of a save.                                                   *)

\* The answer of a save names its own content, in the step that gives it.
LEMMA OwnAnswer ==
    ASSUME TypeInv, SaveIsolated, NEW s \in Saver, ReturnFingerprint(s)
    PROVE  /\ base'[s] = Fingerprint(entity[s])
           /\ base'[s] = seen'[s]
           /\ base'[s]["rows"] = Mine(s, "all")'
<1> USE SaverKeys
<1> DEFINE e == entity[s]
<1>1. TypeOK /\ stage[s] = 5 /\ Isolated(s)
  BY DEF ReturnFingerprint, TypeInv, Shape, SaveIsolated
<1>2. \A i \in 1 .. 5 : (Commits[i][1] = "placements" => e \in Model)
         => \/ db[e][Commits[i][1]] = Mine(s, Commits[i][2])
            \/ db[e][Commits[i][1]] = Mine(s, "all")
  BY <1>1 DEF Isolated
<1>3. /\ db[e]["rows"] = Mine(s, "all")
      /\ db[e]["refs"] = Mine(s, "all")
      /\ e \in Model => db[e]["placements"] = Mine(s, "all")
      /\ db[e]["adoptions"] = Mine(s, "all")
  <2>1. 1 \in 1 .. 5 /\ 3 \in 1 .. 5 /\ 4 \in 1 .. 5 /\ 5 \in 1 .. 5
    OBVIOUS
  <2>2. /\ Commits[1] = <<"rows", "all">> /\ Commits[3] = <<"placements", "all">>
        /\ Commits[4] = <<"refs", "all">> /\ Commits[5] = <<"adoptions", "all">>
    BY DEF Commits
  <2> QED
    BY <1>2, <2>1, <2>2
<1>4. base'[s] = Fingerprint(e) /\ base'[s] = seen'[s]
  <2>1. base'[s] = Fingerprint(e)
    BY <1>1 DEF ReturnFingerprint, TypeOK
  <2>2. seen'[s] = [p \in FpPart |-> IF p = "placements" /\ e \notin Model
                                     THEN db[e][p] ELSE Mine(s, "all")]
    BY <1>1 DEF ReturnFingerprint, TypeOK
  <2>3. \A p \in FpPart : db[e][p] = IF p = "placements" /\ e \notin Model
                                     THEN db[e][p] ELSE Mine(s, "all")
    BY <1>3 DEF FpPart
  <2> QED
    BY <2>1, <2>2, <2>3 DEF Fingerprint
<1>5. base'[s]["rows"] = Mine(s, "all")'
  BY <1>3, <1>4 DEF Fingerprint, FpPart, Mine, ReturnFingerprint
<1> QED
  BY <1>4, <1>5

\* OkMeansMine is inductive relative to TypeInv and SaveIsolated.
LEMMA OkStep == TypeInv /\ SaveIsolated /\ OkMeansMine /\ [Next]_vars => OkMeansMine'
<1> SUFFICES ASSUME TypeInv, SaveIsolated, OkMeansMine, [Next]_vars PROVE OkMeansMine'
  OBVIOUS
<1>0. TypeOK
  BY DEF TypeInv
<1>1. ASSUME NEW s \in Saver, StartLoad(s) \/ Submit(s) PROVE OkMeansMine'
  BY <1>0, <1>1 DEF StartLoad, Submit, OkMeansMine, Mine, TypeOK
<1>2. ASSUME NEW s \in Saver, ReadPart(s) PROVE OkMeansMine'
  <2>1. /\ outcome[s] # "ok" /\ UNCHANGED <<outcome, submits>>
        /\ \A t \in Saver : t # s => base'[t] = base[t] /\ seen'[t] = seen[t]
    BY <1>0, <1>2 DEF ReadPart, TypeInv, Shape, TypeOK
  <2> QED
    BY <2>1 DEF OkMeansMine, Mine
<1>3. ASSUME NEW s \in Saver,
             \/ StartBlind(s) \/ Resubmit(s) \/ TakeEntityLock(s) \/ CheckFingerprint(s)
             \/ WritePart(s) \/ UnlockEntity(s) \/ UnlockProject(s) \/ LockTimeout(s)
             \/ CallbackFails(s) \/ TeardownFails(s) \/ SaveDies(s)
      PROVE  OkMeansMine'
  <2>1. /\ UNCHANGED editVars
        /\ \/ UNCHANGED outcome
           \/ \E o \in {"busy", "conflict", "error"} : outcome' = [outcome EXCEPT ![s] = o]
    BY <1>3 DEF StartBlind, Resubmit, TakeEntityLock, CheckFingerprint, WritePart,
       UnlockEntity, UnlockProject, LockTimeout, CallbackFails, TeardownFails, SaveDies
  <2> QED
    BY <1>0, <2>1 DEF OkMeansMine, Mine, editVars, TypeOK
<1>4. ASSUME \/ \E r \in Restorer : \/ StartRestore(r) \/ RestoreStep(r)
                                     \/ RestoreTimeout(r) \/ RestoreFails(r)
             \/ \E x \in Process : LoseLocks(x)
             \/ GrantLock
             \/ UNCHANGED vars
      PROVE  OkMeansMine'
  <2>1. UNCHANGED <<editVars, outcome>>
    BY <1>4 DEF StartRestore, RestoreStep, RestoreTimeout, RestoreFails, HydrateEntities,
       HydrateOverrides, HydrateProvenance, RestoreUnlock, LoseLocks, GrantLock, vars, editVars
  <2> QED
    BY <2>1 DEF OkMeansMine, Mine, editVars
<1>5. ASSUME NEW s \in Saver, ReturnFingerprint(s) PROVE OkMeansMine'
  <2>1. \A t \in Saver : t # s =>
           /\ outcome'[t] = outcome[t] /\ base'[t] = base[t] /\ seen'[t] = seen[t]
           /\ submits'[t] = submits[t]
    BY <1>0, <1>5 DEF ReturnFingerprint, TypeOK
  <2>2. base'[s] = seen'[s] /\ base'[s]["rows"] = Mine(s, "all")'
    BY <1>5, OwnAnswer
  <2> QED
    BY <2>1, <2>2 DEF OkMeansMine, Mine
<1> QED
  BY <1>1, <1>2, <1>3, <1>4, <1>5 DEF Next, SaveStep, Process

\* A 200 carries the fingerprint of the save's own content, which is what the
\* editor now shows: nobody's write slips in between the last commit and the
\* reading of the fingerprint.
THEOREM OwnFingerprint ==
    ASSUME ~LockLoss
    PROVE  Spec => []OkMeansMine
<1>1. Init => OkMeansMine
  BY DEF Init, OkMeansMine
<1> QED
  BY <1>1, TypeInvariance, Isolation, OkStep, PTL DEF Spec

-----------------------------------------------------------------------------
(* Rows, refs and adoptions together.                                      *)

\* No two restores are in one project.
LEMMA OneRestorer ==
    ASSUME TypeInv, Section, LockExclusion, NEW q \in Restorer, NEW r \in Restorer,
           pc[q] \in {"overrides", "provenance"}, pc[r] \in {"overrides", "provenance"},
           target[q] = target[r]
    PROVE  q = r
<1>1. target[q] \in Keys
  BY RestorerKeys DEF TypeInv
<1>2. Holds(q, target[q], "exclusive") /\ Holds(r, target[q], "exclusive")
  BY DEF Section, RestorerSection
<1> QED
  BY <1>1, <1>2 DEF Holds, LockExclusion, Conflicts, Keys

\* Between its two transactions a restore has its own rows and refs in the project.
HalfRestored ==
    \A r \in Restorer : pc[r] = "provenance" =>
        \A e \in EntitiesOf(target[r]) : db[e]["rows"] = r /\ db[e]["refs"] = r

\* A step that changes no content, ends no half-finished write and begins none.
LEMMA CoherenceFrame ==
    ASSUME PatternCoherent, HalfRestored, UNCHANGED <<db, target>>,
           \A r \in Restorer : pc'[r] = "provenance" => pc[r] = "provenance",
           \A e \in Entity : MidWrite(e) => MidWrite(e)' \/ e \in torn',
           torn \subseteq torn'
    PROVE  (PatternCoherent /\ HalfRestored)'
  BY DEF PatternCoherent, HalfRestored, EntitiesOf

\* The steps of a save.
LEMMA SaverCoherenceStep ==
    ASSUME SafeInv, PatternCoherent, HalfRestored, NEW s \in Saver,
           \/ StartLoad(s) \/ ReadPart(s) \/ StartBlind(s) \/ Resubmit(s) \/ Submit(s)
           \/ SaveStep(s) \/ LockTimeout(s) \/ CallbackFails(s) \/ TeardownFails(s)
           \/ SaveDies(s)
    PROVE  (PatternCoherent /\ HalfRestored)'
<1> USE SaverKeys
<1> DEFINE e == entity[s]
<1>0. TypeOK /\ TypeInv /\ Section /\ LockExclusion /\ s \notin Restorer /\ e \in Entity
  BY SaveRestoreAssumption DEF SafeInv, TypeInv
<1>1. ASSUME WritePart(s) PROVE (PatternCoherent /\ HalfRestored)'
  <2>1. /\ pc[s] = "write" /\ stage[s] \in 0 .. 4 /\ stage'[s] = stage[s] + 1
        /\ \A x \in Process : x # s => pc'[x] = pc[x]
        /\ pc'[s] = IF stage[s] = 4 THEN "fingerprint" ELSE "write"
        /\ \A t \in Saver : t # s => stage'[t] = stage[t]
        /\ UNCHANGED <<entity, submits, target>>
    BY <1>0, <1>1 DEF WritePart, Go, TypeInv, TypeOK, Shape, Process, editVars
  <2>2. \A f \in Entity : f # e => db'[f] = db[f] /\ (f \in torn <=> f \in torn')
    BY <1>0, <1>1 DEF WritePart, TypeOK
  <2>3. \A f \in Entity : f # e => (MidWrite(f) <=> MidWrite(f)')
    BY <1>0, <2>1 DEF MidWrite, Process
  <2>4. CASE stage[s] < 4
    <3>1. MidWrite(e)'
      BY <2>1, <2>4 DEF MidWrite
    <3>2. PatternCoherent'
      BY <2>1, <2>2, <2>3, <3>1 DEF PatternCoherent
    <3>3. HalfRestored'
      BY <1>0, <2>1, <2>2, NoRestoreDuringSave DEF HalfRestored, EntitiesOf, Process
    <3> QED
      BY <3>2, <3>3
  <2>5. CASE stage[s] = 4
    <3>1. Isolated(s)
      BY <2>1 DEF SafeInv, SaveIsolated
    <3>2. db[e]["rows"] = Mine(s, "all") /\ db[e]["refs"] = Mine(s, "all")
      <4>1. Commits[1] = <<"rows", "all">> /\ Commits[4] = <<"refs", "all">>
        BY DEF Commits
      <4> QED
        BY <2>5, <3>1, <4>1 DEF Isolated
    <3>3. db' = [db EXCEPT ![e]["adoptions"] = Mine(s, "all")]
      <4> DEFINE c == Commits[stage[s] + 1]
      <4>1. c = <<"adoptions", "all">>
        BY <2>5 DEF Commits
      <4>2. db' = CASE c[1] = "rows" ->
                         [db EXCEPT ![e]["rows"] = Mine(s, "all"),
                                    ![e]["refs"] = Mine(s, "some")]
                  [] c[1] = "placements" /\ e \notin Model -> db
                  [] OTHER -> [db EXCEPT ![e][c[1]] = Mine(s, c[2])]
        BY <1>1 DEF WritePart
      <4> HIDE DEF c
      <4> QED
        BY <4>1, <4>2
    <3>4. /\ db'[e]["rows"] = Mine(s, "all") /\ db'[e]["refs"] = Mine(s, "all")
          /\ db'[e]["adoptions"] = Mine(s, "all")
      BY <1>0, <3>2, <3>3 DEF TypeOK, Part, FpPart
    <3>5. PatternCoherent'
      BY <2>1, <2>2, <2>3, <3>4 DEF PatternCoherent
    <3>6. HalfRestored'
      BY <1>0, <2>1, <2>2, NoRestoreDuringSave DEF HalfRestored, EntitiesOf, Process
    <3> QED
      BY <3>5, <3>6
  <2> QED
    BY <2>1, <2>4, <2>5
<1>2. ASSUME CallbackFails(s) \/ SaveDies(s) PROVE (PatternCoherent /\ HalfRestored)'
  <2>1. /\ Tear(s) /\ UNCHANGED <<db, entity, stage, target>>
        /\ \A x \in Process : x # s => pc'[x] = pc[x]
    BY <1>0, <1>2 DEF CallbackFails, SaveDies, Go, TypeOK, Process, editVars
  <2>2. \A f \in Entity : MidWrite(f) => MidWrite(f)' \/ f \in torn'
    BY <1>0, <2>1 DEF MidWrite, Tear, Process
  <2> QED
    BY <1>0, <2>1, <2>2, CoherenceFrame DEF Tear, Process
<1>3. ASSUME \/ StartLoad(s) \/ ReadPart(s) \/ StartBlind(s) \/ Resubmit(s) \/ Submit(s)
             \/ TakeEntityLock(s) \/ CheckFingerprint(s) \/ ReturnFingerprint(s)
             \/ UnlockEntity(s) \/ UnlockProject(s) \/ LockTimeout(s) \/ TeardownFails(s)
      PROVE  (PatternCoherent /\ HalfRestored)'
  <2>1. /\ UNCHANGED <<dbVars, entity, target>>
        /\ UNCHANGED stage \/ \E n : stage' = [stage EXCEPT ![s] = n]
        /\ pc[s] # "write"
    BY <1>3 DEF StartLoad, ReadPart, StartBlind, Resubmit, Submit, TakeEntityLock,
       CheckFingerprint, InCallback, ReturnFingerprint, UnlockEntity, UnlockProject,
       LockTimeout, TeardownFails, editVars
  <2>2. \E to : Go(s, to)
    BY <1>3 DEF StartLoad, ReadPart, StartBlind, Resubmit, Submit, TakeEntityLock,
       CheckFingerprint, ReturnFingerprint, UnlockEntity, UnlockProject,
       LockTimeout, TeardownFails
  <2>3. \A x \in Process : x # s => pc'[x] = pc[x]
    BY <1>0, <2>2 DEF Go, TypeOK, Process
  <2>4. \A f \in Entity : MidWrite(f) => MidWrite(f)'
    BY <1>0, <2>1, <2>3 DEF MidWrite, Process, TypeOK
  <2> QED
    BY <1>0, <2>1, <2>3, <2>4, CoherenceFrame DEF Process, dbVars
<1> QED
  BY <1>1, <1>2, <1>3 DEF SaveStep

\* The steps of a restore.
LEMMA RestorerCoherenceStep ==
    ASSUME SafeInv, PatternCoherent, HalfRestored, NEW r \in Restorer,
           \/ StartRestore(r) \/ RestoreStep(r) \/ RestoreTimeout(r) \/ RestoreFails(r)
    PROVE  (PatternCoherent /\ HalfRestored)'
<1> USE RestorerKeys
<1> DEFINE mine == EntitiesOf(target[r])
<1>0. TypeOK /\ TypeInv /\ Section /\ LockExclusion /\ r \notin Saver
  BY SaveRestoreAssumption DEF SafeInv, TypeInv
<1>1. /\ UNCHANGED <<entity, stage, target>>
      /\ \A x \in Process : x # r => pc'[x] = pc[x]
  BY <1>0 DEF StartRestore, RestoreStep, RestoreTimeout, RestoreFails, HydrateEntities,
     HydrateOverrides, HydrateProvenance, RestoreUnlock, Go, TypeOK, Process, editVars
<1>2. ASSUME HydrateOverrides(r) PROVE (PatternCoherent /\ HalfRestored)'
  <2>1. /\ pc[r] = "overrides" /\ pc'[r] = "provenance" /\ UNCHANGED torn
        /\ \A e \in Entity \ mine : db'[e] = db[e]
        /\ \A e \in mine : db'[e]["rows"] = r /\ db'[e]["refs"] = r
    BY <1>0, <1>2 DEF HydrateOverrides, Go, TypeOK, Part, FpPart, EntitiesOf
  <2>2. \A e \in mine : MidWrite(e)'
    BY <1>1, <2>1 DEF MidWrite, EntitiesOf
  <2>3. \A e \in Entity : MidWrite(e) => MidWrite(e)'
    BY <1>0, <1>1, <2>1 DEF MidWrite, Process
  <2>4. PatternCoherent'
    BY <2>1, <2>2, <2>3 DEF PatternCoherent
  <2>5. ASSUME NEW q \in Restorer, pc'[q] = "provenance", NEW e \in EntitiesOf(target'[q])
        PROVE  db'[e]["rows"] = q /\ db'[e]["refs"] = q
    <3>1. CASE q = r
      BY <1>1, <2>1, <2>5, <3>1
    <3>2. CASE q # r
      <4>1. pc[q] = "provenance" /\ e \in EntitiesOf(target[q])
        BY <1>1, <2>5, <3>2 DEF Process, EntitiesOf
      <4>2. e \in Entity \ mine
        BY <1>0, <2>1, <3>2, <4>1, OneRestorer DEF EntitiesOf
      <4> QED
        BY <2>1, <4>1, <4>2 DEF HalfRestored
    <3> QED
      BY <3>1, <3>2
  <2> QED
    BY <2>4, <2>5 DEF HalfRestored, EntitiesOf
<1>3. ASSUME HydrateProvenance(r) PROVE (PatternCoherent /\ HalfRestored)'
  <2>1. /\ pc[r] = "provenance" /\ pc'[r] = "unlock" /\ torn' = torn \ mine
        /\ \A e \in Entity \ mine : db'[e] = db[e]
        /\ \A e \in Entity : db'[e]["rows"] = db[e]["rows"] /\ db'[e]["refs"] = db[e]["refs"]
        /\ \A e \in mine : db'[e]["adoptions"] = r
    BY <1>0, <1>3 DEF HydrateProvenance, Go, TypeOK, Part, FpPart, EntitiesOf
  <2>2. \A e \in Entity \ mine : MidWrite(e) => MidWrite(e)'
    BY <1>0, <1>1, <2>1 DEF MidWrite, Process, EntitiesOf
  <2>3. \A e \in mine : db[e]["rows"] = r /\ db[e]["refs"] = r
    BY <2>1 DEF HalfRestored
  <2>4. PatternCoherent'
    BY <2>1, <2>2, <2>3 DEF PatternCoherent
  <2>5. HalfRestored'
    BY <1>1, <2>1 DEF HalfRestored, EntitiesOf, Process
  <2> QED
    BY <2>4, <2>5
<1>4. ASSUME \/ StartRestore(r) \/ RestoreTimeout(r) \/ RestoreFails(r) \/ HydrateEntities(r)
             \/ RestoreUnlock(r)
      PROVE  (PatternCoherent /\ HalfRestored)'
  <2>1. /\ UNCHANGED db /\ torn \subseteq torn' /\ pc'[r] # "provenance"
        /\ pc[r] = "provenance" => mine \subseteq torn'
    BY <1>0, <1>4 DEF StartRestore, RestoreTimeout, RestoreFails, HydrateEntities,
       RestoreUnlock, Go, TypeOK, dbVars
  <2>2. \A f \in Entity : MidWrite(f) => MidWrite(f)' \/ f \in torn'
    BY <1>0, <1>1, <2>1 DEF MidWrite, Process, EntitiesOf
  <2> QED
    BY <1>1, <2>1, <2>2, CoherenceFrame DEF Process
<1> QED
  BY <1>2, <1>3, <1>4 DEF RestoreStep

\* Coherence is inductive relative to the isolation of saves.
LEMMA CoherenceStep ==
    ASSUME ~LockLoss
    PROVE  SafeInv /\ PatternCoherent /\ HalfRestored /\ [Next]_vars
              => (PatternCoherent /\ HalfRestored)'
<1> SUFFICES ASSUME SafeInv, PatternCoherent, HalfRestored, [Next]_vars
             PROVE  (PatternCoherent /\ HalfRestored)'
  OBVIOUS
<1>1. CASE GrantLock \/ UNCHANGED vars
  <2>1. UNCHANGED <<dbVars, pc, entity, stage, target>>
    BY <1>1 DEF GrantLock, vars, dbVars, editVars
  <2> QED
    BY <2>1 DEF PatternCoherent, HalfRestored, MidWrite, dbVars
<1> QED
  BY <1>1, SaverCoherenceStep, RestorerCoherenceStep DEF Next, LoseLocks

\* The rows, the refs and the adoption receipts of a pattern have one writer,
\* wherever saves and restores of its project have not stopped half way.
THEOREM Coherence ==
    ASSUME ~LockLoss
    PROVE  Spec => []PatternCoherent
<1>1. Init => PatternCoherent /\ HalfRestored
  BY DEF Init, PatternCoherent, HalfRestored, Part, FpPart
<1> QED
  BY <1>1, Safety, CoherenceStep, PTL DEF Spec

-----------------------------------------------------------------------------
(* What the reads of a load have established.                              *)

\* The submission s is making has committed its version of p.
HasWritten(s, p, how) ==
    \E i \in 1 .. stage[s] :
        Commits[i] = <<p, how>> \/ (p = "refs" /\ how = "some" /\ i = 1)

\* The versions of p that have been in the database, or can no longer come into it.
Committed(p) ==
    {Initial}
    \cup {r \in Restorer : pc[r] \notin {"idle", "lock", "overrides"}}
    \cup {v \in Saver \X (1 .. MaxSubmits) \X {"some", "all"} :
            \/ v[2] < submits[v[1]]
            \/ v[2] = submits[v[1]] /\ HasWritten(v[1], p, v[3])}

\* What the database and the fingerprints name has been committed.
Past ==
    \A p \in FpPart :
        /\ \A e \in Entity : db[e][p] \in Committed(p)
        /\ \A s \in Saver : base[s][p] \in Committed(p) \cup {None}

\* The fingerprint is read before the content, part by part, and both are whole
\* when the load is over.
Loaded ==
    \A s \in Saver :
        /\ pc[s] = "idle" => base[s] = Nothing /\ seen[s] = Nothing
        /\ pc[s] = "load" => \A i \in 1 .. 3 :
              /\ base[s][LoadOrder[i]] # None <=> i <= reads[s]
              /\ seen[s][LoadOrder[i]] # None <=> i + 3 <= reads[s]
        /\ pc[s] # "load" => \/ base[s] = Nothing /\ seen[s] = Nothing
                             \/ \A p \in FpPart : base[s][p] # None /\ seen[s][p] # None

\* A part whose fingerprint is still the stored one has been read unchanged.
Witness ==
    \A s \in Saver, p \in FpPart :
        seen[s][p] # None /\ base[s][p] = db[entity[s]][p] => seen[s][p] = base[s][p]

\* A committed version stays committed.
LEMMA CommittedGrows ==
    ASSUME TypeInv, [Next]_vars, NEW p \in FpPart
    PROVE  Committed(p) \subseteq Committed(p)'
<1>0. TypeOK
  BY DEF TypeInv
<1>1. ASSUME NEW r \in Restorer, pc[r] \notin {"idle", "lock", "overrides"}
      PROVE  pc'[r] \notin {"idle", "lock", "overrides"}
  <2>1. r \notin Saver
    BY SaveRestoreAssumption
  <2>2. ASSUME NEW s \in Saver, NEW to, Go(s, to) PROVE pc'[r] = pc[r]
    BY <1>0, <2>1, <2>2 DEF Go, TypeOK
  <2>3. ASSUME NEW q \in Restorer,
               StartRestore(q) \/ RestoreStep(q) \/ RestoreTimeout(q) \/ RestoreFails(q)
        PROVE  pc'[r] \notin {"idle", "lock", "overrides"}
    BY <1>0, <1>1, <2>3 DEF StartRestore, RestoreStep, RestoreTimeout, RestoreFails,
       HydrateEntities, HydrateOverrides, HydrateProvenance, RestoreUnlock, Go, TypeOK
  <2>4. ASSUME NEW s \in Saver,
               \/ StartLoad(s) \/ ReadPart(s) \/ StartBlind(s) \/ Resubmit(s) \/ Submit(s)
               \/ SaveStep(s) \/ LockTimeout(s) \/ CallbackFails(s) \/ TeardownFails(s)
               \/ SaveDies(s)
        PROVE  pc'[r] = pc[r]
    BY <2>2, <2>4 DEF StartLoad, ReadPart, StartBlind, Resubmit, Submit, SaveStep,
       TakeEntityLock, CheckFingerprint, WritePart, ReturnFingerprint, UnlockEntity,
       UnlockProject, LockTimeout, CallbackFails, TeardownFails, SaveDies
  <2>5. ASSUME GrantLock \/ (\E x \in Process : LoseLocks(x)) \/ UNCHANGED vars
        PROVE  pc'[r] = pc[r]
    BY <2>5 DEF GrantLock, LoseLocks, vars
  <2> QED
    BY <1>1, <2>3, <2>4, <2>5 DEF Next, Process
<1>2. ASSUME NEW s \in Saver
      PROVE  \/ submits'[s] = submits[s] /\ stage'[s] = stage[s]
             \/ submits'[s] = submits[s] /\ stage[s] \in 0 .. 4 /\ stage'[s] = stage[s] + 1
             \/ submits'[s] = submits[s] + 1
  <2>1. ASSUME NEW t \in Saver,
               \/ StartLoad(t) \/ ReadPart(t) \/ StartBlind(t) \/ Resubmit(t)
               \/ TakeEntityLock(t) \/ CheckFingerprint(t) \/ ReturnFingerprint(t)
               \/ UnlockEntity(t) \/ UnlockProject(t)
               \/ LockTimeout(t) \/ CallbackFails(t) \/ TeardownFails(t) \/ SaveDies(t)
        PROVE  UNCHANGED <<submits, stage>>
    BY <2>1 DEF StartLoad, ReadPart, StartBlind, Resubmit,
       TakeEntityLock, CheckFingerprint, ReturnFingerprint, UnlockEntity,
       UnlockProject, LockTimeout, CallbackFails, TeardownFails, SaveDies, editVars
  <2>2. ASSUME NEW t \in Saver, Submit(t)
        PROVE  \/ submits'[s] = submits[s] + 1
               \/ submits'[s] = submits[s] /\ stage'[s] = stage[s]
    BY <1>0, <2>2 DEF Submit, TypeOK
  <2>3. ASSUME NEW t \in Saver, WritePart(t)
        PROVE  /\ submits'[s] = submits[s]
               /\ \/ stage'[s] = stage[s]
                  \/ stage[s] \in 0 .. 4 /\ stage'[s] = stage[s] + 1
    BY <1>0, <2>3 DEF WritePart, TypeInv, Shape, TypeOK, editVars
  <2>4. ASSUME \/ \E r \in Restorer : \/ StartRestore(r) \/ RestoreStep(r)
                                     \/ RestoreTimeout(r) \/ RestoreFails(r)
               \/ \E x \in Process : LoseLocks(x)
               \/ GrantLock
               \/ UNCHANGED vars
        PROVE  UNCHANGED <<submits, stage>>
    BY <2>4 DEF StartRestore, RestoreStep, RestoreTimeout, RestoreFails, HydrateEntities,
       HydrateOverrides, HydrateProvenance, RestoreUnlock, LoseLocks, GrantLock, vars, editVars
  <2> QED
    BY <2>1, <2>2, <2>3, <2>4 DEF Next, SaveStep, Process
<1>3. ASSUME NEW v \in Saver \X (1 .. MaxSubmits) \X {"some", "all"},
             v[2] < submits[v[1]] \/ (v[2] = submits[v[1]] /\ HasWritten(v[1], p, v[3]))
      PROVE  v[2] < submits'[v[1]] \/ (v[2] = submits'[v[1]] /\ HasWritten(v[1], p, v[3])')
  <2>1. v[1] \in Saver /\ v[2] \in Nat /\ submits[v[1]] \in Nat /\ stage[v[1]] \in 0 .. 5
    BY <1>0, SaveRestoreAssumption DEF TypeOK
  <2>2. CASE submits'[v[1]] = submits[v[1]] + 1
    BY <1>3, <2>1, <2>2
  <2>3. CASE submits'[v[1]] = submits[v[1]] /\ stage'[v[1]] \in {stage[v[1]], stage[v[1]] + 1}
    <3>1. 1 .. stage[v[1]] \subseteq 1 .. stage'[v[1]]
      BY <2>1, <2>3
    <3> QED
      BY <1>3, <2>3, <3>1 DEF HasWritten
  <2> QED
    BY <1>2, <2>1, <2>2, <2>3
<1> QED
  BY <1>1, <1>3 DEF Committed

\* What a submission has yet to commit is not committed, and is once it is.
LEMMA MineIsFresh ==
    ASSUME TypeInv, ~Undo, NEW s \in Saver, NEW p \in FpPart, NEW how \in {"some", "all"},
           submits[s] > 0
    PROVE  /\ Mine(s, how) \in Committed(p) => HasWritten(s, p, how)
           /\ UNCHANGED submits /\ HasWritten(s, p, how)' => Mine(s, how) \in Committed(p)'
<1> DEFINE T == Saver \X (1 .. MaxSubmits) \X {"some", "all"}
           v == <<s, submits[s], how>>
<1>1. v \in T /\ v[1] = s /\ v[2] = submits[s] /\ v[3] = how /\ submits[s] \in Nat
  BY SaveRestoreAssumption DEF TypeInv, TypeOK
<1>2. Mine(s, how) = v
  BY DEF Mine
<1>3. v # Initial /\ v \notin Restorer
  BY <1>1, VersionAssumption
<1> HIDE DEF v
<1>4. v \in Committed(p) => HasWritten(s, p, how)
  BY <1>1, <1>3 DEF Committed
<1>5. UNCHANGED submits /\ HasWritten(s, p, how)' => v \in Committed(p)'
  BY <1>1 DEF Committed, HasWritten
<1> QED
  BY <1>2, <1>4, <1>5

\* A fingerprinted part changes only to a version that was never there.
LEMMA ChangesAreFresh ==
    ASSUME TypeInv, ~Undo, [Next]_vars, NEW e \in Entity, NEW p \in FpPart,
           db'[e][p] # db[e][p]
    PROVE  db'[e][p] \in Committed(p)' \ Committed(p)
<1>0. TypeOK /\ p \in Part
  BY DEF TypeInv, Part
<1>1. ASSUME NEW s \in Saver, WritePart(s) PROVE db'[e][p] \in Committed(p)' \ Committed(p)
  <2> DEFINE n == stage[s]
             c == Commits[n + 1]
  <2>1. /\ n \in 0 .. 4 /\ submits[s] > 0 /\ UNCHANGED submits /\ stage'[s] = n + 1
    BY <1>0, <1>1 DEF WritePart, TypeInv, TypeOK, Shape, InFlight, editVars
  <2>2. db' = CASE c[1] = "rows" ->
                       [db EXCEPT ![entity[s]]["rows"] = Mine(s, "all"),
                                  ![entity[s]]["refs"] = Mine(s, "some")]
                [] c[1] = "placements" /\ entity[s] \notin Model -> db
                [] OTHER -> [db EXCEPT ![entity[s]][c[1]] = Mine(s, c[2])]
    BY <1>1 DEF WritePart
  <2>3. n = 0 => c = <<"rows", "all">>
    BY DEF Commits
  <2>4. n = 1 => c = <<"placements", "some">>
    BY DEF Commits
  <2>5. n = 2 => c = <<"placements", "all">>
    BY DEF Commits
  <2>6. n = 3 => c = <<"refs", "all">>
    BY DEF Commits
  <2>7. n = 4 => c = <<"adoptions", "all">>
    BY DEF Commits
  <2> HIDE DEF c
  <2>8. db \in [Entity -> [Part -> Version]]
    BY <1>0 DEF TypeOK
  <2>9. \E how \in {"some", "all"} :
           /\ db'[e][p] = Mine(s, how)
           /\ \/ n = 0 /\ p = "rows" /\ how = "all"
              \/ n = 0 /\ p = "refs" /\ how = "some"
              \/ n = 1 /\ p = "placements" /\ how = "some"
              \/ n = 2 /\ p = "placements" /\ how = "all"
              \/ n = 3 /\ p = "refs" /\ how = "all"
    <3>1. e = entity[s]
      BY <1>0, <2>2, <2>8
    <3>2. CASE n = 0
      <4>1. db' = [db EXCEPT ![e]["rows"] = Mine(s, "all"), ![e]["refs"] = Mine(s, "some")]
        BY <2>2, <2>3, <3>1, <3>2
      <4>2. /\ p \in {"rows", "refs"}
            /\ db'[e][p] = IF p = "rows" THEN Mine(s, "all") ELSE Mine(s, "some")
        BY <1>0, <2>8, <4>1 DEF Part, FpPart
      <4> QED
        BY <3>2, <4>2
    <3>3. CASE n = 1
      <4>1. p = "placements" /\ db'[e][p] = Mine(s, "some")
        BY <1>0, <2>2, <2>4, <2>8, <3>1, <3>3
      <4> QED
        BY <3>3, <4>1
    <3>4. CASE n = 2
      <4>1. p = "placements" /\ db'[e][p] = Mine(s, "all")
        BY <1>0, <2>2, <2>5, <2>8, <3>1, <3>4
      <4> QED
        BY <3>4, <4>1
    <3>5. CASE n = 3
      <4>1. p = "refs" /\ db'[e][p] = Mine(s, "all")
        BY <1>0, <2>2, <2>6, <2>8, <3>1, <3>5
      <4> QED
        BY <3>5, <4>1
    <3>6. CASE n = 4
      <4>1. p = "adoptions"
        BY <1>0, <2>2, <2>7, <2>8, <3>1, <3>6
      <4> QED
        BY <4>1 DEF FpPart
    <3> QED
      BY <2>1, <3>2, <3>3, <3>4, <3>5, <3>6
  <2>10. PICK how \in {"some", "all"} :
           /\ db'[e][p] = Mine(s, how)
           /\ \/ n = 0 /\ p = "rows" /\ how = "all"
              \/ n = 0 /\ p = "refs" /\ how = "some"
              \/ n = 1 /\ p = "placements" /\ how = "some"
              \/ n = 2 /\ p = "placements" /\ how = "all"
              \/ n = 3 /\ p = "refs" /\ how = "all"
    BY <2>9
  <2>11. /\ Commits[1] = <<"rows", "all">> /\ Commits[2] = <<"placements", "some">>
         /\ Commits[3] = <<"placements", "all">> /\ Commits[4] = <<"refs", "all">>
         /\ Commits[5] = <<"adoptions", "all">>
    BY DEF Commits
  <2>12. ~HasWritten(s, p, how)
    BY <2>1, <2>10, <2>11 DEF HasWritten
  <2>13. HasWritten(s, p, how)'
    BY <2>1, <2>10, <2>11 DEF HasWritten
  <2> QED
    BY <2>1, <2>10, <2>12, <2>13, MineIsFresh
<1>2. ASSUME NEW r \in Restorer, HydrateOverrides(r)
      PROVE  db'[e][p] \in Committed(p)' \ Committed(p)
  <2>1. db'[e][p] = r /\ pc[r] = "overrides" /\ pc'[r] = "provenance"
    BY <1>0, <1>2 DEF HydrateOverrides, Go, TypeOK
  <2>2. r # Initial /\ r \notin Saver \X (1 .. MaxSubmits) \X {"some", "all"}
    BY VersionAssumption
  <2> QED
    BY <2>1, <2>2 DEF Committed
<1>3. ASSUME NEW r \in Restorer, HydrateProvenance(r) PROVE FALSE
  BY <1>0, <1>3 DEF HydrateProvenance, TypeOK, FpPart
<1>4. ASSUME \/ \E s \in Saver :
                   \/ StartLoad(s) \/ ReadPart(s) \/ StartBlind(s) \/ Resubmit(s) \/ Submit(s)
                   \/ TakeEntityLock(s) \/ CheckFingerprint(s) \/ ReturnFingerprint(s)
                   \/ UnlockEntity(s) \/ UnlockProject(s) \/ LockTimeout(s)
                   \/ CallbackFails(s) \/ TeardownFails(s) \/ SaveDies(s)
             \/ \E r \in Restorer :
                   \/ StartRestore(r) \/ HydrateEntities(r) \/ RestoreUnlock(r)
                   \/ RestoreTimeout(r) \/ RestoreFails(r)
             \/ \E x \in Process : LoseLocks(x)
             \/ GrantLock
             \/ UNCHANGED vars
      PROVE  UNCHANGED db
  BY <1>4 DEF StartLoad, ReadPart, StartBlind, Resubmit, Submit, TakeEntityLock,
     CheckFingerprint, ReturnFingerprint, UnlockEntity, UnlockProject, LockTimeout,
     CallbackFails, TeardownFails, SaveDies, StartRestore, HydrateEntities, RestoreUnlock,
     RestoreTimeout, RestoreFails, LoseLocks, GrantLock, vars, dbVars
<1> QED
  BY <1>1, <1>2, <1>3, <1>4 DEF Next, SaveStep, RestoreStep, Process

\* What an editor has loaded changes by its own three steps only, and nobody else
\* moves it into a load or out of one.
LEMMA EditorFrame ==
    ASSUME TypeInv, [Next]_vars, NEW s \in Saver,
           ~StartLoad(s), ~ReadPart(s), ~ReturnFingerprint(s)
    PROVE  /\ base'[s] = base[s] /\ seen'[s] = seen[s] /\ reads'[s] = reads[s]
           /\ pc'[s] = pc[s] \/ (pc[s] # "load" /\ pc'[s] \notin {"idle", "load"})
<1>0. TypeOK /\ s \notin Restorer
  BY SaveRestoreAssumption DEF TypeInv
<1>1. ASSUME NEW t \in Saver, t # s, StartLoad(t) \/ ReadPart(t) \/ ReturnFingerprint(t)
      PROVE  base'[s] = base[s] /\ seen'[s] = seen[s] /\ reads'[s] = reads[s] /\ pc'[s] = pc[s]
  BY <1>0, <1>1 DEF StartLoad, ReadPart, ReturnFingerprint, Go, TypeOK
<1>2. ASSUME NEW t \in Saver,
             \/ StartBlind(t) \/ Resubmit(t) \/ Submit(t) \/ TakeEntityLock(t)
             \/ CheckFingerprint(t) \/ WritePart(t) \/ UnlockEntity(t) \/ UnlockProject(t)
             \/ LockTimeout(t) \/ CallbackFails(t) \/ TeardownFails(t) \/ SaveDies(t)
      PROVE  /\ UNCHANGED <<base, seen, reads>>
             /\ pc'[s] = pc[s] \/ (pc[s] # "load" /\ pc'[s] \notin {"idle", "load"})
  <2>1. UNCHANGED <<base, seen, reads>> /\ pc[t] # "load"
    BY <1>2 DEF StartBlind, Resubmit, Submit, TakeEntityLock, CheckFingerprint, InCallback,
       WritePart, UnlockEntity, UnlockProject, LockTimeout, CallbackFails, TeardownFails,
       SaveDies, InFlight, editVars
  <2>2. PICK to : Go(t, to) /\ to \notin {"idle", "load"}
    BY <1>2 DEF StartBlind, Resubmit, Submit, TakeEntityLock, CheckFingerprint,
       WritePart, UnlockEntity, UnlockProject, LockTimeout, CallbackFails, TeardownFails,
       SaveDies
  <2> QED
    BY <1>0, <2>1, <2>2 DEF Go, TypeOK
<1>3. ASSUME NEW r \in Restorer,
             StartRestore(r) \/ RestoreStep(r) \/ RestoreTimeout(r) \/ RestoreFails(r)
      PROVE  UNCHANGED <<base, seen, reads>> /\ pc'[s] = pc[s]
  BY <1>0, <1>3 DEF StartRestore, RestoreStep, RestoreTimeout, RestoreFails, HydrateEntities,
     HydrateOverrides, HydrateProvenance, RestoreUnlock, Go, TypeOK, editVars
<1>4. ASSUME GrantLock \/ (\E x \in Process : LoseLocks(x)) \/ UNCHANGED vars
      PROVE  UNCHANGED <<base, seen, reads, pc>>
  BY <1>4 DEF GrantLock, LoseLocks, vars, editVars
<1> QED
  BY <1>1, <1>2, <1>3, <1>4 DEF Next, SaveStep, Process

\* One read of a load, which reads part p.
LEMMA OneRead ==
    ASSUME TypeInv, Loaded, NEW s \in Saver, ReadPart(s)
    PROVE  \E i \in 1 .. 3 :
              LET p == LoadOrder[i]
                  v == db[entity[s]][p]
              IN /\ v # None
                 /\ \/ /\ i = reads[s] + 1
                       /\ base'[s] = [base[s] EXCEPT ![p] = v] /\ seen'[s] = seen[s]
                       /\ pc'[s] = "load" /\ seen[s][p] = None
                    \/ /\ i = reads[s] - 2
                       /\ seen'[s] = [seen[s] EXCEPT ![p] = v] /\ base'[s] = base[s]
                       /\ pc'[s] = IF i = 3 THEN "ready" ELSE "load"
<1> DEFINE n == reads[s]
           i == IF n < 3 THEN n + 1 ELSE n - 2
           p == LoadOrder[i]
           v == db[entity[s]][p]
<1>0. TypeOK /\ n \in 0 .. 5 /\ i \in 1 .. 3 /\ pc[s] = "load"
  BY DEF TypeInv, TypeOK, Shape, ReadPart
<1>1. p \in FpPart
  BY <1>0 DEF LoadOrder, FpPart
<1>2. v # None
  BY <1>0, <1>1, VersionAssumption DEF TypeOK, Part
<1>3. /\ base' = IF n < 3 THEN [base EXCEPT ![s][p] = v] ELSE base
      /\ seen' = IF n < 3 THEN seen ELSE [seen EXCEPT ![s][p] = v]
      /\ pc' = [pc EXCEPT ![s] = IF n = 5 THEN "ready" ELSE "load"]
  BY DEF ReadPart, Go
<1>4. n < 3 => seen[s][p] = None
  BY <1>0 DEF Loaded
<1> HIDE DEF p, v
<1>5. /\ base'[s] = IF n < 3 THEN [base[s] EXCEPT ![p] = v] ELSE base[s]
      /\ seen'[s] = IF n < 3 THEN seen[s] ELSE [seen[s] EXCEPT ![p] = v]
      /\ pc'[s] = IF n = 5 THEN "ready" ELSE "load"
  BY <1>0, <1>3 DEF TypeOK
<1> HIDE DEF i
<1>6. (n < 3 => i = n + 1) /\ (~(n < 3) => i = n - 2) /\ (n = 5 <=> n - 2 = 3)
  BY <1>0 DEF i
<1> QED
  BY <1>0, <1>2, <1>4, <1>5, <1>6 DEF p, v

\* LoadOrder names every fingerprinted part once.
LEMMA LoadOrderIsOrder ==
    /\ \A i \in 1 .. 3 : LoadOrder[i] \in FpPart
    /\ \A i, j \in 1 .. 3 : LoadOrder[i] = LoadOrder[j] => i = j
    /\ \A p \in FpPart : \E i \in 1 .. 3 : LoadOrder[i] = p
<1>1. LoadOrder[1] = "rows" /\ LoadOrder[2] = "refs" /\ LoadOrder[3] = "placements"
  BY DEF LoadOrder
<1>2. \A i \in 1 .. 3 : i = 1 \/ i = 2 \/ i = 3
  OBVIOUS
<1>3. 1 \in 1 .. 3 /\ 2 \in 1 .. 3 /\ 3 \in 1 .. 3
  OBVIOUS
<1> QED
  BY <1>1, <1>2, <1>3 DEF FpPart

\* A load is tracked by its reads; no other step takes it apart.
LEMMA LoadedStep ==
    ASSUME TypeInv, SaveIsolated, Loaded, [Next]_vars
    PROVE  Loaded'
<1> DEFINE L(s) ==
        /\ pc[s] = "idle" => base[s] = Nothing /\ seen[s] = Nothing
        /\ pc[s] = "load" => \A i \in 1 .. 3 :
              /\ base[s][LoadOrder[i]] # None <=> i <= reads[s]
              /\ seen[s][LoadOrder[i]] # None <=> i + 3 <= reads[s]
        /\ pc[s] # "load" => \/ base[s] = Nothing /\ seen[s] = Nothing
                             \/ \A p \in FpPart : base[s][p] # None /\ seen[s][p] # None
<1> SUFFICES ASSUME NEW s \in Saver PROVE L(s)'
  BY DEF Loaded
<1>0. TypeOK /\ L(s) /\ reads[s] \in 0 .. 6
  BY DEF TypeInv, TypeOK, Loaded
<1>1. CASE StartLoad(s)
  <2>1. /\ base'[s] = Nothing /\ seen'[s] = Nothing /\ reads'[s] = 0 /\ pc'[s] = "load"
    BY <1>0, <1>1 DEF StartLoad, Go, TypeOK
  <2>2. \A i \in 1 .. 3 : Nothing[LoadOrder[i]] = None
    BY LoadOrderIsOrder DEF Nothing
  <2> QED
    BY <2>1, <2>2
<1>2. CASE ReadPart(s)
  <2>0. pc[s] = "load" /\ reads[s] \in 0 .. 5 /\ reads'[s] = reads[s] + 1
    BY <1>0, <1>2 DEF ReadPart, TypeInv, Shape, TypeOK
  <2>a. /\ base[s] \in [FpPart -> Version \cup {None}]
        /\ seen[s] \in [FpPart -> Version \cup {None}]
    BY <1>0 DEF TypeOK
  <2>b. \A i \in 1 .. 3 : /\ base[s][LoadOrder[i]] # None <=> i <= reads[s]
                          /\ seen[s][LoadOrder[i]] # None <=> i + 3 <= reads[s]
    BY <1>0, <2>0
  <2>1. PICK i \in 1 .. 3 :
              LET p == LoadOrder[i]
                  v == db[entity[s]][p]
              IN /\ v # None
                 /\ \/ /\ i = reads[s] + 1
                       /\ base'[s] = [base[s] EXCEPT ![p] = v] /\ seen'[s] = seen[s]
                       /\ pc'[s] = "load" /\ seen[s][p] = None
                    \/ /\ i = reads[s] - 2
                       /\ seen'[s] = [seen[s] EXCEPT ![p] = v] /\ base'[s] = base[s]
                       /\ pc'[s] = IF i = 3 THEN "ready" ELSE "load"
    BY <1>2, OneRead
  <2> DEFINE p == LoadOrder[i]
             v == db[entity[s]][p]
  <2>2. CASE i = reads[s] + 1
    <3>1. /\ base'[s] = [base[s] EXCEPT ![p] = v] /\ seen'[s] = seen[s]
          /\ pc'[s] = "load" /\ v # None
      BY <2>0, <2>1, <2>2
    <3> HIDE DEF v
    <3>2. /\ base'[s][p] = v
          /\ \A j \in 1 .. 3 : j # i => base'[s][LoadOrder[j]] = base[s][LoadOrder[j]]
      BY <2>a, <3>1, LoadOrderIsOrder
    <3>3. ASSUME NEW j \in 1 .. 3
          PROVE  /\ base'[s][LoadOrder[j]] # None <=> j <= reads'[s]
                 /\ seen'[s][LoadOrder[j]] # None <=> j + 3 <= reads'[s]
      <4>1. base'[s][LoadOrder[j]] # None <=> j <= reads'[s]
        <5>1. CASE j = i
          BY <2>0, <2>2, <3>1, <3>2, <5>1
        <5>2. CASE j # i
          <6>1. j <= reads[s] <=> j <= reads'[s]
            BY <2>0, <2>2, <5>2
          <6> QED
            BY <2>b, <3>2, <5>2, <6>1
        <5> QED
          BY <5>1, <5>2
      <4>2. ~(j + 3 <= reads'[s]) /\ ~(j + 3 <= reads[s])
        BY <2>0, <2>2
      <4> QED
        BY <2>b, <3>1, <4>1, <4>2
    <3> QED
      BY <3>1, <3>3
  <2>3. CASE i = reads[s] - 2
    <3>1. /\ seen'[s] = [seen[s] EXCEPT ![p] = v] /\ base'[s] = base[s]
          /\ pc'[s] = IF i = 3 THEN "ready" ELSE "load"
          /\ v # None
      BY <2>0, <2>1, <2>3
    <3> HIDE DEF v
    <3>2. /\ seen'[s][p] = v
          /\ \A j \in 1 .. 3 : j # i => seen'[s][LoadOrder[j]] = seen[s][LoadOrder[j]]
      BY <2>a, <3>1, LoadOrderIsOrder
    <3>3. ASSUME NEW j \in 1 .. 3
          PROVE  /\ base'[s][LoadOrder[j]] # None <=> j <= reads'[s]
                 /\ seen'[s][LoadOrder[j]] # None <=> j + 3 <= reads'[s]
      <4>1. seen'[s][LoadOrder[j]] # None <=> j + 3 <= reads'[s]
        <5>1. CASE j = i
          BY <2>0, <2>3, <3>1, <3>2, <5>1
        <5>2. CASE j # i
          <6>1. j + 3 <= reads[s] <=> j + 3 <= reads'[s]
            BY <2>0, <2>3, <5>2
          <6> QED
            BY <2>b, <3>2, <5>2, <6>1
        <5> QED
          BY <5>1, <5>2
      <4>2. j <= reads'[s] /\ j <= reads[s]
        BY <2>0, <2>3
      <4> QED
        BY <2>b, <3>1, <4>1, <4>2
    <3>4. CASE i = 3
      <4>1. \A j \in 1 .. 3 : j <= reads'[s] /\ j + 3 <= reads'[s]
        BY <2>0, <2>3, <3>4
      <4>2. \A q \in FpPart : base'[s][q] # None /\ seen'[s][q] # None
        BY <3>3, <4>1, LoadOrderIsOrder
      <4> QED
        BY <3>1, <3>4, <4>2
    <3>5. CASE i # 3
      BY <3>1, <3>3, <3>5
    <3> QED
      BY <3>4, <3>5
  <2> QED
    BY <2>1, <2>2, <2>3
<1>3. CASE ReturnFingerprint(s)
  <2>1. base'[s] = Fingerprint(entity[s]) /\ seen'[s] = base'[s] /\ pc'[s] = "unlockEntity"
    BY <1>0, <1>3, OwnAnswer DEF ReturnFingerprint, Go, TypeOK
  <2>2. Fingerprint(entity[s]) \in [FpPart -> Version]
    BY <1>0, FingerprintType DEF TypeOK
  <2> QED
    BY <2>1, <2>2, VersionAssumption
<1>4. CASE ~StartLoad(s) /\ ~ReadPart(s) /\ ~ReturnFingerprint(s)
  BY <1>0, <1>4, EditorFrame
<1> QED
  BY <1>1, <1>2, <1>3, <1>4

\* An entity stays the one its editor opened.
LEMMA EntityFixed == [Next]_vars => UNCHANGED entity
  BY DEF Next, SaveStep, RestoreStep, StartLoad, ReadPart, StartBlind, Resubmit, Submit,
     TakeEntityLock, CheckFingerprint, WritePart, ReturnFingerprint, UnlockEntity,
     UnlockProject, LockTimeout, CallbackFails, TeardownFails, SaveDies, StartRestore,
     HydrateEntities, HydrateOverrides, HydrateProvenance, RestoreUnlock, RestoreTimeout,
     RestoreFails, LoseLocks, GrantLock, vars, editVars

\* What is committed and what a load has witnessed of it.
LEMMA WitnessStep ==
    ASSUME TypeInv, SaveIsolated, Loaded, Past, Witness, ~Undo, [Next]_vars
    PROVE  Past' /\ Witness'
<1>0. TypeOK /\ TypeOK' /\ UNCHANGED entity
  BY NextType, EntityFixed DEF TypeInv
<1>1. ASSUME NEW p \in FpPart, NEW e \in Entity
      PROVE  \/ db'[e][p] = db[e][p]
             \/ db'[e][p] \in Committed(p)' \ (Committed(p) \cup {None})
  <2>1. db'[e][p] \in Version
    BY <1>0 DEF TypeOK, Part
  <2> QED
    BY <2>1, ChangesAreFresh, VersionAssumption
<1>2. ASSUME NEW s \in Saver, NEW p \in FpPart
      PROVE  /\ base'[s][p] \in {base[s][p], db[entity[s]][p], None}
             /\ \/ seen'[s][p] = None
                \/ seen'[s][p] = base'[s][p]
                \/ seen'[s] = seen[s] /\ base'[s] = base[s]
                \/ base'[s][p] = base[s][p] /\ seen'[s][p] = seen[s][p] /\ UNCHANGED db
                \/ seen'[s][p] = db[entity[s]][p] /\ UNCHANGED db
  <2>1. CASE StartLoad(s)
    BY <1>0, <1>2, <2>1 DEF StartLoad, TypeOK, Nothing
  <2>2. CASE ReadPart(s)
    <3>1. PICK i \in 1 .. 3 :
              LET q == LoadOrder[i]
                  v == db[entity[s]][q]
              IN /\ v # None
                 /\ \/ /\ i = reads[s] + 1
                       /\ base'[s] = [base[s] EXCEPT ![q] = v] /\ seen'[s] = seen[s]
                       /\ pc'[s] = "load" /\ seen[s][q] = None
                    \/ /\ i = reads[s] - 2
                       /\ seen'[s] = [seen[s] EXCEPT ![q] = v] /\ base'[s] = base[s]
                       /\ pc'[s] = IF i = 3 THEN "ready" ELSE "load"
      BY <2>2, OneRead
    <3>2. UNCHANGED db
      BY <2>2 DEF ReadPart, dbVars
    <3>3. /\ base[s] \in [FpPart -> Version \cup {None}]
          /\ seen[s] \in [FpPart -> Version \cup {None}]
      BY <1>0 DEF TypeOK
    <3> DEFINE q == LoadOrder[i]
    <3>4. CASE p = q
      BY <1>2, <3>1, <3>2, <3>3, <3>4
    <3>5. CASE p # q
      BY <3>1, <3>2, <3>3, <3>5
    <3> QED
      BY <3>4, <3>5
  <2>3. CASE ReturnFingerprint(s)
    BY <1>0, <2>3, OwnAnswer DEF Fingerprint
  <2>4. CASE ~StartLoad(s) /\ ~ReadPart(s) /\ ~ReturnFingerprint(s)
    BY <2>4, EditorFrame
  <2> QED
    BY <2>1, <2>2, <2>3, <2>4
<1>3. Past'
  <2>1. ASSUME NEW p \in FpPart, NEW e \in Entity PROVE db'[e][p] \in Committed(p)'
    BY <1>1, CommittedGrows DEF Past
  <2>2. ASSUME NEW p \in FpPart, NEW s \in Saver
        PROVE  base'[s][p] \in Committed(p)' \cup {None}
    <3>1. base[s][p] \in Committed(p) \cup {None} /\ db[entity[s]][p] \in Committed(p)
      BY SaverKeys DEF TypeInv, Past
    <3> QED
      BY <1>2, <3>1, CommittedGrows
  <2> QED
    BY <2>1, <2>2 DEF Past
<1>4. Witness'
  <2> SUFFICES ASSUME NEW s \in Saver, NEW p \in FpPart, seen'[s][p] # None,
                      base'[s][p] = db'[entity[s]][p]
               PROVE  seen'[s][p] = base'[s][p]
    BY <1>0 DEF Witness
  <2> DEFINE e == entity[s]
  <2>1. e \in Entity
    BY SaverKeys DEF TypeInv
  <2>2. base[s][p] \in Committed(p) \cup {None} /\ db[e][p] \in Committed(p)
    BY <2>1 DEF Past
  <2>3. base'[s][p] \in Committed(p) \cup {None}
    BY <1>2, <2>2
  <2>4. db'[e][p] = db[e][p]
    BY <1>1, <2>1, <2>3
  <2>5. CASE seen'[s] = seen[s] /\ base'[s] = base[s]
    BY <2>4, <2>5 DEF Witness
  <2>6. CASE base'[s][p] = base[s][p] /\ seen'[s][p] = seen[s][p]
    BY <2>4, <2>6 DEF Witness
  <2> QED
    BY <1>2, <2>4, <2>5, <2>6
<1> QED
  BY <1>3, <1>4

EditInv == SafeInv /\ Loaded /\ Past /\ Witness

\* EditInv is inductive.
LEMMA Editing ==
    ASSUME ~LockLoss, ~Undo
    PROVE  Spec => []EditInv
<1>1. Init => Loaded /\ Past /\ Witness
  BY SaverKeys DEF Init, Loaded, Past, Witness, Nothing, Committed, Part, LoadOrder
<1>2. EditInv /\ [Next]_vars => (Loaded /\ Past /\ Witness)'
  BY LoadedStep, WitnessStep DEF EditInv, SafeInv
<1> QED
  BY <1>1, <1>2, Safety, PTL DEF Spec, EditInv

\* What a save that passed its check is about to replace.
LEMMA Checked ==
    ASSUME EditInv, NEW s \in Saver, pc[s] = "write", stage[s] = 0
    PROVE  \/ Unchecked(s) /\ seen[s] = Nothing
           \/ seen[s] = Fingerprint(entity[s])
<1>1. TypeOK /\ Isolated(s)
  BY DEF EditInv, SafeInv, TypeInv, SaveIsolated
<1>2. CASE base[s] = Nothing /\ seen[s] = Nothing
  BY <1>2 DEF Unchecked
<1>3. CASE ~(base[s] = Nothing /\ seen[s] = Nothing)
  <2>1. \A p \in FpPart : base[s][p] # None /\ seen[s][p] # None
    BY <1>3 DEF EditInv, Loaded
  <2>2. ~Unchecked(s)
    BY <2>1 DEF Unchecked, Nothing, FpPart
  <2>3. \A p \in FpPart : Untouched(p, 0)
    BY DEF Untouched
  <2>4. \A p \in FpPart : db[entity[s]][p] = base[s][p]
    BY <1>1, <2>2, <2>3 DEF Isolated
  <2>5. \A p \in FpPart : seen[s][p] = db[entity[s]][p]
    BY <2>1, <2>4 DEF EditInv, Witness
  <2> QED
    BY <1>1, <2>5 DEF Fingerprint, TypeOK
<1> QED
  BY <1>2, <1>3

\* A save never overwrites content its editor has not seen, whatever other saves
\* and restores commit between the reads of its load and its own check.
THEOREM NothingOverwritten ==
    ASSUME ~LockLoss, ~Undo
    PROVE  Spec => []NoSilentOverwrite
<1>1. EditInv => NoSilentOverwrite
  BY Checked DEF NoSilentOverwrite
<1> QED
  BY <1>1, Editing, PTL

-----------------------------------------------------------------------------
(* The refinement of PatternStore.                                         *)

\* The rows of an entity, and the rows an editor shows.
pats == [e \in Entity |-> db[e]["rows"]]
views == [s \in Saver |-> seen[s]["rows"]]

\* The steps of the editor: opening it forgets, reading the rows of the content
\* looks.
LEMMA EditorStores ==
    ASSUME EditInv, NEW s \in Saver, StartLoad(s) \/ ReadPart(s)
    PROVE  \/ Patterns!Look(s) \/ Patterns!Forget(s)
           \/ UNCHANGED <<pats, views>>
<1> USE SaverKeys
<1>0. TypeOK /\ TypeInv /\ Loaded /\ entity[s] \in Entity
  BY DEF EditInv, SafeInv, TypeInv
<1>1. CASE StartLoad(s)
  <2>1. /\ seen' = [seen EXCEPT ![s] = Nothing] /\ UNCHANGED db
    BY <1>1 DEF StartLoad, dbVars
  <2>2. views' = [views EXCEPT ![s] = None]
    BY <1>0, <2>1 DEF views, Nothing, FpPart, TypeOK
  <2> QED
    BY <2>1, <2>2 DEF Patterns!Forget, views, pats
<1>2. CASE ReadPart(s)
  <2>1. UNCHANGED db /\ \A t \in Saver : t # s => seen'[t] = seen[t]
    BY <1>0, <1>2 DEF ReadPart, TypeOK, dbVars
  <2>2. /\ seen[s] \in [FpPart -> Version \cup {None}]
        /\ seen' \in [Saver -> [FpPart -> Version \cup {None}]]
    BY <1>0, <1>2, NextType DEF TypeOK, TypeInv, Next
  <2>3. seen'[s]["rows"] \in {seen[s]["rows"], db[entity[s]]["rows"]}
    <3>1. PICK i \in 1 .. 3 :
                LET q == LoadOrder[i]
                    v == db[entity[s]][q]
                IN \/ seen'[s] = seen[s]
                   \/ seen'[s] = [seen[s] EXCEPT ![q] = v]
      BY <1>0, <1>2, OneRead
    <3> DEFINE q == LoadOrder[i]
    <3>2. q \in FpPart /\ "rows" \in FpPart
      BY LoadOrderIsOrder DEF FpPart
    <3> HIDE DEF q
    <3>3. seen'[s] = seen[s] \/ seen'[s] = [seen[s] EXCEPT ![q] = db[entity[s]][q]]
      BY <3>1 DEF q
    <3> QED
      BY <2>2, <3>2, <3>3
  <2>4. CASE seen'[s]["rows"] = seen[s]["rows"]
    BY <2>1, <2>4 DEF views, pats
  <2>5. CASE seen'[s]["rows"] = db[entity[s]]["rows"]
    <3>1. views' = [views EXCEPT ![s] = pats[entity[s]]]
      BY <1>0, <2>1, <2>5 DEF views, pats
    <3> QED
      BY <1>0, <2>1, <3>1 DEF Patterns!Look, views, pats
  <2> QED
    BY <2>3, <2>4, <2>5
<1> QED
  BY <1>1, <1>2

\* The first commit of a save is the abstract save; its other commits leave the
\* rows alone.
LEMMA WriteStores ==
    ASSUME EditInv, NEW s \in Saver, WritePart(s)
    PROVE  Patterns!Save(s) \/ UNCHANGED <<pats, views>>
<1> USE SaverKeys
<1> DEFINE e == entity[s]
           n == stage[s]
           c == Commits[n + 1]
<1>0. TypeOK /\ TypeInv /\ e \in Entity /\ n \in 0 .. 4 /\ pc[s] = "write" /\ submits[s] > 0
      /\ UNCHANGED seen
  BY DEF EditInv, SafeInv, TypeInv, TypeOK, Shape, WritePart, InFlight, editVars
<1>1. db' = CASE c[1] = "rows" ->
                     [db EXCEPT ![e]["rows"] = Mine(s, "all"),
                                ![e]["refs"] = Mine(s, "some")]
              [] c[1] = "placements" /\ e \notin Model -> db
              [] OTHER -> [db EXCEPT ![e][c[1]] = Mine(s, c[2])]
  BY DEF WritePart
<1>2. CASE n = 0
  <2>1. c = <<"rows", "all">>
    BY <1>2 DEF Commits
  <2> HIDE DEF c
  <2>2. db' = [db EXCEPT ![e]["rows"] = Mine(s, "all"), ![e]["refs"] = Mine(s, "some")]
    BY <1>1, <2>1
  <2>3. pats' = [pats EXCEPT ![e] = Mine(s, "all")]
    <3>1. "rows" \in Part /\ "refs" \in Part /\ db \in [Entity -> [Part -> Version]]
      BY <1>0 DEF TypeOK, Part, FpPart
    <3>2. \A f \in Entity : db'[f]["rows"] = IF f = e THEN Mine(s, "all") ELSE db[f]["rows"]
      BY <1>0, <2>2, <3>1
    <3> HIDE DEF e
    <3> QED
      BY <1>0, <3>2 DEF pats
  <2>4. Mine(s, "all") \in Version
    BY <1>0, MineType
  <2>5. views[s] \in {None, pats[e]}
    <3>1. Nothing["rows"] = None /\ Fingerprint(e)["rows"] = db[e]["rows"]
      BY DEF Nothing, Fingerprint, FpPart
    <3>2. seen[s] = Nothing \/ seen[s] = Fingerprint(e)
      BY <1>0, <1>2, Checked
    <3> HIDE DEF e
    <3> QED
      BY <1>0, <3>1, <3>2 DEF views, pats
  <2> QED
    BY <1>0, <2>3, <2>4, <2>5 DEF Patterns!Save, views, pats
<1>3. CASE n # 0
  <2>1. c[1] # "rows"
    BY <1>0, <1>3 DEF Commits
  <2> HIDE DEF c
  <2>2. \A f \in Entity : db'[f]["rows"] = db[f]["rows"]
    BY <1>0, <1>1, <2>1 DEF TypeOK, Part, FpPart
  <2> QED
    BY <1>0, <2>2 DEF views, pats
<1> QED
  BY <1>2, <1>3

\* The answer of a save shows its editor what is stored.
LEMMA AnswerStores ==
    ASSUME EditInv, NEW s \in Saver, ReturnFingerprint(s)
    PROVE  Patterns!Look(s)
<1> USE SaverKeys
<1>0. TypeOK /\ TypeInv /\ SaveIsolated /\ entity[s] \in Entity
  BY DEF EditInv, SafeInv, TypeInv
<1>1. seen'[s] = Fingerprint(entity[s]) /\ UNCHANGED db
      /\ \A t \in Saver : t # s => seen'[t] = seen[t]
  BY <1>0, OwnAnswer DEF ReturnFingerprint, dbVars, TypeOK
<1>2. views' = [views EXCEPT ![s] = pats[entity[s]]]
  BY <1>0, <1>1 DEF views, pats, Fingerprint, FpPart
<1> QED
  BY <1>0, <1>1, <1>2 DEF Patterns!Look, views, pats

\* The override transaction of a restore is the abstract restore of its project.
LEMMA HydrateStores ==
    ASSUME EditInv, NEW r \in Restorer, NEW p \in Project, target[r] = p, HydrateOverrides(r)
    PROVE  Patterns!Restore(p)
<1>0. TypeOK /\ r \in Version
  BY DEF EditInv, SafeInv, TypeInv, Version
<1>1. pats' = [e \in Entity |-> IF ProjectOf[e] = p THEN r ELSE pats[e]]
  BY <1>0 DEF HydrateOverrides, EntitiesOf, pats, TypeOK, Part, FpPart
<1>2. UNCHANGED views
  BY DEF HydrateOverrides, editVars, views
<1> QED
  BY <1>0, <1>1, <1>2 DEF Patterns!Restore, views, pats

\* Every step is one of the abstract store or leaves rows and views alone.
LEMMA StoreStep == EditInv /\ [Next]_vars => [Patterns!Next]_(Patterns!patternVars)
<1> SUFFICES ASSUME EditInv, [Next]_vars
             PROVE  Patterns!Next \/ UNCHANGED <<pats, views>>
  BY DEF Patterns!patternVars, pats, views
<1>1. ASSUME NEW s \in Saver,
             StartLoad(s) \/ ReadPart(s) \/ WritePart(s) \/ ReturnFingerprint(s)
      PROVE  Patterns!Next \/ UNCHANGED <<pats, views>>
  BY <1>1, EditorStores, WriteStores, AnswerStores DEF Patterns!Next
<1>2. ASSUME NEW r \in Restorer, HydrateOverrides(r) PROVE Patterns!Next
  <2>1. PICK p \in Project : target[r] = p
    BY RestorerKeys DEF EditInv, SafeInv, TypeInv
  <2>2. Patterns!Restore(p)
    BY <1>2, <2>1, HydrateStores
  <2> QED
    BY <2>2 DEF Patterns!Next
<1>3. ASSUME NEW r \in Restorer, HydrateProvenance(r) PROVE UNCHANGED <<pats, views>>
  BY <1>3 DEF HydrateProvenance, EditInv, SafeInv, TypeInv, TypeOK, Part, FpPart, editVars,
     pats, views
<1>4. ASSUME \/ \E s \in Saver :
                   \/ StartBlind(s) \/ Resubmit(s) \/ Submit(s)
                   \/ TakeEntityLock(s) \/ CheckFingerprint(s)
                   \/ UnlockEntity(s) \/ UnlockProject(s) \/ LockTimeout(s)
                   \/ CallbackFails(s) \/ TeardownFails(s) \/ SaveDies(s)
             \/ \E r \in Restorer :
                   \/ StartRestore(r) \/ HydrateEntities(r) \/ RestoreUnlock(r)
                   \/ RestoreTimeout(r) \/ RestoreFails(r)
             \/ \E x \in Process : LoseLocks(x)
             \/ GrantLock
             \/ UNCHANGED vars
      PROVE  UNCHANGED <<pats, views>>
  <2>1. UNCHANGED <<db, seen>>
    BY <1>4 DEF StartBlind, Resubmit, Submit, TakeEntityLock,
     CheckFingerprint, UnlockEntity, UnlockProject, LockTimeout,
     CallbackFails, TeardownFails, SaveDies, StartRestore, HydrateEntities, RestoreUnlock,
     RestoreTimeout, RestoreFails, LoseLocks, GrantLock, vars, dbVars, editVars
  <2> QED
    BY <2>1 DEF pats, views
<1> QED
  BY <1>1, <1>2, <1>3, <1>4 DEF Next, SaveStep, RestoreStep, Process

\* Locked, multi-commit saves and phased restores implement the compare-and-swap
\* store of PatternStore.
THEOREM ImplementsStore ==
    ASSUME ~LockLoss, ~Undo
    PROVE  Spec => PatternStoreSpec
<1>1. Init => Patterns!Init
  BY DEF Init, Patterns!Init, Nothing, FpPart, Part, Version
<1>2. PatternStoreSpec <=> Patterns!Init /\ [][Patterns!Next]_(Patterns!patternVars)
  BY DEF PatternStoreSpec, Patterns!Spec
<1> QED
  BY <1>1, <1>2, Editing, StoreStep, PTL DEF Spec
=============================================================================
