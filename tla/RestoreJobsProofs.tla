------------------------- MODULE RestoreJobsProofs --------------------------
(***************************************************************************)
(* What the state of a restore job says is true of the database, for any    *)
(* number of projects, jobs, runs and failures: a completed job has restored *)
(* its whole project, the phase of any other is no further than what has     *)
(* been committed, and none is left running.  Runs that come one after the   *)
(* other fail for faults alone, and spare the work of editors.              *)
(***************************************************************************)
EXTENDS RestoreJobs, TLAPS

PhaseNames == {"validate", "vendored", "shell", "entities", "overrides", "provenance"}

RunRecord == [pc : PCs, job : Jobs \cup {None}, target : Projects \cup {None}, phase : PhaseNames,
              todo : SUBSET Projects, done : SUBSET Projects, at : Projects \cup {None}]

\* All parents a project vendors are there.
ParentsThere(p, th) == \A q \in Vendored[p] : "shell" \in th[q]

\* A run knows its place: what its phase takes for granted is in th, what is
\* committed.  Parents that are not there yet are those still to do.
RunOK(x, th) ==
    /\ x.pc # "idle" => x.target \in Projects /\ Before(x.phase) \subseteq th[x.target]
    /\ x.job # None => x.target = TargetOf[x.job]
    /\ x.pc \in {"begin", "validate", "lock"} => x.phase = "validate"
    /\ x.pc = "mark" => x.phase # "validate"
    /\ x.pc \in Parts \cup {"vendored"} => x.phase = x.pc
    /\ x.pc # "idle" /\ x.phase \notin {"validate", "vendored"} => ParentsThere(x.target, th)
    /\ x.pc \in {"vendorShell", "vendorEntities"} =>
         \A q \in Vendored[x.target] \ x.todo : "shell" \in th[q]
    /\ x.pc = "vendorEntities" => x.at \in Projects /\ "shell" \in th[x.at]
    /\ x.pc \in {"vendorNext", "vendorLock", "vendorOverrides", "vendorProvenance", "vendorUnlock"} =>
         ParentsThere(x.target, th)
    /\ x.pc \in {"vendorLock", "vendorOverrides", "vendorProvenance"} => x.at \in Projects
    /\ x.pc = "finish" => th[x.target] = Parts

JobsType == status \in [Jobs -> Statuses \cup {None}]
            /\ phase \in [Jobs -> PhaseNames \cup {None}]
RunsType == run \in [Runners -> RunRecord]
ThereType == there \in [Projects -> SUBSET Parts]
JobsOK == CompletedIsWhole /\ ProgressIsHonest
RunsOK == \A r \in Runners : RunOK(run[r], there)

IInv == JobsType /\ RunsType /\ ThereType /\ JobsOK /\ RunsOK

-----------------------------------------------------------------------------
(* The order of the phases.                                                *)

\* Each phase is followed by the next.
LEMMA Order ==
    /\ After("vendored") = "shell" /\ After("shell") = "entities"
    /\ After("entities") = "overrides" /\ After("overrides") = "provenance"
<1>1. \A i \in 2..6 : i = 2 \/ i = 3 \/ i = 4 \/ i = 5 \/ i = 6
    OBVIOUS
<1>2. Phases[1] = "validate" /\ Phases[2] = "vendored" /\ Phases[3] = "shell"
      /\ Phases[4] = "entities" /\ Phases[5] = "overrides" /\ Phases[6] = "provenance"
    BY DEF Phases
<1>3. (CHOOSE i \in 2..6 : Phases[i-1] = "vendored") = 3
    BY <1>1, <1>2
<1>4. (CHOOSE i \in 2..6 : Phases[i-1] = "shell") = 4
    BY <1>1, <1>2
<1>5. (CHOOSE i \in 2..6 : Phases[i-1] = "entities") = 5
    BY <1>1, <1>2
<1>6. (CHOOSE i \in 2..6 : Phases[i-1] = "overrides") = 6
    BY <1>1, <1>2
<1> QED
    BY <1>2, <1>3, <1>4, <1>5, <1>6 DEF After

-----------------------------------------------------------------------------
(* What a run knows stays true while others commit more.                   *)

Grows == \A p \in Projects : there[p] \subseteq there'[p]

LEMMA RunKeeps ==
    ASSUME RestoreJobsAssumption, IInv, ThereType', Grows, NEW x \in RunRecord, RunOK(x, there)
    PROVE  RunOK(x, there')
<1>1. \A p \in Projects : Vendored[p] \subseteq Projects
    BY DEF RestoreJobsAssumption
<1>2. \A p \in Projects : ParentsThere(p, there) => ParentsThere(p, there')
    BY <1>1 DEF ParentsThere, Grows
<1>3. x.pc # "idle" => x.target \in Projects /\ Before(x.phase) \subseteq there'[x.target]
    BY DEF RunOK, Grows
<1>4. x.pc = "finish" => there'[x.target] = Parts
    BY <1>3 DEF RunOK, Grows, ThereType
<1>5. x.pc \in {"vendorShell", "vendorEntities"} =>
        \A q \in Vendored[x.target] \ x.todo : "shell" \in there'[q]
    BY <1>1, <1>3 DEF RunOK, Grows
<1>6. x.pc = "vendorEntities" => x.at \in Projects /\ "shell" \in there'[x.at]
    BY DEF RunOK, Grows
<1>7. x.pc # "idle" /\ x.phase \notin {"validate", "vendored"} => ParentsThere(x.target, there')
    BY <1>2, <1>3 DEF RunOK
<1>8. x.pc \in {"vendorNext", "vendorLock", "vendorOverrides", "vendorProvenance", "vendorUnlock"} =>
         ParentsThere(x.target, there')
    BY <1>2, <1>3 DEF RunOK
<1> QED
    BY <1>3, <1>4, <1>5, <1>6, <1>7, <1>8 DEF RunOK

\* One run moves on.
LEMMA RunMoves ==
    ASSUME RestoreJobsAssumption, IInv, ThereType', Grows, NEW r \in Runners,
           NEW STATE x, x \in RunRecord, RunOK(x, there'), run' = [run EXCEPT ![r] = x]
    PROVE  RunsType' /\ RunsOK'
<1>1. RunsType'
    BY DEF IInv, RunsType
<1>2. ASSUME NEW q \in Runners PROVE RunOK(run'[q], there')
    <2>1. CASE q = r
        BY <2>1 DEF IInv, RunsType
    <2>2. CASE q # r
        <3>1. run'[q] = run[q] /\ run[q] \in RunRecord /\ RunOK(run[q], there)
            BY <2>2 DEF IInv, RunsType, RunsOK
        <3> QED
            BY <3>1, RunKeeps
    <2> QED
        BY <2>1, <2>2
<1> QED
    BY <1>1, <1>2 DEF RunsOK

\* No run moves.
LEMMA RunsStay ==
    ASSUME RestoreJobsAssumption, IInv, ThereType', Grows, run' = run
    PROVE  RunsType' /\ RunsOK'
<1>1. ASSUME NEW q \in Runners PROVE RunOK(run[q], there')
    <2>1. run[q] \in RunRecord /\ RunOK(run[q], there)
        BY DEF IInv, RunsType, RunsOK
    <2> QED
        BY <2>1, RunKeeps
<1> QED
    BY <1>1 DEF IInv, RunsType, RunsOK

\* What jobs say stays true as well.
LEMMA JobsStay ==
    ASSUME RestoreJobsAssumption, IInv, ThereType', Grows, UNCHANGED jobs
    PROVE  JobsType' /\ JobsOK'
<1>1. \A j \in Jobs : TargetOf[j] \in Projects /\ Vendored[TargetOf[j]] \subseteq Projects
    BY DEF RestoreJobsAssumption
<1>2. CompletedIsWhole'
    <2> SUFFICES ASSUME NEW j \in Jobs, status[j] = "completed"
                 PROVE  there'[TargetOf[j]] = Parts
        BY DEF CompletedIsWhole, jobs
    <2>1. there[TargetOf[j]] = Parts
        BY DEF IInv, JobsOK, CompletedIsWhole
    <2>2. there'[TargetOf[j]] \subseteq Parts /\ there[TargetOf[j]] \subseteq there'[TargetOf[j]]
        BY <1>1 DEF ThereType, Grows
    <2> QED
        BY <2>1, <2>2
<1>3. ProgressIsHonest'
    <2> SUFFICES ASSUME NEW j \in Jobs, status[j] \in {"running", "failed"}
                 PROVE  /\ Before(phase[j]) \subseteq there'[TargetOf[j]]
                        /\ phase[j] \notin {"validate", "vendored"} =>
                             \A q \in Vendored[TargetOf[j]] : "shell" \in there'[q]
        BY DEF ProgressIsHonest, Exists, jobs
    <2>1. /\ Before(phase[j]) \subseteq there[TargetOf[j]]
          /\ phase[j] \notin {"validate", "vendored"} =>
               \A q \in Vendored[TargetOf[j]] : "shell" \in there[q]
        BY DEF IInv, JobsOK, ProgressIsHonest, Exists
    <2> QED
        BY <1>1, <2>1 DEF Grows
<1>4. JobsType'
    BY DEF IInv, JobsType, jobs
<1> QED
    BY <1>2, <1>3, <1>4 DEF JobsOK

\* A run notes in its job where it is, or that it is through.
LEMMA JobSet ==
    ASSUME RestoreJobsAssumption, IInv, there' = there, NEW r \in Runners, run[r].pc # "idle",
           \/ Set(r, "running", run[r].phase)
           \/ Set(r, "failed", run[r].phase)
           \/ Set(r, "completed", None) /\ run[r].pc = "finish"
    PROVE  JobsType' /\ JobsOK'
<1>1. run[r] \in RunRecord /\ RunOK(run[r], there)
    BY DEF IInv, RunsType, RunsOK
<1>2. CASE run[r].job = None
    <2>1. UNCHANGED jobs
        BY <1>2 DEF Set
    <2>2. ThereType' /\ Grows
        BY DEF IInv, ThereType, Grows
    <2> QED
        BY <2>1, <2>2, JobsStay
<1>3. CASE run[r].job # None
    <2> DEFINE j == run[r].job
    <2>1. j \in Jobs /\ run[r].target = TargetOf[j] /\ run[r].phase \in PhaseNames
        BY <1>1, <1>3 DEF RunRecord, RunOK
    <2>2. PICK st \in {"running", "failed", "completed"}, ph \in PhaseNames \cup {None} :
            /\ status' = [status EXCEPT ![j] = st] /\ phase' = [phase EXCEPT ![j] = ph]
            /\ st = "completed" => run[r].pc = "finish"
            /\ st # "completed" => ph = run[r].phase
        BY <1>3, <2>1 DEF Set
    <2>3. JobsType'
        BY <2>1, <2>2 DEF IInv, JobsType, Statuses
    <2>4. CompletedIsWhole'
        BY <1>1, <2>1, <2>2 DEF IInv, JobsType, JobsOK, CompletedIsWhole, RunOK
    <2>5. st # "completed" =>
            /\ Before(ph) \subseteq there[TargetOf[j]]
            /\ ph \notin {"validate", "vendored"} => \A q \in Vendored[TargetOf[j]] : Exists(q)
        BY <1>1, <2>1, <2>2 DEF RunOK, ParentsThere, Exists
    <2>6. ProgressIsHonest'
        BY <2>1, <2>2, <2>5 DEF IInv, JobsType, JobsOK, ProgressIsHonest, Exists
    <2> QED
        BY <2>3, <2>4, <2>6 DEF JobsOK
<1> QED
    BY <1>2, <1>3

-----------------------------------------------------------------------------
(* The steps of a run.                                                     *)

\* A run that has left knows nothing.
LEMMA IdleOK ==
    ASSUME NEW th
    PROVE  Idle \in RunRecord /\ RunOK(Idle, th)
BY DEF Idle, RunRecord, PCs, Parts, PhaseNames, RunOK

\* A run that fails keeps its phase.
LEMMA FailingOK ==
    ASSUME NEW x \in RunRecord, NEW th, RunOK(x, th), x.pc # "idle"
    PROVE  /\ [x EXCEPT !.pc = "failing"] \in RunRecord
           /\ RunOK([x EXCEPT !.pc = "failing"], th)
BY DEF RunRecord, PCs, Parts, RunOK

\* A run leaves.
LEMMA LeaveKeeps ==
    ASSUME RestoreJobsAssumption, IInv, there' = there, NEW r \in Runners, Leave(r)
    PROVE  ThereType' /\ RunsType' /\ RunsOK'
<1>1. ThereType' /\ Grows
    BY DEF IInv, ThereType, Grows
<1>2. RunOK(Idle, there') /\ Idle \in RunRecord /\ run' = [run EXCEPT ![r] = Idle]
    BY IdleOK DEF Leave
<1> QED
    BY <1>1, <1>2, RunMoves

\* A run fails.
LEMMA FailingKeeps ==
    ASSUME RestoreJobsAssumption, IInv, there' = there, NEW r \in Runners, run[r].pc # "idle",
           Goto(r, "failing")
    PROVE  ThereType' /\ RunsType' /\ RunsOK'
<1>1. ThereType' /\ Grows
    BY DEF IInv, ThereType, Grows
<1> DEFINE x == [run[r] EXCEPT !.pc = "failing"]
<1>2. run[r] \in RunRecord /\ RunOK(run[r], there)
    BY DEF IInv, RunsType, RunsOK
<1>3. x \in RunRecord /\ RunOK(x, there')
    BY <1>2, FailingOK
<1>4. run' = [run EXCEPT ![r] = x]
    BY DEF Goto, IInv, RunsType
<1> HIDE DEF x
<1> QED
    BY <1>1, <1>3, <1>4, RunMoves

\* A phase of the project is through: what it commits, the next one takes for
\* granted.
LEMMA AdvanceKeeps ==
    ASSUME RestoreJobsAssumption, IInv, ThereType', Grows, NEW r \in Runners, Advance(r),
           run[r].pc \in Parts \cup {"vendored"},
           run[r].pc \in Parts => run[r].pc \in there'[run[r].target],
           ParentsThere(run[r].target, there')
    PROVE  RunsType' /\ RunsOK'
<1>1. run[r] \in RunRecord /\ RunOK(run[r], there)
    BY DEF IInv, RunsType, RunsOK
<1>2. RunOK(run[r], there')
    BY <1>1, RunKeeps
<1>3. run[r].phase = run[r].pc /\ run[r].target \in Projects
      /\ Before(run[r].pc) \subseteq there'[run[r].target]
    BY <1>2 DEF RunOK, Parts
<1>4. CASE run[r].pc = "provenance"
    <2> DEFINE x == [run[r] EXCEPT !.pc = "finish", !.phase = "provenance"]
    <2>1. run' = [run EXCEPT ![r] = x]
        BY <1>1, <1>3, <1>4 DEF Advance, IInv, RunsType, RunRecord
    <2>2. there'[run[r].target] = Parts
        BY <1>3, <1>4 DEF Before, Parts, ThereType
    <2>3. x \in RunRecord
        BY <1>1 DEF RunRecord, PCs, PhaseNames
    <2>4. RunOK(x, there')
        BY <1>1, <1>2, <1>3, <1>4, <2>2 DEF RunOK, RunRecord, Parts
    <2> HIDE DEF x
    <2> QED
        BY <2>1, <2>3, <2>4, RunMoves
<1>5. CASE run[r].pc # "provenance"
    <2> DEFINE ph == After(run[r].pc)
               x == [run[r] EXCEPT !.pc = "mark", !.phase = ph]
    <2>1. run' = [run EXCEPT ![r] = x]
        BY <1>1, <1>3, <1>5 DEF Advance, IInv, RunsType, RunRecord
    <2>2. ph \in PhaseNames /\ ph # "validate" /\ Before(ph) \subseteq there'[run[r].target]
        <3>1. CASE run[r].pc = "vendored"
            BY <1>3, <3>1, Order DEF Before, PhaseNames
        <3>2. CASE run[r].pc = "shell"
            BY <1>3, <3>2, Order DEF Before, PhaseNames, Parts
        <3>3. CASE run[r].pc = "entities"
            BY <1>3, <3>3, Order DEF Before, PhaseNames, Parts
        <3>4. CASE run[r].pc = "overrides"
            BY <1>3, <3>4, Order DEF Before, PhaseNames, Parts
        <3> QED
            BY <1>5, <3>1, <3>2, <3>3, <3>4 DEF Parts
    <2> HIDE DEF ph
    <2>3. x \in RunRecord
        BY <1>1, <2>2 DEF RunRecord, PCs
    <2>4. x.pc = "mark" /\ x.phase = ph /\ x.target = run[r].target /\ x.job = run[r].job
        BY <1>1 DEF RunRecord
    <2> HIDE DEF x
    <2>5. RunOK(x, there')
        BY <1>2, <1>3, <2>2, <2>4 DEF RunOK, Parts
    <2> QED
        BY <2>1, <2>3, <2>5, RunMoves
<1> QED
    BY <1>4, <1>5

\* A run goes on within a phase, nothing being committed.
LEMMA MoveKeeps ==
    ASSUME RestoreJobsAssumption, IInv, there' = there, NEW r \in Runners,
           NEW STATE x, x \in RunRecord, RunOK(x, there), run' = [run EXCEPT ![r] = x]
    PROVE  ThereType' /\ RunsType' /\ RunsOK'
<1>1. ThereType' /\ Grows
    BY DEF IInv, ThereType, Grows
<1> QED
    BY <1>1, RunMoves

Kept == ThereType' /\ RunsType' /\ RunsOK'

LEMMA StartKeeps ==
    ASSUME RestoreJobsAssumption, IInv, NEW r \in Runners,
           (\E j \in Jobs : StartJob(r, j)) \/ (\E p \in Projects : StartLoad(r, p))
    PROVE  Kept
<1> USE DEF Kept
<1>1. ASSUME NEW j \in Jobs, StartJob(r, j) PROVE Kept
    <2> DEFINE x == [Idle EXCEPT !.pc = "begin", !.job = j, !.target = TargetOf[j]]
    <2>1. run' = [run EXCEPT ![r] = x] /\ there' = there
        BY <1>1 DEF StartJob
    <2>2. x \in RunRecord /\ RunOK(x, there)
        BY DEF Idle, RunRecord, PCs, Parts, PhaseNames, RunOK, Before, RestoreJobsAssumption
    <2> HIDE DEF x
    <2> QED
        BY <2>1, <2>2, MoveKeeps
<1>2. ASSUME NEW p \in Projects, StartLoad(r, p) PROVE Kept
    <2> DEFINE x == [Idle EXCEPT !.pc = "lock", !.target = p]
    <2>1. run' = [run EXCEPT ![r] = x] /\ there' = there
        BY <1>2 DEF StartLoad
    <2>2. x \in RunRecord /\ RunOK(x, there)
        BY DEF Idle, RunRecord, PCs, Parts, PhaseNames, RunOK, Before
    <2> HIDE DEF x
    <2> QED
        BY <2>1, <2>2, MoveKeeps
<1> QED
    BY <1>1, <1>2

\* The steps before the parents are listed.
LEMMA OpeningKeeps ==
    ASSUME RestoreJobsAssumption, IInv, NEW r \in Runners,
           Begin(r) \/ Validate(r) \/ Lock(r) \/ LockTimeout(r) \/ Mark(r)
    PROVE  Kept
<1> USE DEF Kept
<1>1. run[r] \in RunRecord /\ RunOK(run[r], there)
    BY DEF IInv, RunsType, RunsOK
<1>2. CASE Begin(r)
    <2> DEFINE x == [run[r] EXCEPT !.pc = "validate"]
    <2>1. run' = [run EXCEPT ![r] = x] /\ there' = there
        BY <1>2 DEF Begin, Goto, IInv, RunsType
    <2>2. x \in RunRecord /\ RunOK(x, there)
        BY <1>1, <1>2 DEF Begin, RunRecord, PCs, Parts, RunOK
    <2> HIDE DEF x
    <2> QED
        BY <2>1, <2>2, MoveKeeps
<1>3. CASE Validate(r) /\ ~Exists(run[r].target)
    <2> DEFINE x == [run[r] EXCEPT !.pc = "lock"]
    <2>1. run' = [run EXCEPT ![r] = x] /\ there' = there
        BY <1>3 DEF Validate, Goto, IInv, RunsType
    <2>2. x \in RunRecord /\ RunOK(x, there)
        BY <1>1, <1>3 DEF Validate, RunRecord, PCs, Parts, RunOK
    <2> HIDE DEF x
    <2> QED
        BY <2>1, <2>2, MoveKeeps
<1>4. CASE Validate(r) /\ Exists(run[r].target)
    BY <1>4, FailingKeeps DEF Validate
<1>5. CASE Lock(r)
    <2> DEFINE x == [run[r] EXCEPT !.pc = "mark", !.phase = "vendored"]
    <2>1. run' = [run EXCEPT ![r] = x] /\ there' = there
        BY <1>5 DEF Lock, IInv, RunsType
    <2>2. x \in RunRecord
        BY <1>1 DEF RunRecord, PCs, PhaseNames
    <2>3. x.pc = "mark" /\ x.phase = "vendored" /\ x.target = run[r].target /\ x.job = run[r].job
        BY <1>1 DEF RunRecord
    <2> HIDE DEF x
    <2>4. run[r].pc = "lock"
        BY <1>5 DEF Lock
    <2>5. RunOK(x, there)
        BY <1>1, <2>3, <2>4 DEF RunOK, Parts, Before
    <2> QED
        BY <2>1, <2>2, <2>5, MoveKeeps
<1>6. CASE LockTimeout(r)
    BY <1>6, FailingKeeps DEF LockTimeout
<1>7. CASE Mark(r)
    <2> DEFINE x == [run[r] EXCEPT !.pc = run[r].phase]
    <2>1. run' = [run EXCEPT ![r] = x] /\ there' = there
        BY <1>7 DEF Mark, Goto, IInv, RunsType
    <2>2. run[r].pc = "mark" /\ run[r].phase \in Parts \cup {"vendored"}
        BY <1>1, <1>7 DEF Mark, RunOK, RunRecord, PhaseNames, Parts
    <2>3. x \in RunRecord
        BY <1>1, <2>2 DEF RunRecord, PCs, Parts
    <2>4. x.pc = run[r].phase /\ x.phase = run[r].phase /\ x.target = run[r].target
          /\ x.job = run[r].job
        BY <1>1 DEF RunRecord
    <2> HIDE DEF x
    <2>5. RunOK(x, there)
        BY <1>1, <2>2, <2>4 DEF RunOK, Parts
    <2> QED
        BY <2>1, <2>3, <2>5, MoveKeeps
<1> QED
    BY <1>2, <1>3, <1>4, <1>5, <1>6, <1>7

\* The vendored parents: first pass.
LEMMA FirstPassKeeps ==
    ASSUME RestoreJobsAssumption, IInv, NEW r \in Runners,
           ListVendored(r) \/ VendorShell(r) \/ VendorEntities(r)
    PROVE  Kept
<1> USE DEF Kept
<1>1. run[r] \in RunRecord /\ RunOK(run[r], there)
    BY DEF IInv, RunsType, RunsOK
<1> DEFINE t == run[r].target
           missing == {p \in Vendored[t] : ~Exists(p)}
<1>2. run[r].pc # "idle" => t \in Projects /\ Vendored[t] \subseteq Projects
    BY <1>1 DEF RunOK, RestoreJobsAssumption
<1>3. CASE ListVendored(r) /\ missing = {}
    <2>1. ParentsThere(t, there) /\ run[r].pc = "vendored"
        BY <1>3 DEF ListVendored, ParentsThere, Exists
    <2>2. Advance(r) /\ there' = there
        BY <1>3 DEF ListVendored
    <2>3. ThereType' /\ Grows
        BY <2>2 DEF IInv, ThereType, Grows
    <2>4. ParentsThere(t, there') /\ run[r].pc \notin Parts
        BY <2>1, <2>2 DEF Parts
    <2> QED
        BY <2>1, <2>2, <2>3, <2>4, AdvanceKeeps
<1>4. CASE ListVendored(r) /\ missing # {}
    <2> DEFINE x == [run[r] EXCEPT !.pc = "vendorShell", !.todo = missing]
    <2>1. run' = [run EXCEPT ![r] = x] /\ there' = there /\ run[r].pc = "vendored"
        BY <1>4 DEF ListVendored, IInv, RunsType
    <2>2. missing \subseteq Projects /\ \A q \in Vendored[t] \ missing : "shell" \in there[q]
        BY <1>2, <2>1 DEF Exists
    <2> HIDE DEF missing
    <2>3. x \in RunRecord
        BY <1>1, <2>2 DEF RunRecord, PCs
    <2>4. x.pc = "vendorShell" /\ x.phase = run[r].phase /\ x.target = t
          /\ x.job = run[r].job /\ x.todo = missing
        BY <1>1 DEF RunRecord
    <2> HIDE DEF x
    <2>5. RunOK(x, there)
        BY <1>1, <2>1, <2>2, <2>4 DEF RunOK, Parts
    <2> QED
        BY <2>1, <2>3, <2>5, MoveKeeps
<1>5. CASE VendorShell(r)
    <2>1. run[r].pc = "vendorShell"
        BY <1>5 DEF VendorShell
    <2>2. CASE Goto(r, "failing") /\ UNCHANGED there
        BY <2>1, <2>2, FailingKeeps
    <2>3. CASE ~(Goto(r, "failing") /\ UNCHANGED there)
        <3>1. PICK p \in run[r].todo :
                /\ there' = [there EXCEPT ![p] = @ \cup {"shell"}]
                /\ run' = [run EXCEPT ![r].pc = "vendorEntities", ![r].at = p]
            BY <1>5, <2>3 DEF VendorShell
        <3>2. p \in Projects
            BY <1>1 DEF RunRecord
        <3>3. ThereType' /\ Grows
            BY <3>1, <3>2 DEF IInv, ThereType, Grows, Parts
        <3> DEFINE x == [run[r] EXCEPT !.pc = "vendorEntities", !.at = p]
        <3>4. run' = [run EXCEPT ![r] = x]
            BY <3>1 DEF IInv, RunsType
        <3>5. x \in RunRecord
            BY <1>1, <3>2 DEF RunRecord, PCs
        <3>6. x.pc = "vendorEntities" /\ x.phase = run[r].phase /\ x.target = t
              /\ x.job = run[r].job /\ x.todo = run[r].todo /\ x.at = p
            BY <1>1 DEF RunRecord
        <3> HIDE DEF x
        <3>7. RunOK(run[r], there')
            BY <1>1, <3>3, RunKeeps
        <3>8. "shell" \in there'[p]
            BY <3>1, <3>2 DEF IInv, ThereType
        <3>9. RunOK(x, there')
            BY <2>1, <3>2, <3>6, <3>7, <3>8 DEF RunOK, Parts
        <3> QED
            BY <3>3, <3>4, <3>5, <3>9, RunMoves
    <2> QED
        BY <2>2, <2>3
<1>6. CASE VendorEntities(r)
    <2> DEFINE p == run[r].at
               pc == IF run[r].todo = {p} THEN "vendorNext" ELSE "vendorShell"
               x == [run[r] EXCEPT !.todo = @ \ {p}, !.done = @ \cup {p}, !.pc = pc]
    <2>1. run[r].pc = "vendorEntities" /\ there' = [there EXCEPT ![p] = @ \cup {"entities"}]
        BY <1>6 DEF VendorEntities
    <2>2. run' = [run EXCEPT ![r] = x]
        BY <1>6 DEF VendorEntities, IInv, RunsType
    <2>3. p \in Projects /\ "shell" \in there[p]
        BY <1>1, <2>1 DEF RunOK
    <2>4. ThereType' /\ Grows
        BY <2>1, <2>3 DEF IInv, ThereType, Grows, Parts
    <2>5. RunOK(run[r], there')
        BY <1>1, <2>4, RunKeeps
    <2>6. x \in RunRecord
        BY <1>1, <2>3 DEF RunRecord, PCs
    <2>7. x.pc = pc /\ x.phase = run[r].phase /\ x.target = t
          /\ x.job = run[r].job /\ x.todo = run[r].todo \ {p}
        BY <1>1 DEF RunRecord
    <2> HIDE DEF x
    <2>8. \A q \in Vendored[t] \ x.todo : "shell" \in there'[q]
        BY <2>1, <2>3, <2>4, <2>5, <2>7 DEF RunOK, Grows
    <2>9. pc = "vendorNext" => ParentsThere(t, there')
        BY <2>7, <2>8 DEF ParentsThere
    <2>10. RunOK(x, there')
        BY <2>1, <2>5, <2>7, <2>8, <2>9 DEF RunOK, Parts
    <2> QED
        BY <2>2, <2>4, <2>6, <2>10, RunMoves
<1> QED
    BY <1>3, <1>4, <1>5, <1>6

\* The vendored parents: second pass.
LEMMA SecondPassKeeps ==
    ASSUME RestoreJobsAssumption, IInv, NEW r \in Runners,
           VendorNext(r) \/ VendorLock(r) \/ VendorOverrides(r) \/ VendorProvenance(r) \/ VendorUnlock(r)
    PROVE  Kept
<1> USE DEF Kept
<1> DEFINE Second == {"vendorNext", "vendorLock", "vendorOverrides", "vendorProvenance", "vendorUnlock"}
<1>1. run[r] \in RunRecord /\ RunOK(run[r], there)
    BY DEF IInv, RunsType, RunsOK
<1>2. run[r].pc \in Second
    BY DEF VendorNext, VendorLock, VendorOverrides, VendorProvenance, VendorUnlock
<1>3. run[r].target \in Projects /\ ParentsThere(run[r].target, there)
    BY <1>1, <1>2 DEF RunOK
<1>4. CASE VendorNext(r) /\ run[r].done = {}
    <2> DEFINE x == [run[r] EXCEPT !.pc = "mark", !.phase = "shell", !.at = None]
    <2>1. run' = [run EXCEPT ![r] = x] /\ there' = there
        BY <1>4 DEF VendorNext, IInv, RunsType
    <2>2. x \in RunRecord
        BY <1>1 DEF RunRecord, PCs, PhaseNames
    <2>3. x.pc = "mark" /\ x.phase = "shell" /\ x.target = run[r].target /\ x.job = run[r].job
        BY <1>1 DEF RunRecord
    <2> HIDE DEF x
    <2>4. RunOK(x, there)
        BY <1>1, <1>3, <2>3 DEF RunOK, Parts, Before
    <2> QED
        BY <2>1, <2>2, <2>4, MoveKeeps
<1>5. CASE VendorNext(r) /\ run[r].done # {}
    <2>1. PICK p \in run[r].done :
            run' = [run EXCEPT ![r].pc = "vendorLock", ![r].at = p]
        BY <1>5 DEF VendorNext
    <2> DEFINE x == [run[r] EXCEPT !.pc = "vendorLock", !.at = p]
    <2>2. run' = [run EXCEPT ![r] = x] /\ there' = there
        BY <1>5, <2>1 DEF VendorNext, IInv, RunsType
    <2>3. p \in Projects
        BY <1>1 DEF RunRecord
    <2>4. x \in RunRecord
        BY <1>1, <2>3 DEF RunRecord, PCs
    <2>5. x.pc = "vendorLock" /\ x.phase = run[r].phase /\ x.target = run[r].target
          /\ x.job = run[r].job /\ x.at = p
        BY <1>1 DEF RunRecord
    <2> HIDE DEF x
    <2>6. RunOK(x, there)
        BY <1>1, <1>2, <1>3, <2>3, <2>5 DEF RunOK, Parts
    <2> QED
        BY <2>2, <2>4, <2>6, MoveKeeps
<1>6. CASE VendorLock(r)
    <2> DEFINE x == [run[r] EXCEPT !.pc = "vendorOverrides"]
    <2>1. run' = [run EXCEPT ![r] = x] /\ there' = there /\ run[r].pc = "vendorLock"
        BY <1>6 DEF VendorLock, Goto, IInv, RunsType
    <2>2. x \in RunRecord /\ RunOK(x, there)
        BY <1>1, <2>1 DEF RunRecord, PCs, Parts, RunOK
    <2> HIDE DEF x
    <2> QED
        BY <2>1, <2>2, MoveKeeps
<1>7. CASE VendorOverrides(r) /\ ~Resolves(run[r].at)
    BY <1>2, <1>7, FailingKeeps DEF VendorOverrides
<1>8. ASSUME NEW part \in Parts, NEW pc \in Second, pc \notin {"vendorLock", "vendorOverrides"},
             Hydrate(run[r].at, part), Goto(r, pc), run[r].pc \in {"vendorOverrides", "vendorProvenance"}
      PROVE  Kept
    <2>1. run[r].at \in Projects
        BY <1>1, <1>8 DEF RunOK
    <2>2. ThereType' /\ Grows
        BY <1>8, <2>1 DEF Hydrate, IInv, ThereType, Grows
    <2> DEFINE x == [run[r] EXCEPT !.pc = pc]
    <2>3. run' = [run EXCEPT ![r] = x]
        BY <1>8 DEF Goto, IInv, RunsType
    <2>4. RunOK(run[r], there')
        BY <1>1, <2>2, RunKeeps
    <2>5. x \in RunRecord
        BY <1>1 DEF RunRecord, PCs
    <2>6. x.pc = pc /\ x.phase = run[r].phase /\ x.target = run[r].target
          /\ x.job = run[r].job /\ x.at = run[r].at
        BY <1>1 DEF RunRecord
    <2> HIDE DEF x
    <2>7. RunOK(x, there')
        BY <1>2, <1>8, <2>1, <2>4, <2>6 DEF RunOK, Parts
    <2> QED
        BY <2>2, <2>3, <2>5, <2>7, RunMoves
<1>9. CASE VendorOverrides(r) /\ Resolves(run[r].at)
    BY <1>8, <1>9 DEF VendorOverrides, Parts
<1>10. CASE VendorProvenance(r)
    BY <1>8, <1>10 DEF VendorProvenance, Parts
<1>11. CASE VendorUnlock(r)
    <2> DEFINE x == [run[r] EXCEPT !.pc = "vendorNext", !.done = @ \ {run[r].at}]
    <2>1. run' = [run EXCEPT ![r] = x] /\ there' = there
        BY <1>11 DEF VendorUnlock, IInv, RunsType
    <2>2. x \in RunRecord
        BY <1>1 DEF RunRecord, PCs
    <2>3. x.pc = "vendorNext" /\ x.phase = run[r].phase /\ x.target = run[r].target
          /\ x.job = run[r].job
        BY <1>1 DEF RunRecord
    <2> HIDE DEF x
    <2>4. RunOK(x, there)
        BY <1>1, <1>2, <1>3, <2>3 DEF RunOK, Parts
    <2> QED
        BY <2>1, <2>2, <2>4, MoveKeeps
<1> QED
    BY <1>4, <1>5, <1>6, <1>7, <1>9, <1>10, <1>11

\* The phases of the project itself.
LEMMA PhasesKeep ==
    ASSUME RestoreJobsAssumption, IInv, NEW r \in Runners,
           ShellAndEntities(r) \/ Overrides(r) \/ Provenance(r)
    PROVE  Kept
<1> USE DEF Kept
<1> DEFINE t == run[r].target
<1>1. run[r] \in RunRecord /\ RunOK(run[r], there)
    BY DEF IInv, RunsType, RunsOK
<1>2. run[r].pc \in Parts
    BY DEF ShellAndEntities, Overrides, Provenance, Parts
<1>3. CASE Goto(r, "failing") /\ UNCHANGED there
    BY <1>2, <1>3, FailingKeeps DEF Parts
<1>4. CASE Hydrate(t, run[r].pc) /\ Advance(r)
    <2>1. t \in Projects /\ run[r].phase = run[r].pc /\ ParentsThere(t, there)
        BY <1>1, <1>2 DEF RunOK, Parts
    <2>2. ThereType' /\ Grows /\ run[r].pc \in there'[t]
        BY <1>2, <1>4, <2>1 DEF Hydrate, IInv, ThereType, Grows
    <2>3. Vendored[t] \subseteq Projects
        BY <2>1 DEF RestoreJobsAssumption
    <2>4. ParentsThere(t, there')
        BY <2>1, <2>2, <2>3 DEF ParentsThere, Grows
    <2> QED
        BY <1>2, <1>4, <2>2, <2>4, AdvanceKeeps
<1> QED
    BY <1>3, <1>4 DEF ShellAndEntities, Overrides, Provenance

-----------------------------------------------------------------------------
(* The invariant.                                                          *)

LEMMA InitOK == RestoreJobsAssumption /\ Init => IInv
<1> SUFFICES ASSUME RestoreJobsAssumption, Init PROVE IInv
    OBVIOUS
<1>1. JobsType /\ ThereType
    BY DEF Init, JobsType, ThereType
<1>2. RunsType /\ RunsOK
    BY IdleOK DEF Init, RunsType, RunsOK
<1>3. JobsOK
    BY DEF Init, JobsOK, CompletedIsWhole, ProgressIsHonest, RestoreJobsAssumption, Statuses
<1> QED
    BY <1>1, <1>2, <1>3 DEF IInv

LEMMA NextOK == RestoreJobsAssumption /\ IInv /\ [Next]_vars => IInv'
<1> SUFFICES ASSUME RestoreJobsAssumption, IInv, [Next]_vars PROVE IInv'
    OBVIOUS
<1>1. ASSUME there' = there, run' = run PROVE Kept
    <2>1. ThereType' /\ Grows
        BY <1>1 DEF IInv, ThereType, Grows
    <2> QED
        BY <1>1, <2>1, RunsStay DEF Kept
<1>2. ASSUME Kept, Grows, UNCHANGED jobs PROVE IInv'
    BY <1>2, JobsStay DEF Kept, IInv
<1>3. CASE UNCHANGED vars
    <2>1. Grows
        BY <1>3 DEF vars, IInv, Grows
    <2> QED
        BY <1>1, <1>2, <1>3, <2>1 DEF vars, jobs
<1>4. ASSUME NEW j \in Jobs, CreateJob(j) PROVE IInv'
    <2>1. Kept
        BY <1>1, <1>4 DEF CreateJob
    <2>2. JobsType'
        BY <1>4 DEF CreateJob, IInv, JobsType, Statuses
    <2>3. status' = [status EXCEPT ![j] = "pending"] /\ phase' = phase /\ there' = there
        BY <1>4 DEF CreateJob
    <2>4. CompletedIsWhole' /\ ProgressIsHonest'
        BY <2>3 DEF IInv, JobsType, JobsOK, CompletedIsWhole, ProgressIsHonest, Exists
    <2> QED
        BY <2>1, <2>2, <2>4 DEF Kept, IInv, JobsOK
<1>5. ASSUME NEW p \in Edited, Edit(p) \/ CreateEntity(p) PROVE IInv'
    <2>1. there' = there /\ run' = run /\ UNCHANGED jobs
        BY <1>5 DEF Edit, CreateEntity
    <2>2. Grows
        BY <2>1 DEF Grows
    <2> QED
        BY <1>1, <1>2, <2>1, <2>2
<1> DEFINE Quietly(r) == there' = there /\ Leave(r)
<1>6. ASSUME NEW r \in Runners PROVE
        /\ Quietly(r) => Kept
        /\ there' = there /\ run[r].pc # "idle" /\ Goto(r, "failing") => Kept
    BY LeaveKeeps, FailingKeeps DEF Kept
<1>7. ASSUME NEW r \in Runners,
             \/ \E j \in Jobs : StartJob(r, j)
             \/ \E p \in Projects : StartLoad(r, p)
             \/ Fails(r) \/ Dies(r)
      PROVE  IInv'
    <2>1. there' = there /\ UNCHANGED jobs
        BY <1>7 DEF StartJob, StartLoad, Fails, Dies
    <2>2. Kept
        <3>1. CASE Fails(r) \/ Dies(r)
            BY <1>6, <2>1, <3>1 DEF Fails, Dies
        <3>2. CASE ~(Fails(r) \/ Dies(r))
            BY <1>7, <3>2, StartKeeps
        <3> QED
            BY <3>1, <3>2
    <2>3. Grows
        BY <2>1 DEF Grows
    <2> QED
        BY <1>2, <2>1, <2>2, <2>3
<1>8. ASSUME NEW r \in Runners, Begin(r) \/ Mark(r) \/ Finish(r) \/ FailJob(r) PROVE IInv'
    <2>1. there' = there
        BY <1>8 DEF Begin, Mark, Finish, FailJob
    <2>2. Kept
        <3>1. CASE Begin(r) \/ Mark(r)
            BY <3>1, OpeningKeeps
        <3>2. CASE Finish(r) \/ FailJob(r)
            BY <1>6, <2>1, <3>2 DEF Finish, FailJob
        <3> QED
            BY <1>8, <3>1, <3>2
    <2>3. run[r].pc = "begin" => run[r].phase = "validate"
        BY DEF IInv, RunsOK, RunOK
    <2>4. \/ Set(r, "running", run[r].phase)
          \/ Set(r, "failed", run[r].phase)
          \/ Set(r, "completed", None) /\ run[r].pc = "finish"
        BY <1>8, <2>3 DEF Begin, Mark, Finish, FailJob
    <2>5. run[r].pc # "idle"
        BY <1>8 DEF Begin, Mark, Finish, FailJob
    <2> QED
        BY <2>1, <2>2, <2>4, <2>5, JobSet DEF Kept, IInv
<1>9. ASSUME NEW r \in Runners, Step(r), ~(Begin(r) \/ Mark(r) \/ Finish(r) \/ FailJob(r)) PROVE IInv'
    <2>1. Kept
        BY <1>9, OpeningKeeps, FirstPassKeeps, SecondPassKeeps, PhasesKeep DEF Step
    <2>2. UNCHANGED jobs
        BY <1>9 DEF Step, Validate, Lock, LockTimeout, ListVendored, VendorShell, VendorEntities,
                    VendorNext, VendorLock, VendorOverrides, VendorProvenance, VendorUnlock,
                    ShellAndEntities, Overrides, Provenance
    <2>3. Grows
        <3>1. run[r] \in RunRecord /\ RunOK(run[r], there)
            BY DEF IInv, RunsType, RunsOK
        <3>2. \/ there' = there
              \/ \E p \in Projects, part \in Parts : there' = [there EXCEPT ![p] = @ \cup {part}]
            BY <1>9, <3>1 DEF Step, Validate, Lock, LockTimeout, ListVendored, VendorShell,
                    VendorEntities, VendorNext, VendorLock, VendorOverrides, VendorProvenance,
                    VendorUnlock, ShellAndEntities, Overrides, Provenance, Hydrate, Parts,
                    RunRecord, RunOK
        <3> QED
            BY <3>2 DEF Grows, IInv, ThereType
    <2> QED
        BY <1>2, <2>1, <2>2, <2>3
<1> QED
    BY <1>3, <1>4, <1>5, <1>7, <1>8, <1>9 DEF Next

\* A completed job has restored every part of its project, whatever other runs, of
\* the same job too, did meanwhile, and whatever failed (Run of
\* gitrestoreadmin/service.go).
THEOREM Whole ==
    ASSUME RestoreJobsAssumption
    PROVE  Spec => []CompletedIsWhole
<1>1. IInv => CompletedIsWhole
    BY DEF IInv, JobsOK
<1> QED
    BY <1>1, InitOK, NextOK, PTL DEF Spec

\* The phase that a job shows is no further than its project: what comes before it
\* is committed, the parents of the project first (UpdateState of
\* gitrestoreadmin/store.go).
THEOREM Progress ==
    ASSUME RestoreJobsAssumption
    PROVE  Spec => []ProgressIsHonest
<1>1. IInv => ProgressIsHonest
    BY DEF IInv, JobsOK
<1> QED
    BY <1>1, InitOK, NextOK, PTL DEF Spec

-----------------------------------------------------------------------------
(* Runs one after the other.                                               *)

\* Where a run restores the parents, and where it holds the lock of its project
\* or of one of the parents.
Vending == {"vendorShell", "vendorEntities", "vendorNext", "vendorLock", "vendorOverrides",
            "vendorProvenance", "vendorUnlock"}
InLock == Vending \cup Parts \cup {"mark", "vendored", "finish"}
InVendorLock == {"vendorOverrides", "vendorProvenance", "vendorUnlock"}

\* What a run is about to restore are parents of its project; it holds the locks
\* of what it works on, and a job's project has no work of editors in it.
PlaceOK(r, x) ==
    /\ x.pc # "idle" => x.todo \cup x.done \subseteq Vendored[x.target]
    /\ x.pc \in Vending =>
         /\ x.phase = "vendored"
         /\ x.pc \notin {"vendorShell", "vendorNext"} => x.at \in Vendored[x.target]
    /\ x.pc = "finish" => x.phase = "provenance"
    /\ x.pc \in InLock => lock[x.target] = r
    /\ x.pc \in InVendorLock => lock[x.at] = r
    /\ serial /\ x.job # None /\ x.pc = "lock" => ~Exists(x.target)
    /\ serial /\ x.job # None /\ x.pc \in InLock => x.target \notin work

PlacesOK == \A r \in Runners : PlaceOK(r, run[r])

\* A run that is gone holds no lock.
LocksOK ==
    /\ lock \in [Projects -> Runners \cup {None}]
    /\ \A p \in Projects, r \in Runners : lock[p] = r => run[r].pc # "idle"

Alone == serial => \A q, r \in Runners : run[q].pc # "idle" /\ run[r].pc # "idle" => q = r

\* Editors work where entities are, and entities where the project is.
WorkOK ==
    /\ \A p \in work : p \in Projects /\ "entities" \in there[p]
    /\ \A p \in Projects : "entities" \in there[p] => "shell" \in there[p]

\* As long as nothing fails, what has been begun is gone through with: a project
\* without its entities has a run that is about to restore them.
Fills(x, p) ==
    \/ x.pc = "vendorEntities" /\ x.at = p
    \/ x.pc # "idle" /\ x.phase = "entities" /\ x.target = p
Filled ==
    serial /\ faults = 0 =>
        \A p \in Projects : "shell" \in there[p] =>
            "entities" \in there[p] \/ \E r \in Runners : Fills(run[r], p)

\* A job that is running has a run.
Settling ==
    faults = 0 => \A j \in Jobs : status[j] = "running" =>
        \E r \in Runners : run[r].pc # "idle" /\ run[r].job = j

BoundsOK == faults \in Nat /\ serial \in BOOLEAN

SerialInv == BoundsOK /\ LocksOK /\ Alone /\ WorkOK /\ Filled /\ OnlyFaultsFail /\ PlacesOK

-----------------------------------------------------------------------------
(* What a step of a run changes.                                           *)

\* The records of runs.
LEMMA RunIs ==
    ASSUME IInv, NEW r \in Runners
    PROVE  /\ run \in [Runners -> RunRecord]
           /\ run[r] \in RunRecord /\ RunOK(run[r], there)
           /\ run[r].pc # "idle" => run[r].target \in Projects
BY DEF IInv, RunsType, RunsOK, RunOK

\* A run goes on, as x, and nothing else about the runs changes.
Moves(r, x) ==
    /\ run' = [run EXCEPT ![r] = x]
    /\ run[r].pc # "idle" /\ x.pc # "idle" /\ x.job = run[r].job /\ x.target = run[r].target
    /\ UNCHANGED <<faults, serial>>

\* Its next step is pc.
LEMMA GotoMoves ==
    ASSUME IInv, NEW r \in Runners, NEW y, y = run[r], NEW pc, pc # "idle", Goto(r, pc),
           y.pc # "idle", UNCHANGED <<faults, serial>>
    PROVE  Moves(r, [y EXCEPT !.pc = pc])
BY RunIs DEF Goto, Moves, RunRecord

\* It takes or gives back one lock at most.
Took(r) ==
    \/ lock' = lock
    \/ \E p \in Projects, v \in {r, None} :
         lock[p] \in {r, None} /\ lock' = [lock EXCEPT ![p] = v]

\* It goes on with the entities that it was to restore.
FillOK(y, x) ==
    serial /\ faults = 0 => \A p \in Projects :
        "shell" \in there'[p] /\ "entities" \notin there'[p] =>
            Fills(x, p) \/ ("shell" \in there[p] /\ ~Fills(y, p))

\* It fails for what is there only.
FailOK(x) == serial /\ faults = 0 /\ x.pc = "failing" => x.phase = "validate"

\* Others are where they were.
LEMMA OthersStay ==
    ASSUME RestoreJobsAssumption, IInv, SerialInv, NEW r \in Runners, NEW q \in Runners, q # r,
           serial => run[q].pc = "idle", serial' = serial, run'[q] = run[q],
           \A p \in Projects : lock[p] = q => lock'[p] = q,
           work' \subseteq work
    PROVE  PlaceOK(q, run[q])'
<1>0. PICK x : x = run[q]
    OBVIOUS
<1>1. PlaceOK(q, x) /\ (x.pc # "idle" => x.target \in Projects)
    BY <1>0, RunIs DEF SerialInv, PlacesOK
<1>2. serial => x.pc = "idle"
    BY <1>0
<1>3. x.pc \in InLock \cup InVendorLock => x.pc # "idle"
    BY DEF InLock, InVendorLock, Vending, Parts
<1>4. x.pc \in InVendorLock => x.at \in Projects
    <2>1. x.pc \in InVendorLock => x.pc \in Vending /\ x.pc \notin {"vendorShell", "vendorNext"}
        BY DEF InVendorLock, Vending
    <2>2. x.pc \in InVendorLock => Vendored[x.target] \subseteq Projects
        BY <1>1, <1>3 DEF RestoreJobsAssumption
    <2> QED
        BY <1>1, <2>1, <2>2 DEF PlaceOK
<1>5. run'[q] = x
    BY <1>0
<1>6. PlaceOK(q, x)'
    BY <1>1, <1>2, <1>3, <1>4 DEF PlaceOK
<1> QED
    BY <1>5, <1>6 DEF PlaceOK

\* A run goes on, and what each step must give.
LEMMA StepDone ==
    ASSUME RestoreJobsAssumption, IInv, SerialInv, NEW r \in Runners,
           NEW x \in RunRecord, Moves(r, x), Took(r), PlaceOK(r, x)', FailOK(x),
           NEW y, y = run[r], FillOK(y, x), work' \subseteq work, WorkOK', Grows, ThereType'
    PROVE  SerialInv'
<1>1. /\ run \in [Runners -> RunRecord] /\ run'[r] = x
      /\ \A q \in Runners : q # r => run'[q] = run[q]
    BY RunIs DEF Moves
<1>2. BoundsOK' /\ serial' = serial /\ faults' = faults /\ run[r].pc # "idle" /\ x.pc # "idle"
    BY DEF Moves, SerialInv, BoundsOK
<1>3. /\ lock \in [Projects -> Runners \cup {None}]
      /\ \A p \in Projects, q \in Runners : lock[p] = q => run[q].pc # "idle"
      /\ None \notin Runners
    BY DEF SerialInv, LocksOK, RestoreJobsAssumption
<1>4. /\ lock' \in [Projects -> Runners \cup {None}]
      /\ \A p \in Projects : lock'[p] = lock[p] \/ (lock[p] \in {r, None} /\ lock'[p] \in {r, None})
    BY <1>3 DEF Took
<1>5. LocksOK'
    <2>1. ASSUME NEW p \in Projects, NEW q \in Runners, lock'[p] = q
          PROVE  run'[q].pc # "idle"
        <3>1. CASE q = r
            BY <1>1, <1>2, <3>1
        <3>2. CASE q # r
            BY <1>1, <1>3, <1>4, <2>1, <3>2
        <3> QED
            BY <3>1, <3>2
    <2> QED
        BY <1>4, <2>1 DEF LocksOK
<1>6. Alone'
    BY <1>1, <1>2 DEF SerialInv, Alone
<1>7. PlacesOK'
    <2>1. ASSUME NEW q \in Runners
          PROVE  PlaceOK(q, run[q])'
        <3>1. CASE q = r
            BY <1>1, <3>1 DEF PlaceOK
        <3>2. CASE q # r
            <4>1. \A p \in Projects : lock[p] = q => lock'[p] = q
                BY <1>3, <1>4, <3>2
            <4>2. serial => run[q].pc = "idle"
                BY <1>2, <3>2 DEF SerialInv, Alone
            <4> QED
                BY <1>1, <1>2, <3>2, <4>1, <4>2, OthersStay
        <3> QED
            BY <3>1, <3>2
    <2> QED
        BY <2>1 DEF PlacesOK
<1>8. OnlyFaultsFail'
    <2>1. ASSUME NEW q \in Runners, serial, faults = 0, run'[q].pc = "failing"
          PROVE  run'[q].phase = "validate"
        <3>1. CASE q = r
            BY <1>1, <2>1, <3>1 DEF FailOK
        <3>2. CASE q # r
            BY <1>1, <2>1, <3>2 DEF SerialInv, OnlyFaultsFail
        <3> QED
            BY <3>1, <3>2
    <2> QED
        BY <1>2, <2>1 DEF OnlyFaultsFail
<1>9. Filled'
    <2> SUFFICES ASSUME serial, faults = 0, NEW p \in Projects, "shell" \in there'[p],
                        "entities" \notin there'[p]
                 PROVE  \E q \in Runners : Fills(run'[q], p)
        BY <1>2 DEF Filled, Fills
    <2>1. CASE Fills(x, p)
        BY <1>1, <2>1
    <2>2. CASE ~Fills(x, p)
        <3>1. "shell" \in there[p] /\ ~Fills(y, p) /\ "entities" \notin there[p]
            BY <2>2 DEF FillOK, Grows
        <3>2. PICK q \in Runners : Fills(run[q], p)
            BY <3>1 DEF SerialInv, Filled
        <3>3. q # r
            BY <3>1, <3>2
        <3> QED
            BY <1>1, <3>2, <3>3
    <2> QED
        BY <2>1, <2>2
<1> QED
    BY <1>2, <1>5, <1>6, <1>7, <1>8, <1>9 DEF SerialInv

\* A run goes on and commits nothing.
LEMMA GoesOn ==
    ASSUME RestoreJobsAssumption, IInv, SerialInv, NEW r \in Runners,
           NEW x \in RunRecord, Moves(r, x), Took(r), PlaceOK(r, x)', FailOK(x),
           NEW y, y = run[r], serial /\ faults = 0 => \A p \in Projects : Fills(y, p) => Fills(x, p),
           there' = there, work' = work
    PROVE  SerialInv'
<1>1. ThereType' /\ Grows /\ WorkOK'
    BY DEF IInv, ThereType, Grows, SerialInv, WorkOK
<1>2. FillOK(y, x)
    BY DEF FillOK
<1> QED
    BY <1>1, <1>2, StepDone

\* A run commits a part of a project.
LEMMA PartDone ==
    ASSUME IInv, SerialInv, NEW p \in Projects, NEW part \in Parts,
           there' = [there EXCEPT ![p] = @ \cup {part}], work' \subseteq work,
           part = "entities" => "shell" \in there[p]
    PROVE  /\ WorkOK' /\ Grows /\ ThereType' /\ part \in there'[p]
           /\ \A q \in Projects : "shell" \in there'[q] => "shell" \in there[q] \/ (part = "shell" /\ q = p)
<1>1. there \in [Projects -> SUBSET Parts]
    BY DEF IInv, ThereType
<1>2. \A q \in Projects : there'[q] = IF q = p THEN there[q] \cup {part} ELSE there[q]
    BY <1>1
<1>3. ThereType' /\ Grows /\ part \in there'[p]
    BY <1>1, <1>2 DEF ThereType, Grows
<1>4. WorkOK'
    BY <1>2 DEF SerialInv, WorkOK
<1>5. \A q \in Projects : "shell" \in there'[q] => "shell" \in there[q] \/ (part = "shell" /\ q = p)
    BY <1>2
<1> QED
    BY <1>3, <1>4, <1>5

\* A run fails, for what is there or for a fault, or because others are about.
LEMMA FailingSerial ==
    ASSUME RestoreJobsAssumption, IInv, SerialInv, NEW r \in Runners, run[r].pc # "idle",
           Goto(r, "failing"), UNCHANGED <<there, work, lock, bounds>>,
           serial /\ faults = 0 => run[r].phase = "validate" /\ run[r].pc # "vendorEntities"
    PROVE  SerialInv'
<1>1. PICK y : y = run[r]
    OBVIOUS
<1>2. y \in RunRecord /\ PlaceOK(r, y)
    BY <1>1, RunIs DEF SerialInv, PlacesOK
<1>3. PICK x : x = [y EXCEPT !.pc = "failing"]
    OBVIOUS
<1>4. /\ x \in RunRecord /\ x.pc = "failing" /\ x.phase = y.phase /\ x.target = y.target
      /\ x.todo = y.todo /\ x.done = y.done
    BY <1>2, <1>3 DEF RunRecord, PCs
<1>5. Moves(r, x)
    BY <1>1, <1>3, GotoMoves DEF bounds
<1>6. PlaceOK(r, x)'
    BY <1>1, <1>2, <1>4 DEF PlaceOK, InLock, InVendorLock, Vending, Parts
<1>7. /\ FailOK(x) /\ Took(r)
      /\ serial /\ faults = 0 => \A p \in Projects : Fills(y, p) => Fills(x, p)
    BY <1>1, <1>4 DEF FailOK, Took, Fills
<1> QED
    BY <1>1, <1>4, <1>5, <1>6, <1>7, GoesOn

\* The steps before the parents are listed.
LEMMA OpeningSerial ==
    ASSUME RestoreJobsAssumption, IInv, SerialInv, NEW r \in Runners,
           Begin(r) \/ Validate(r) \/ Lock(r) \/ LockTimeout(r) \/ Mark(r)
    PROVE  SerialInv'
<1>0. PICK y : y = run[r]
    OBVIOUS
<1>1. y \in RunRecord /\ RunOK(y, there) /\ PlaceOK(r, y) /\ (y.pc # "idle" => y.target \in Projects)
    BY <1>0, RunIs DEF SerialInv, PlacesOK
<1>2. CASE Begin(r)
    <2>1. PICK x : x = [y EXCEPT !.pc = "validate"]
        OBVIOUS
    <2>2. /\ x \in RunRecord /\ x.pc = "validate" /\ x.phase = y.phase /\ x.target = y.target
          /\ x.todo = y.todo /\ x.done = y.done
        BY <1>1, <2>1 DEF RunRecord, PCs
    <2>3. y.pc = "begin" /\ y.phase = "validate" /\ there' = there /\ work' = work /\ lock' = lock
        BY <1>0, <1>1, <1>2 DEF Begin, RunOK
    <2>4. Moves(r, x)
        BY <1>0, <1>1, <1>2, <2>1, GotoMoves DEF Begin, Moves, RunRecord, bounds
    <2>5. PlaceOK(r, x)'
        BY <1>1, <2>2, <2>3 DEF PlaceOK, InLock, InVendorLock, Vending, Parts
    <2>6. FailOK(x) /\ Took(r) /\ \A p \in Projects : Fills(y, p) => Fills(x, p)
        BY <2>2, <2>3 DEF FailOK, Took, Fills
    <2> QED
        BY <1>0, <2>2, <2>3, <2>4, <2>5, <2>6, GoesOn
<1>3. CASE Validate(r)
    <2>1. y.pc = "validate" /\ y.phase = "validate" /\ there' = there /\ work' = work /\ lock' = lock
        BY <1>0, <1>1, <1>3 DEF Validate, RunOK
    <2>2. CASE Exists(y.target)
        BY <1>0, <1>3, <2>1, <2>2, FailingSerial DEF Validate
    <2>3. CASE ~Exists(y.target)
        <3>1. PICK x : x = [y EXCEPT !.pc = "lock"]
            OBVIOUS
        <3>2. /\ x \in RunRecord /\ x.pc = "lock" /\ x.phase = y.phase /\ x.target = y.target
              /\ x.todo = y.todo /\ x.done = y.done
            BY <1>1, <3>1 DEF RunRecord, PCs
        <3>3. Moves(r, x)
            BY <1>0, <1>3, <2>1, <2>3, <3>1, GotoMoves DEF Validate, bounds
        <3>4. PlaceOK(r, x)'
            BY <1>1, <2>1, <2>3, <3>2 DEF PlaceOK, InLock, InVendorLock, Vending, Parts, Exists
        <3>5. FailOK(x) /\ Took(r) /\ \A p \in Projects : Fills(y, p) => Fills(x, p)
            BY <2>1, <3>2 DEF FailOK, Took, Fills
        <3> QED
            BY <1>0, <2>1, <3>2, <3>3, <3>4, <3>5, GoesOn
    <2> QED
        BY <2>2, <2>3
<1>4. CASE Lock(r)
    <2>1. PICK x : x = [y EXCEPT !.pc = "mark", !.phase = "vendored"]
        OBVIOUS
    <2>2. /\ x \in RunRecord /\ x.pc = "mark" /\ x.phase = "vendored" /\ x.target = y.target
          /\ x.todo = y.todo /\ x.done = y.done /\ x.job = y.job
        BY <1>1, <2>1 DEF RunRecord, PCs, PhaseNames
    <2>3. y.pc = "lock" /\ y.phase = "validate" /\ there' = there /\ work' = work
          /\ lock[y.target] = None /\ lock' = [lock EXCEPT ![y.target] = r]
          /\ run' = [run EXCEPT ![r].pc = "mark", ![r].phase = "vendored"]
          /\ UNCHANGED <<faults, serial>>
        BY <1>0, <1>1, <1>4 DEF Lock, RunOK, bounds
    <2>4. Moves(r, x)
        BY <1>0, <1>1, <2>1, <2>2, <2>3, RunIs DEF Moves
    <2>5. y.target \in Projects /\ lock'[y.target] = r
        BY <1>1, <2>3 DEF SerialInv, LocksOK
    <2>6. ~Exists(y.target) => y.target \notin work
        BY <2>5 DEF SerialInv, WorkOK, Exists
    <2>7. PlaceOK(r, x)'
        BY <1>1, <2>2, <2>3, <2>5, <2>6 DEF PlaceOK, InVendorLock, Vending, Moves
    <2>8. Took(r)
        BY <2>3, <2>5 DEF Took
    <2>9. FailOK(x) /\ \A p \in Projects : Fills(y, p) => Fills(x, p)
        BY <2>2, <2>3 DEF FailOK, Fills
    <2> QED
        BY <1>0, <2>2, <2>3, <2>4, <2>7, <2>8, <2>9, GoesOn
<1>5. CASE LockTimeout(r)
    <2>1. Goto(r, "failing") /\ UNCHANGED <<there, work, lock, bounds>>
        BY <1>5 DEF LockTimeout
    <2>2. CASE y.pc = "lock"
        <3>1. y.phase = "validate"
            BY <1>1, <2>2 DEF RunOK
        <3> QED
            BY <1>0, <2>1, <2>2, <3>1, FailingSerial
    <2>3. CASE y.pc # "lock"
        <3>1. y.pc = "vendorLock" /\ lock[y.at] \notin {None, r}
            BY <1>0, <1>5, <2>3 DEF LockTimeout
        <3>2. y.at \in Projects
            BY <1>1, <3>1 DEF RunOK
        <3>3. lock[y.at] \in Runners /\ run[lock[y.at]].pc # "idle"
            BY <3>1, <3>2 DEF SerialInv, LocksOK
        <3>4. ~serial
            BY <1>0, <3>1, <3>3 DEF SerialInv, Alone
        <3> QED
            BY <1>0, <2>1, <3>1, <3>4, FailingSerial
    <2> QED
        BY <2>2, <2>3
<1>6. CASE Mark(r)
    <2>1. PICK x : x = [y EXCEPT !.pc = y.phase]
        OBVIOUS
    <2>2. y.pc = "mark" /\ y.phase \in Parts \cup {"vendored"}
          /\ there' = there /\ work' = work /\ lock' = lock
        BY <1>0, <1>1, <1>6 DEF Mark, RunOK, RunRecord, PhaseNames, Parts
    <2>3. /\ x \in RunRecord /\ x.pc = y.phase /\ x.phase = y.phase /\ x.target = y.target
          /\ x.todo = y.todo /\ x.done = y.done /\ x.job = y.job
        BY <1>1, <2>1, <2>2 DEF RunRecord, PCs, Parts
    <2>4. Moves(r, x)
        BY <1>0, <1>6, <2>1, <2>2, GotoMoves DEF Mark, bounds, Parts
    <2>5. PlaceOK(r, x)'
        BY <1>1, <2>2, <2>3, <2>4 DEF PlaceOK, InLock, InVendorLock, Vending, Parts, Moves
    <2>6. FailOK(x) /\ Took(r) /\ \A p \in Projects : Fills(y, p) => Fills(x, p)
        BY <2>2, <2>3 DEF FailOK, Took, Fills, Parts
    <2> QED
        BY <1>0, <2>2, <2>3, <2>4, <2>5, <2>6, GoesOn
<1> QED
    BY <1>2, <1>3, <1>4, <1>5, <1>6

\* A phase of the project is through.
LEMMA AdvanceSerial ==
    ASSUME RestoreJobsAssumption, IInv, SerialInv, NEW r \in Runners, NEW y, y = run[r],
           y.pc \in Parts \cup {"vendored"}, Advance(r), UNCHANGED <<lock, bounds>>,
           work' \subseteq work, WorkOK', Grows, ThereType',
           serial /\ faults = 0 => \A p \in Projects :
             "shell" \in there'[p] /\ "entities" \notin there'[p] =>
               ("shell" \in there[p] /\ ~Fills(y, p)) \/ (p = y.target /\ y.pc = "shell")
    PROVE  SerialInv'
<1>1. y \in RunRecord /\ RunOK(y, there) /\ PlaceOK(r, y) /\ y.target \in Projects /\ y.phase = y.pc
    BY RunIs DEF SerialInv, PlacesOK, RunOK, Parts
<1>2. PICK pc, ph :
        /\ y.pc = "provenance" => pc = "finish" /\ ph = "provenance"
        /\ y.pc # "provenance" => pc = "mark" /\ ph = After(y.pc)
    OBVIOUS
<1>3. ph \in PhaseNames /\ pc \in {"mark", "finish"} /\ (pc = "finish" => ph = "provenance")
      /\ (y.pc = "shell" => ph = "entities")
    BY <1>2, Order DEF PhaseNames, Parts
<1>4. PICK x : x = [y EXCEPT !.pc = pc, !.phase = ph]
    OBVIOUS
<1>5. /\ x \in RunRecord /\ x.pc = pc /\ x.phase = ph /\ x.target = y.target
      /\ x.todo = y.todo /\ x.done = y.done /\ x.job = y.job
    BY <1>1, <1>3, <1>4 DEF RunRecord, PCs
<1>6. run' = [run EXCEPT ![r] = x]
    BY <1>1, <1>2, <1>4, RunIs DEF Advance, RunRecord
<1>7. Moves(r, x)
    BY <1>1, <1>3, <1>5, <1>6 DEF Moves, bounds, Parts
<1>8. PlaceOK(r, x)'
    BY <1>1, <1>3, <1>5 DEF PlaceOK, InLock, InVendorLock, Vending, Parts, bounds
<1>9. FailOK(x) /\ Took(r) /\ FillOK(y, x)
    BY <1>3, <1>5 DEF FailOK, Took, FillOK, Fills
<1> QED
    BY <1>5, <1>7, <1>8, <1>9, StepDone

\* The vendored parents: first pass.  No parent of theirs is missing, for a
\* snapshot vendors the parents of parents, and they come first.
LEMMA FirstPassSerial ==
    ASSUME RestoreJobsAssumption, IInv, SerialInv, NEW r \in Runners,
           ListVendored(r) \/ VendorShell(r) \/ VendorEntities(r)
    PROVE  SerialInv'
<1>0. PICK y : y = run[r]
    OBVIOUS
<1>1. /\ y \in RunRecord /\ RunOK(y, there) /\ PlaceOK(r, y) /\ y.target \in Projects
      /\ y.pc \in {"vendored", "vendorShell", "vendorEntities"}
    BY <1>0, RunIs DEF SerialInv, PlacesOK, ListVendored, VendorShell, VendorEntities
<1>2. PICK missing : missing = {p \in Vendored[y.target] : ~Exists(p)}
    OBVIOUS
<1>3. CASE ListVendored(r) /\ missing = {}
    <2>1. y.pc = "vendored" /\ y.phase = "vendored" /\ Advance(r)
          /\ UNCHANGED <<there, work, lock, bounds>>
        BY <1>0, <1>1, <1>2, <1>3 DEF ListVendored, RunOK
    <2>2. WorkOK' /\ Grows /\ ThereType'
        BY <2>1 DEF IInv, ThereType, Grows, SerialInv, WorkOK
    <2>3. \A p \in Projects : ~Fills(y, p)
        BY <2>1 DEF Fills
    <2> QED
        BY <1>0, <2>1, <2>2, <2>3, AdvanceSerial
<1>4. CASE ListVendored(r) /\ missing # {}
    <2>1. y.pc = "vendored" /\ y.phase = "vendored" /\ UNCHANGED <<there, work, lock, bounds>>
          /\ run' = [run EXCEPT ![r].pc = "vendorShell", ![r].todo = missing]
        BY <1>0, <1>1, <1>2, <1>4 DEF ListVendored, RunOK
    <2>2. missing \subseteq Vendored[y.target] /\ missing \subseteq Projects
        BY <1>1, <1>2 DEF RestoreJobsAssumption
    <2>3. PICK x : x = [y EXCEPT !.pc = "vendorShell", !.todo = missing]
        OBVIOUS
    <2>4. /\ x \in RunRecord /\ x.pc = "vendorShell" /\ x.phase = y.phase /\ x.target = y.target
          /\ x.todo = missing /\ x.done = y.done /\ x.job = y.job
        BY <1>1, <2>2, <2>3 DEF RunRecord, PCs
    <2>5. Moves(r, x)
        BY <1>0, <2>1, <2>3, <2>4, RunIs DEF Moves, bounds
    <2>6. PlaceOK(r, x)'
        BY <1>1, <2>1, <2>2, <2>4 DEF PlaceOK, InLock, InVendorLock, Vending, bounds
    <2>7. FailOK(x) /\ Took(r) /\ \A p \in Projects : Fills(y, p) => Fills(x, p)
        BY <2>1, <2>4 DEF FailOK, Took, Fills
    <2> QED
        BY <1>0, <2>1, <2>4, <2>5, <2>6, <2>7, GoesOn
<1>5. CASE VendorShell(r)
    <2>1. y.pc = "vendorShell" /\ y.phase = "vendored" /\ UNCHANGED <<work, lock, bounds>>
        BY <1>0, <1>1, <1>5 DEF VendorShell, PlaceOK, Vending
    <2>2. PICK p \in y.todo : Inherits[p] \cap y.todo = {}
            /\ IF \E q \in Inherits[p] : ~Exists(q) THEN TRUE
               ELSE /\ there' = [there EXCEPT ![p] = @ \cup {"shell"}]
                    /\ run' = [run EXCEPT ![r].pc = "vendorEntities", ![r].at = p]
        BY <1>0, <1>5 DEF VendorShell
    <2>3. p \in Projects /\ p \in Vendored[y.target]
        BY <1>1, <2>1, <2>2 DEF PlaceOK, RestoreJobsAssumption
    <2>4. Inherits[p] \subseteq Vendored[y.target]
        BY <1>1, <2>3 DEF RestoreJobsAssumption
    <2>5. \A q \in Inherits[p] : Exists(q)
        BY <1>1, <2>1, <2>2, <2>4 DEF RunOK, Exists
    <2>6. /\ there' = [there EXCEPT ![p] = @ \cup {"shell"}]
          /\ run' = [run EXCEPT ![r].pc = "vendorEntities", ![r].at = p]
        BY <2>2, <2>5
    <2>7. PICK x : x = [y EXCEPT !.pc = "vendorEntities", !.at = p]
        OBVIOUS
    <2>8. /\ x \in RunRecord /\ x.pc = "vendorEntities" /\ x.phase = y.phase /\ x.target = y.target
          /\ x.todo = y.todo /\ x.done = y.done /\ x.job = y.job /\ x.at = p
        BY <1>1, <2>3, <2>7 DEF RunRecord, PCs
    <2>9. Moves(r, x)
        BY <1>0, <2>1, <2>6, <2>7, <2>8, RunIs DEF Moves, bounds
    <2>10. PlaceOK(r, x)'
        BY <1>1, <2>1, <2>3, <2>8 DEF PlaceOK, InLock, InVendorLock, Vending, bounds
    <2>11. /\ WorkOK' /\ Grows /\ ThereType'
           /\ \A q \in Projects : "shell" \in there'[q] => "shell" \in there[q] \/ q = p
        BY <2>1, <2>3, <2>6, PartDone DEF Parts
    <2>12. FillOK(y, x)
        BY <2>1, <2>8, <2>11 DEF FillOK, Fills
    <2>13. FailOK(x) /\ Took(r)
        BY <2>1, <2>8 DEF FailOK, Took
    <2> QED
        BY <1>0, <2>1, <2>8, <2>9, <2>10, <2>11, <2>12, <2>13, StepDone
<1>6. CASE VendorEntities(r)
    <2>1. /\ y.pc = "vendorEntities" /\ y.phase = "vendored" /\ UNCHANGED <<work, lock, bounds>>
          /\ y.at \in Projects /\ "shell" \in there[y.at]
          /\ there' = [there EXCEPT ![y.at] = @ \cup {"entities"}]
        BY <1>0, <1>1, <1>6 DEF VendorEntities, PlaceOK, Vending, RunOK
    <2>2. PICK pc \in {"vendorNext", "vendorShell"} :
            run' = [run EXCEPT ![r].todo = @ \ {y.at}, ![r].done = @ \cup {y.at}, ![r].pc = pc]
        BY <1>0, <1>6 DEF VendorEntities
    <2>3. PICK x : x = [y EXCEPT !.todo = @ \ {y.at}, !.done = @ \cup {y.at}, !.pc = pc]
        OBVIOUS
    <2>4. /\ x \in RunRecord /\ x.pc = pc /\ x.phase = y.phase /\ x.target = y.target
          /\ x.todo = y.todo \ {y.at} /\ x.done = y.done \cup {y.at} /\ x.job = y.job
        BY <1>1, <2>1, <2>2, <2>3 DEF RunRecord, PCs
    <2>5. Moves(r, x)
        BY <1>0, <2>1, <2>2, <2>3, <2>4, RunIs DEF Moves, bounds
    <2>6. PlaceOK(r, x)'
        BY <1>1, <2>1, <2>2, <2>4 DEF PlaceOK, InLock, InVendorLock, Vending, bounds
    <2>7. /\ WorkOK' /\ Grows /\ ThereType' /\ "entities" \in there'[y.at]
          /\ \A q \in Projects : "shell" \in there'[q] => "shell" \in there[q]
        BY <2>1, PartDone DEF Parts
    <2>8. FillOK(y, x)
        BY <2>1, <2>7 DEF FillOK, Fills
    <2>9. FailOK(x) /\ Took(r)
        BY <2>1, <2>2, <2>4 DEF FailOK, Took
    <2> QED
        BY <1>0, <2>1, <2>4, <2>5, <2>6, <2>7, <2>8, <2>9, StepDone
<1> QED
    BY <1>3, <1>4, <1>5, <1>6

\* The fields of the projects that p vendors are there when its patterns are
\* restored, for the entities of all parents are restored first.
LEMMA FieldsThere ==
    ASSUME RestoreJobsAssumption, IInv, SerialInv, serial, faults = 0, NEW r \in Runners,
           NEW y, y = run[r], y.pc \notin {"idle", "vendorEntities"}, y.phase # "entities",
           ParentsThere(y.target, there),
           NEW p, p = y.target \/ p \in Vendored[y.target]
    PROVE  Resolves(p)
<1>1. y.target \in Projects
    BY RunIs
<1>2. Vendored[y.target] \subseteq Projects /\ Vendored[p] \subseteq Vendored[y.target]
    BY <1>1 DEF RestoreJobsAssumption
<1>3. ASSUME NEW q \in Vendored[p] PROVE "entities" \in there[q]
    <2>1. q \in Projects /\ "shell" \in there[q]
        BY <1>2, <1>3 DEF ParentsThere
    <2>2. \A o \in Runners : ~Fills(run[o], q)
        <3>1. ASSUME NEW o \in Runners, Fills(run[o], q) PROVE o = r
            BY <3>1 DEF Fills, SerialInv, Alone
        <3>2. ~Fills(y, q)
            BY DEF Fills
        <3> QED
            BY <3>1, <3>2
    <2> QED
        BY <2>1, <2>2 DEF SerialInv, Filled
<1> QED
    BY <1>3 DEF Resolves

\* The vendored parents: second pass.
LEMMA SecondPassSerial ==
    ASSUME RestoreJobsAssumption, IInv, SerialInv, NEW r \in Runners,
           VendorNext(r) \/ VendorLock(r) \/ VendorOverrides(r) \/ VendorProvenance(r) \/ VendorUnlock(r)
    PROVE  SerialInv'
<1>0. PICK y : y = run[r]
    OBVIOUS
<1>1. /\ y \in RunRecord /\ RunOK(y, there) /\ PlaceOK(r, y) /\ y.target \in Projects
      /\ y.pc \in {"vendorNext", "vendorLock", "vendorOverrides", "vendorProvenance", "vendorUnlock"}
    BY <1>0, RunIs DEF SerialInv, PlacesOK, VendorNext, VendorLock, VendorOverrides, VendorProvenance,
                       VendorUnlock
<1>2. /\ y.phase = "vendored" /\ ParentsThere(y.target, there) /\ UNCHANGED bounds
      /\ \A p \in Projects : ~Fills(y, p)
    BY <1>0, <1>1 DEF PlaceOK, Vending, RunOK, Fills, VendorNext, VendorLock, VendorOverrides,
                      VendorProvenance, VendorUnlock
<1>3. /\ Vendored[y.target] \subseteq Projects /\ y.target \notin Vendored[y.target]
      /\ y.pc # "vendorNext" => y.at \in Vendored[y.target] /\ y.at \in Projects
    BY <1>1 DEF RestoreJobsAssumption, PlaceOK, Vending
<1>4. lock \in [Projects -> Runners \cup {None}] /\ lock[y.target] = r
      /\ (serial /\ y.job # None => y.target \notin work)
    BY <1>1 DEF PlaceOK, InLock, Vending, SerialInv, LocksOK
<1>5. CASE VendorNext(r) /\ y.done = {}
    <2>1. /\ UNCHANGED <<there, work, lock>>
          /\ run' = [run EXCEPT ![r].pc = "mark", ![r].phase = "shell", ![r].at = None]
        BY <1>0, <1>5 DEF VendorNext
    <2>2. PICK x : x = [y EXCEPT !.pc = "mark", !.phase = "shell", !.at = None]
        OBVIOUS
    <2>3. /\ x \in RunRecord /\ x.pc = "mark" /\ x.phase = "shell" /\ x.target = y.target
          /\ x.todo = y.todo /\ x.done = y.done /\ x.job = y.job
        BY <1>1, <2>2 DEF RunRecord, PCs, PhaseNames
    <2>4. Moves(r, x)
        BY <1>0, <1>1, <1>2, <2>1, <2>2, <2>3, RunIs DEF Moves, bounds
    <2>5. PlaceOK(r, x)'
        BY <1>1, <1>2, <1>4, <2>1, <2>3 DEF PlaceOK, InLock, InVendorLock, Vending, bounds
    <2>6. FailOK(x) /\ Took(r) /\ \A p \in Projects : Fills(y, p) => Fills(x, p)
        BY <1>2, <2>1, <2>3 DEF FailOK, Took
    <2> QED
        BY <1>0, <2>1, <2>3, <2>4, <2>5, <2>6, GoesOn
<1>6. CASE VendorNext(r) /\ y.done # {}
    <2>1. PICK p \in y.done :
            /\ UNCHANGED <<there, work, lock>>
            /\ run' = [run EXCEPT ![r].pc = "vendorLock", ![r].at = p]
        BY <1>0, <1>6 DEF VendorNext
    <2>2. p \in Vendored[y.target] /\ p \in Projects
        BY <1>1, <1>3 DEF PlaceOK
    <2>3. PICK x : x = [y EXCEPT !.pc = "vendorLock", !.at = p]
        OBVIOUS
    <2>4. /\ x \in RunRecord /\ x.pc = "vendorLock" /\ x.phase = y.phase /\ x.target = y.target
          /\ x.todo = y.todo /\ x.done = y.done /\ x.job = y.job /\ x.at = p
        BY <1>1, <2>2, <2>3 DEF RunRecord, PCs
    <2>5. Moves(r, x)
        BY <1>0, <1>1, <1>2, <2>1, <2>3, <2>4, RunIs DEF Moves, bounds
    <2>6. PlaceOK(r, x)'
        BY <1>1, <1>2, <1>4, <2>1, <2>2, <2>4 DEF PlaceOK, InLock, InVendorLock, Vending, bounds
    <2>7. FailOK(x) /\ Took(r) /\ \A q \in Projects : Fills(y, q) => Fills(x, q)
        BY <1>2, <2>1, <2>4 DEF FailOK, Took
    <2> QED
        BY <1>0, <2>1, <2>4, <2>5, <2>6, <2>7, GoesOn
<1>7. CASE VendorLock(r)
    <2>1. /\ y.pc = "vendorLock" /\ UNCHANGED <<there, work>> /\ Goto(r, "vendorOverrides")
          /\ lock[y.at] = None /\ lock' = [lock EXCEPT ![y.at] = r]
        BY <1>0, <1>7 DEF VendorLock
    <2>2. PICK x : x = [y EXCEPT !.pc = "vendorOverrides"]
        OBVIOUS
    <2>3. /\ x \in RunRecord /\ x.pc = "vendorOverrides" /\ x.phase = y.phase /\ x.target = y.target
          /\ x.todo = y.todo /\ x.done = y.done /\ x.job = y.job /\ x.at = y.at
        BY <1>1, <2>2 DEF RunRecord, PCs
    <2>4. Moves(r, x)
        BY <1>0, <1>2, <2>1, <2>2, GotoMoves DEF bounds
    <2>5. lock'[y.target] = r /\ lock'[y.at] = r
        BY <1>1, <1>3, <1>4, <2>1
    <2>6. PlaceOK(r, x)'
        BY <1>1, <1>2, <1>3, <1>4, <2>1, <2>3, <2>5
           DEF PlaceOK, InLock, InVendorLock, Vending, bounds
    <2>7. Took(r)
        BY <1>3, <2>1 DEF Took
    <2>8. FailOK(x) /\ \A p \in Projects : Fills(y, p) => Fills(x, p)
        BY <1>2, <2>3 DEF FailOK
    <2> QED
        BY <1>0, <2>1, <2>3, <2>4, <2>6, <2>7, <2>8, GoesOn
<1>8. ASSUME NEW part \in Parts, NEW pc \in {"vendorProvenance", "vendorUnlock"}, part # "shell",
             part # "entities", Hydrate(y.at, part), Goto(r, pc), UNCHANGED lock,
             y.pc \in {"vendorOverrides", "vendorProvenance"}
      PROVE  SerialInv'
    <2>1. PICK x : x = [y EXCEPT !.pc = pc]
        OBVIOUS
    <2>2. /\ x \in RunRecord /\ x.pc = pc /\ x.phase = y.phase /\ x.target = y.target
          /\ x.todo = y.todo /\ x.done = y.done /\ x.job = y.job /\ x.at = y.at
        BY <1>1, <2>1 DEF RunRecord, PCs
    <2>3. Moves(r, x)
        BY <1>0, <1>2, <1>8, <2>1, GotoMoves DEF bounds
    <2>4. work' \subseteq work /\ there' = [there EXCEPT ![y.at] = @ \cup {part}]
        BY <1>8 DEF Hydrate
    <2>5. /\ WorkOK' /\ Grows /\ ThereType'
          /\ \A q \in Projects : "shell" \in there'[q] => "shell" \in there[q]
        BY <1>3, <1>8, <2>4, PartDone
    <2>6. PlaceOK(r, x)'
        BY <1>1, <1>2, <1>3, <1>4, <1>8, <2>2, <2>4
           DEF PlaceOK, InLock, InVendorLock, Vending, bounds
    <2>7. FailOK(x) /\ Took(r) /\ FillOK(y, x)
        BY <1>2, <1>8, <2>2, <2>5 DEF FailOK, Took, FillOK
    <2> QED
        BY <1>0, <2>2, <2>3, <2>4, <2>5, <2>6, <2>7, StepDone
<1>9. CASE VendorOverrides(r) /\ Resolves(y.at)
    <2>1. /\ Hydrate(y.at, "overrides") /\ Goto(r, "vendorProvenance") /\ UNCHANGED lock
          /\ y.pc = "vendorOverrides"
        BY <1>0, <1>9 DEF VendorOverrides
    <2> QED
        BY <1>8, <2>1 DEF Parts
<1>10. CASE VendorOverrides(r) /\ ~Resolves(y.at)
    <2>1. /\ Goto(r, "failing") /\ UNCHANGED <<there, work, lock, bounds>>
          /\ y.pc = "vendorOverrides"
        BY <1>0, <1>10, <1>2 DEF VendorOverrides
    <2>2. ~(serial /\ faults = 0)
        BY <1>0, <1>2, <1>3, <1>10, <2>1, FieldsThere
    <2> QED
        BY <1>0, <2>1, <2>2, FailingSerial
<1>11. CASE VendorProvenance(r)
    <2>1. /\ Hydrate(y.at, "provenance") /\ Goto(r, "vendorUnlock") /\ UNCHANGED lock
          /\ y.pc = "vendorProvenance"
        BY <1>0, <1>11 DEF VendorProvenance
    <2> QED
        BY <1>8, <2>1 DEF Parts
<1>12. CASE VendorUnlock(r)
    <2>1. /\ y.pc = "vendorUnlock" /\ UNCHANGED <<there, work>>
          /\ lock' = [lock EXCEPT ![y.at] = None]
          /\ run' = [run EXCEPT ![r].pc = "vendorNext", ![r].done = @ \ {y.at}]
        BY <1>0, <1>12 DEF VendorUnlock
    <2>2. PICK x : x = [y EXCEPT !.pc = "vendorNext", !.done = @ \ {y.at}]
        OBVIOUS
    <2>3. /\ x \in RunRecord /\ x.pc = "vendorNext" /\ x.phase = y.phase /\ x.target = y.target
          /\ x.todo = y.todo /\ x.done = y.done \ {y.at} /\ x.job = y.job
        BY <1>1, <2>2 DEF RunRecord, PCs
    <2>4. Moves(r, x)
        BY <1>0, <1>1, <1>2, <2>1, <2>2, <2>3, RunIs DEF Moves, bounds
    <2>5. lock[y.at] = r /\ lock'[y.target] = r
        BY <1>1, <1>3, <1>4, <2>1 DEF PlaceOK, InVendorLock
    <2>6. PlaceOK(r, x)'
        BY <1>1, <1>2, <1>4, <2>1, <2>3, <2>5 DEF PlaceOK, InLock, InVendorLock, Vending, bounds
    <2>7. Took(r)
        BY <1>3, <2>1, <2>5 DEF Took
    <2>8. FailOK(x) /\ \A p \in Projects : Fills(y, p) => Fills(x, p)
        BY <1>2, <2>3 DEF FailOK
    <2> QED
        BY <1>0, <2>1, <2>3, <2>4, <2>6, <2>7, <2>8, GoesOn
<1> QED
    BY <1>5, <1>6, <1>7, <1>9, <1>10, <1>11, <1>12

\* The phases of the project itself.
LEMMA PhasesSerial ==
    ASSUME RestoreJobsAssumption, IInv, SerialInv, NEW r \in Runners,
           ShellAndEntities(r) \/ Overrides(r) \/ Provenance(r)
    PROVE  SerialInv'
<1>0. PICK y : y = run[r]
    OBVIOUS
<1>1. /\ y \in RunRecord /\ RunOK(y, there) /\ PlaceOK(r, y) /\ y.target \in Projects
      /\ y.pc \in Parts /\ y.phase = y.pc /\ UNCHANGED <<lock, bounds>>
    BY <1>0, RunIs DEF SerialInv, PlacesOK, ShellAndEntities, Overrides, Provenance, RunOK, Parts
<1>2. ParentsThere(y.target, there) /\ Inherits[y.target] \subseteq Vendored[y.target]
      /\ Before(y.phase) \subseteq there[y.target]
    BY <1>1 DEF RunOK, Parts, RestoreJobsAssumption
<1>3. CASE Hydrate(y.target, y.pc) /\ Advance(r)
    <2>1. work' \subseteq work /\ there' = [there EXCEPT ![y.target] = @ \cup {y.pc}]
        BY <1>3 DEF Hydrate
    <2>2. y.pc = "entities" => "shell" \in there[y.target]
        BY <1>1, <1>2 DEF Before
    <2>3. /\ WorkOK' /\ Grows /\ ThereType' /\ y.pc \in there'[y.target]
          /\ \A q \in Projects : "shell" \in there'[q] =>
               "shell" \in there[q] \/ (y.pc = "shell" /\ q = y.target)
        BY <1>1, <2>1, <2>2, PartDone
    <2>4. ASSUME NEW p \in Projects, "shell" \in there'[p], "entities" \notin there'[p]
          PROVE  ("shell" \in there[p] /\ ~Fills(y, p)) \/ (p = y.target /\ y.pc = "shell")
        BY <1>1, <2>3, <2>4 DEF Fills, Parts
    <2> QED
        BY <1>0, <1>1, <1>3, <2>1, <2>3, <2>4, AdvanceSerial
<1>4. CASE ~(Hydrate(y.target, y.pc) /\ Advance(r))
    <2>1. ~ShellAndEntities(r)
        BY <1>0, <1>2, <1>4 DEF ShellAndEntities, ParentsThere, Exists
    <2>2. ~Provenance(r)
        BY <1>0, <1>4 DEF Provenance
    <2>3. /\ y.pc = "overrides" /\ ~Resolves(y.target)
          /\ Goto(r, "failing") /\ UNCHANGED <<there, work>>
        BY <1>0, <1>4, <2>1, <2>2 DEF Overrides
    <2>4. ~(serial /\ faults = 0)
        BY <1>0, <1>1, <1>2, <2>3, FieldsThere
    <2> QED
        BY <1>0, <1>1, <2>3, <2>4, FailingSerial
<1> QED
    BY <1>3, <1>4

\* A run leaves, or a fault stops it.
LEMMA StopsSerial ==
    ASSUME RestoreJobsAssumption, IInv, SerialInv, NEW r \in Runners,
           NEW x \in RunRecord, run' = [run EXCEPT ![r] = x],
           UNCHANGED <<there, work, serial>>, faults' \in Nat,
           x.pc \in {"idle", "failing"}, PlaceOK(r, x)',
           run[r].pc # "idle",
           \/ x.pc = "failing" /\ lock' = lock
           \/ x.pc = "idle" /\ lock' = [p \in Projects |-> IF lock[p] = r THEN None ELSE lock[p]],
           faults' = 0 => faults = 0 /\ x.pc = "idle" /\ run[r].pc \in {"finish", "failing"}
    PROVE  SerialInv'
<1>1. /\ run \in [Runners -> RunRecord] /\ run'[r] = x
      /\ \A q \in Runners : q # r => run'[q] = run[q]
    BY RunIs
<1>2. /\ lock \in [Projects -> Runners \cup {None}] /\ None \notin Runners
      /\ \A p \in Projects, q \in Runners : lock[p] = q => run[q].pc # "idle"
    BY DEF SerialInv, LocksOK, RestoreJobsAssumption
<1>3. /\ lock' \in [Projects -> Runners \cup {None}]
      /\ \A p \in Projects, q \in Runners : lock'[p] = q => lock[p] = q /\ (q = r => x.pc # "idle")
      /\ \A p \in Projects, q \in Runners : lock[p] = q /\ q # r => lock'[p] = q
    BY <1>2
<1>4. BoundsOK' /\ WorkOK'
    BY DEF SerialInv, BoundsOK, WorkOK
<1>5. LocksOK'
    <2>1. ASSUME NEW p \in Projects, NEW q \in Runners, lock'[p] = q
          PROVE  run'[q].pc # "idle"
        BY <1>1, <1>2, <1>3, <2>1
    <2> QED
        BY <1>3, <2>1 DEF LocksOK
<1>6. Alone'
    BY <1>1 DEF SerialInv, Alone
<1>7. PlacesOK'
    <2>1. ASSUME NEW q \in Runners
          PROVE  PlaceOK(q, run[q])'
        <3>1. CASE q = r
            BY <1>1, <3>1 DEF PlaceOK
        <3>2. CASE q # r
            <4>1. serial => run[q].pc = "idle"
                BY <3>2 DEF SerialInv, Alone
            <4> QED
                BY <1>1, <1>3, <3>2, <4>1, OthersStay
        <3> QED
            BY <3>1, <3>2
    <2> QED
        BY <2>1 DEF PlacesOK
<1>8. OnlyFaultsFail'
    <2>1. ASSUME NEW q \in Runners, serial, faults' = 0, run'[q].pc = "failing"
          PROVE  run'[q].phase = "validate"
        <3>1. faults = 0 /\ q # r
            BY <1>1, <2>1
        <3> QED
            BY <1>1, <2>1, <3>1 DEF SerialInv, OnlyFaultsFail
    <2> QED
        BY <2>1 DEF OnlyFaultsFail
<1>9. Filled'
    <2> SUFFICES ASSUME serial, faults' = 0, NEW p \in Projects, "shell" \in there[p]
                 PROVE  "entities" \in there[p] \/ \E q \in Runners : Fills(run'[q], p)
        BY DEF Filled
    <2>1. ~Fills(run[r], p)
        <3>1. run[r].phase # "entities"
            BY DEF SerialInv, OnlyFaultsFail, PlacesOK, PlaceOK
        <3> QED
            BY <3>1 DEF Fills
    <2>2. \A q \in Runners : Fills(run[q], p) => Fills(run'[q], p)
        BY <1>1, <2>1
    <2> QED
        BY <2>2 DEF SerialInv, Filled
<1> QED
    BY <1>4, <1>5, <1>6, <1>7, <1>8, <1>9 DEF SerialInv

\* The ends of a run.
LEMMA EndsSerial ==
    ASSUME RestoreJobsAssumption, IInv, SerialInv, NEW r \in Runners,
           Finish(r) \/ FailJob(r) \/ Fails(r) \/ Dies(r)
    PROVE  SerialInv'
<1>0. PICK y : y = run[r]
    OBVIOUS
<1>1. y \in RunRecord /\ PlaceOK(r, y) /\ faults \in Nat
    BY <1>0, RunIs DEF SerialInv, PlacesOK, BoundsOK
<1>2. Idle \in RunRecord /\ PlaceOK(r, Idle)' /\ Idle.pc = "idle"
    BY IdleOK DEF PlaceOK, Idle, InLock, InVendorLock, Vending, Parts
<1>3. /\ run[r].pc # "idle" /\ UNCHANGED <<there, work, serial>> /\ faults' \in Nat
      /\ faults' = 0 => faults = 0 /\ run[r].pc \in {"finish", "failing"} /\ Leave(r)
    BY <1>1 DEF Finish, FailJob, Fails, Dies, bounds
<1>4. CASE Leave(r)
    BY <1>2, <1>3, <1>4, StopsSerial DEF Leave
<1>5. CASE ~Leave(r)
    <2>1. Goto(r, "failing") /\ lock' = lock
        BY <1>5 DEF Finish, FailJob, Fails, Dies
    <2>2. PICK x : x = [y EXCEPT !.pc = "failing"]
        OBVIOUS
    <2>3. /\ x \in RunRecord /\ x.pc = "failing" /\ x.target = y.target
          /\ x.todo = y.todo /\ x.done = y.done
        BY <1>1, <2>2 DEF RunRecord, PCs
    <2>4. run' = [run EXCEPT ![r] = x]
        BY <1>0, <2>1, <2>2, RunIs DEF Goto
    <2>5. PlaceOK(r, x)'
        BY <1>0, <1>1, <1>3, <2>3 DEF PlaceOK, InLock, InVendorLock, Vending, Parts
    <2> QED
        BY <1>3, <1>5, <2>1, <2>3, <2>4, <2>5, StopsSerial
<1> QED
    BY <1>4, <1>5

\* A run starts.
LEMMA StartsSerial ==
    ASSUME RestoreJobsAssumption, IInv, SerialInv, NEW r \in Runners,
           (\E j \in Jobs : StartJob(r, j)) \/ (\E p \in Projects : StartLoad(r, p))
    PROVE  SerialInv'
<1>1. PICK x :
        /\ x \in RunRecord /\ x.todo = {} /\ x.done = {} /\ x.pc \in {"begin", "lock"}
        /\ x.pc = "lock" => x.job = None
        /\ run' = [run EXCEPT ![r] = x]
    <2>1. ASSUME NEW j \in Jobs, StartJob(r, j)
          PROVE  \E x \in RunRecord :
                   /\ x.todo = {} /\ x.done = {} /\ x.pc = "begin"
                   /\ run' = [run EXCEPT ![r] = x]
        <3>1. PICK x : x = [Idle EXCEPT !.pc = "begin", !.job = j, !.target = TargetOf[j]]
            OBVIOUS
        <3>2. x \in RunRecord /\ x.todo = {} /\ x.done = {} /\ x.pc = "begin"
            BY <3>1 DEF Idle, RunRecord, PCs, PhaseNames, RestoreJobsAssumption
        <3> QED
            BY <2>1, <3>1, <3>2 DEF StartJob
    <2>2. ASSUME NEW p \in Projects, StartLoad(r, p)
          PROVE  \E x \in RunRecord :
                   /\ x.todo = {} /\ x.done = {} /\ x.pc = "lock" /\ x.job = None
                   /\ run' = [run EXCEPT ![r] = x]
        <3>1. PICK x : x = [Idle EXCEPT !.pc = "lock", !.target = p]
            OBVIOUS
        <3>2. x \in RunRecord /\ x.todo = {} /\ x.done = {} /\ x.pc = "lock" /\ x.job = None
            BY <3>1 DEF Idle, RunRecord, PCs, PhaseNames
        <3> QED
            BY <2>2, <3>1, <3>2 DEF StartLoad
    <2> QED
        BY <2>1, <2>2
<1>2. /\ run[r].pc = "idle" /\ (serial => Quiet)
      /\ UNCHANGED <<there, work, lock, faults, serial>>
    BY DEF StartJob, StartLoad
<1>3. /\ run \in [Runners -> RunRecord] /\ run'[r] = x
      /\ \A q \in Runners : q # r => run'[q] = run[q]
    BY <1>1, RunIs
<1>4. BoundsOK' /\ WorkOK' /\ LocksOK'
    BY <1>1, <1>2, <1>3 DEF SerialInv, BoundsOK, WorkOK, LocksOK
<1>5. Alone'
    BY <1>2, <1>3 DEF SerialInv, Alone, Quiet
<1>6. PlacesOK'
    <2>1. ASSUME NEW q \in Runners
          PROVE  PlaceOK(q, run[q])'
        <3>1. CASE q = r
            BY <1>1, <1>3, <3>1 DEF PlaceOK, InLock, InVendorLock, Vending, Parts
        <3>2. CASE q # r
            BY <1>2, <1>3, <3>2, OthersStay DEF Quiet
        <3> QED
            BY <3>1, <3>2
    <2> QED
        BY <2>1 DEF PlacesOK
<1>7. OnlyFaultsFail'
    BY <1>1, <1>2, <1>3 DEF SerialInv, OnlyFaultsFail
<1>8. Filled'
    BY <1>2 DEF SerialInv, Filled, Quiet, Fills
<1> QED
    BY <1>4, <1>5, <1>6, <1>7, <1>8 DEF SerialInv

\* Editors, and jobs that are created.
LEMMA OutsideSerial ==
    ASSUME RestoreJobsAssumption, IInv, SerialInv,
           \/ UNCHANGED <<there, work, lock, run, bounds>>
           \/ \E p \in Edited : Edit(p)
    PROVE  SerialInv'
<1>1. UNCHANGED <<there, lock, run, bounds>>
    BY DEF Edit
<1>2. BoundsOK' /\ LocksOK' /\ Alone' /\ Filled' /\ OnlyFaultsFail'
    BY <1>1 DEF SerialInv, BoundsOK, LocksOK, Alone, Filled, OnlyFaultsFail, bounds
<1>3. \A p \in work' : p \in work \/ (p \in Projects /\ "entities" \in there[p] /\ lock[p] = None)
    BY DEF Edit, RestoreJobsAssumption
<1>4. WorkOK'
    BY <1>1, <1>3 DEF SerialInv, WorkOK
<1>5. PlacesOK'
    <2>1. ASSUME NEW q \in Runners, PlaceOK(q, run[q])
          PROVE  PlaceOK(q, run[q])'
        <3>1. run[q].pc \in InLock => lock[run[q].target] = q /\ None # q
            BY <2>1 DEF PlaceOK, RestoreJobsAssumption
        <3>2. run[q].pc \in InLock /\ run[q].target \notin work => run[q].target \notin work'
            BY <1>3, <3>1
        <3> QED
            BY <1>1, <2>1, <3>2 DEF PlaceOK, bounds, Exists
    <2> QED
        BY <1>1, <2>1 DEF PlacesOK, SerialInv
<1> QED
    BY <1>2, <1>4, <1>5 DEF SerialInv

LEMMA SerialKeeps == RestoreJobsAssumption /\ IInv /\ SerialInv /\ [Next]_vars => SerialInv'
<1> SUFFICES ASSUME RestoreJobsAssumption, IInv, SerialInv, [Next]_vars PROVE SerialInv'
    OBVIOUS
<1>1. CASE UNCHANGED vars
    BY <1>1, OutsideSerial DEF vars, bounds
<1>2. ASSUME NEW j \in Jobs, CreateJob(j) PROVE SerialInv'
    BY <1>2, OutsideSerial DEF CreateJob
<1>3. ASSUME NEW p \in Edited, Edit(p) \/ CreateEntity(p) PROVE SerialInv'
    BY <1>3, OutsideSerial DEF CreateEntity
<1>4. ASSUME NEW r \in Runners,
             (\E j \in Jobs : StartJob(r, j)) \/ (\E p \in Projects : StartLoad(r, p))
      PROVE  SerialInv'
    BY <1>4, StartsSerial
<1>5. ASSUME NEW r \in Runners, Step(r) PROVE SerialInv'
    BY <1>5, OpeningSerial, FirstPassSerial, SecondPassSerial, PhasesSerial, EndsSerial DEF Step
<1>6. ASSUME NEW r \in Runners, Fails(r) \/ Dies(r) PROVE SerialInv'
    BY <1>6, EndsSerial
<1> QED
    BY <1>1, <1>2, <1>3, <1>4, <1>5, <1>6 DEF Next

LEMMA SerialInit == RestoreJobsAssumption /\ Init => SerialInv
<1> SUFFICES ASSUME RestoreJobsAssumption, Init PROVE SerialInv
    OBVIOUS
<1>1. \A r \in Runners : run[r] = Idle /\ run[r].pc = "idle" /\ PlaceOK(r, Idle)
    BY DEF Init, Idle, PlaceOK, InLock, InVendorLock, Vending, Parts
<1>2. PlacesOK /\ Alone /\ OnlyFaultsFail
    BY <1>1 DEF PlacesOK, Alone, OnlyFaultsFail
<1>3. BoundsOK /\ LocksOK /\ WorkOK /\ Filled
    BY DEF Init, BoundsOK, LocksOK, WorkOK, Filled, RestoreJobsAssumption
<1> QED
    BY <1>2, <1>3 DEF SerialInv

\* Restores that come one after the other fail for a fault or for a project that is
\* there already: no parent and no field that another project owes is ever missing,
\* whatever editors, earlier restores and earlier retries have done (HydrateVendored
\* of vendor_restore.go and the errors of HydrateProjectShell and
\* HydrateProjectOverrides).
THEOREM OnlyFaults ==
    ASSUME RestoreJobsAssumption
    PROVE  Spec => []OnlyFaultsFail
<1>1. Init => IInv /\ SerialInv
    BY InitOK, SerialInit
<1>2. IInv /\ SerialInv /\ [Next]_vars => (IInv /\ SerialInv)'
    BY NextOK, SerialKeeps
<1>3. SerialInv => OnlyFaultsFail
    BY DEF SerialInv
<1> QED
    BY <1>1, <1>2, <1>3, PTL DEF Spec

-----------------------------------------------------------------------------
(* The work of editors.                                                    *)

\* The body of WorkSurvives.
Surviving ==
    serial => \A p \in work \ work' : \E r \in Runners :
        \/ run[r].target = p /\ run[r].job = None
        \/ run[r].at = p

LEMMA StepSurvives == RestoreJobsAssumption /\ IInv /\ SerialInv /\ [Next]_vars => Surviving
<1> SUFFICES ASSUME RestoreJobsAssumption, IInv, SerialInv, [Next]_vars, serial,
                    NEW p \in work \ work'
             PROVE  \E r \in Runners :
                        \/ run[r].target = p /\ run[r].job = None
                        \/ run[r].at = p
    BY DEF Surviving
<1>1. PICK r \in Runners : VendorOverrides(r) \/ VendorProvenance(r) \/ ShellAndEntities(r)
                           \/ Overrides(r) \/ Provenance(r)
    BY DEF Next, Step, vars, CreateJob, Edit, CreateEntity, StartJob, StartLoad, Fails, Dies, Begin,
           Validate, Lock, LockTimeout, Mark, ListVendored, VendorShell, VendorEntities, VendorNext,
           VendorLock, VendorUnlock, Finish, FailJob
<1>2. CASE VendorOverrides(r)
    BY <1>2 DEF VendorOverrides, Hydrate
<1>3. CASE ~VendorOverrides(r)
    <2>1. Overrides(r) /\ p = run[r].target /\ run[r].pc = "overrides"
        BY <1>1, <1>3 DEF VendorProvenance, ShellAndEntities, Overrides, Provenance, Hydrate
    <2>2. PlaceOK(r, run[r]) /\ run[r].pc \in InLock
        BY <2>1 DEF SerialInv, PlacesOK, InLock, Parts
    <2>3. run[r].job = None
        BY <2>1, <2>2 DEF PlaceOK
    <2> QED
        BY <2>1, <2>3
<1> QED
    BY <1>2, <1>3

\* What editors have done in the patterns of a project is replaced by load-git of that
\* project alone, and by the restore that is bringing the project in; never by the
\* retry of a job, or by a restore that finds the project there (Run of
\* gitrestoreadmin/service.go, missingVendored of vendor_restore.go).
THEOREM WorkKept ==
    ASSUME RestoreJobsAssumption
    PROVE  Spec => WorkSurvives
<1>1. Init => IInv /\ SerialInv
    BY InitOK, SerialInit
<1>2. IInv /\ SerialInv /\ [Next]_vars => (IInv /\ SerialInv)'
    BY NextOK, SerialKeeps
<1>3. IInv /\ SerialInv /\ [Next]_vars => [Surviving]_vars
    BY StepSurvives
<1>4. [][Surviving]_vars => WorkSurvives
    BY DEF Surviving, WorkSurvives
<1> QED
    BY <1>1, <1>2, <1>3, <1>4, PTL DEF Spec

-----------------------------------------------------------------------------
(* Jobs are settled.                                                       *)

\* Runs stay with their jobs, but for r.
StayBut(r) ==
    \A q \in Runners : q # r /\ run[q].pc # "idle" =>
        run'[q].pc # "idle" /\ run'[q].job = run[q].job

\* A run that goes on keeps its job.
LEMMA RunStays ==
    ASSUME IInv, NEW r \in Runners, Step(r), ~(Finish(r) \/ FailJob(r))
    PROVE  /\ run[r].pc # "idle" /\ run'[r].pc # "idle" /\ run'[r].job = run[r].job
           /\ StayBut(r)
<1>1. run \in [Runners -> RunRecord] /\ run[r] \in RunRecord /\ RunOK(run[r], there)
    BY RunIs
<1>2. ASSUME NEW pc, pc # "idle", Goto(r, pc)
      PROVE  run'[r].pc # "idle" /\ run'[r].job = run[r].job /\ StayBut(r)
    BY <1>1, <1>2 DEF Goto, RunRecord, StayBut
<1>3. CASE Begin(r) \/ Validate(r) \/ LockTimeout(r)
    BY <1>2, <1>3 DEF Begin, Validate, LockTimeout
<1>4. CASE Mark(r)
    BY <1>1, <1>2, <1>4 DEF Mark, RunRecord, PhaseNames
<1>5. CASE Lock(r)
    BY <1>1, <1>5 DEF Lock, RunRecord, StayBut
<1>6. ASSUME Advance(r)
      PROVE  run'[r].pc # "idle" /\ run'[r].job = run[r].job /\ StayBut(r)
    BY <1>1, <1>6 DEF Advance, RunRecord, StayBut
<1>7. CASE ListVendored(r)
    BY <1>1, <1>6, <1>7 DEF ListVendored, RunRecord, StayBut
<1>8. CASE VendorShell(r)
    BY <1>1, <1>2, <1>8 DEF VendorShell, RunRecord, StayBut
<1>9. CASE VendorEntities(r)
    BY <1>1, <1>9 DEF VendorEntities, RunRecord, StayBut
<1>10. CASE VendorNext(r)
    BY <1>1, <1>10 DEF VendorNext, RunRecord, StayBut
<1>11. CASE VendorLock(r) \/ VendorOverrides(r) \/ VendorProvenance(r)
    BY <1>2, <1>11 DEF VendorLock, VendorOverrides, VendorProvenance
<1>12. CASE VendorUnlock(r)
    BY <1>1, <1>12 DEF VendorUnlock, RunRecord, StayBut
<1>13. CASE ShellAndEntities(r) \/ Overrides(r) \/ Provenance(r)
    BY <1>2, <1>6, <1>13 DEF ShellAndEntities, Overrides, Provenance, Parts
<1> QED
    BY <1>3, <1>4, <1>5, <1>7, <1>8, <1>9, <1>10, <1>11, <1>12, <1>13 DEF Step

LEMMA SettlingKeeps ==
    RestoreJobsAssumption /\ IInv /\ BoundsOK /\ Settling /\ [Next]_vars => Settling'
<1> SUFFICES ASSUME RestoreJobsAssumption, IInv, BoundsOK, Settling, [Next]_vars,
                    faults' = 0, NEW j \in Jobs, status'[j] = "running"
             PROVE  \E r \in Runners : run'[r].pc # "idle" /\ run'[r].job = j
    BY DEF Settling
<1>1. /\ run \in [Runners -> RunRecord] /\ status \in [Jobs -> Statuses \cup {None}]
      /\ faults \in Nat /\ None \notin Jobs
    BY DEF IInv, RunsType, JobsType, BoundsOK, RestoreJobsAssumption
<1>2. CASE UNCHANGED <<status, run, faults>> \/ (\E i \in Jobs : CreateJob(i))
    BY <1>1, <1>2 DEF Settling, CreateJob, bounds
<1>3. ASSUME NEW r \in Runners,
             (\E i \in Jobs : StartJob(r, i)) \/ (\E p \in Projects : StartLoad(r, p))
      PROVE  \E q \in Runners : run'[q].pc # "idle" /\ run'[q].job = j
    <2>1. /\ status' = status /\ faults' = faults /\ run[r].pc = "idle"
          /\ \A q \in Runners : q # r => run'[q] = run[q]
        BY <1>1, <1>3 DEF StartJob, StartLoad, jobs
    <2> QED
        BY <2>1 DEF Settling
<1>4. ASSUME NEW r \in Runners, Step(r), ~(Finish(r) \/ FailJob(r))
      PROVE  \E q \in Runners : run'[q].pc # "idle" /\ run'[q].job = j
    <2>1. /\ run[r].pc # "idle" /\ run'[r].pc # "idle" /\ run'[r].job = run[r].job
          /\ StayBut(r)
        BY <1>4, RunStays
    <2>2. faults' = faults /\ (status' = status \/ Set(r, "running", run[r].phase)
                              \/ Set(r, "running", "validate"))
        BY <1>4 DEF Step, Begin, Validate, Lock, LockTimeout, Mark, ListVendored, VendorShell,
                    VendorEntities, VendorNext, VendorLock, VendorOverrides, VendorProvenance,
                    VendorUnlock, ShellAndEntities, Overrides, Provenance, jobs, bounds
    <2>3. status[j] = "running" \/ run[r].job = j
        BY <1>1, <2>2 DEF Set, jobs
    <2>4. CASE run[r].job = j
        BY <2>1, <2>4
    <2>5. CASE run[r].job # j
        BY <2>1, <2>2, <2>3, <2>5 DEF Settling, StayBut
    <2> QED
        BY <2>4, <2>5
<1>5. ASSUME NEW r \in Runners, Finish(r) \/ FailJob(r)
      PROVE  \E q \in Runners : run'[q].pc # "idle" /\ run'[q].job = j
    <2>1. /\ faults' = faults /\ \A q \in Runners : q # r => run'[q] = run[q]
          /\ Set(r, "completed", None) \/ Set(r, "failed", run[r].phase)
        BY <1>1, <1>5 DEF Finish, FailJob, Leave, bounds
    <2>2. status[j] = "running" /\ run[r].job # j
        BY <1>1, <2>1 DEF Set, jobs
    <2> QED
        BY <2>1, <2>2 DEF Settling
<1>6. ASSUME NEW r \in Runners, Fails(r) \/ Dies(r)
      PROVE  FALSE
    BY <1>1, <1>6 DEF Fails, Dies
<1>7. ASSUME NEW p \in Edited, Edit(p) \/ CreateEntity(p)
      PROVE  UNCHANGED <<status, run, faults>>
    BY <1>7 DEF Edit, CreateEntity, jobs, bounds
<1> QED
    BY <1>2, <1>3, <1>4, <1>5, <1>6, <1>7 DEF Next, vars

\* Every way out of a run settles the state of its job: without a failure of the
\* database or of the process no job is left running, however the runs met and
\* whichever of them timed out (failJob of gitrestoreadmin/service.go).
THEOREM JobsSettled ==
    ASSUME RestoreJobsAssumption
    PROVE  Spec => []NoJobLeftRunning
<1>1. Init => IInv /\ SerialInv /\ Settling
    BY InitOK, SerialInit DEF Init, Settling, RestoreJobsAssumption, Statuses
<1>2. IInv /\ SerialInv /\ Settling /\ [Next]_vars => (IInv /\ SerialInv /\ Settling)'
    BY NextOK, SerialKeeps, SettlingKeeps DEF SerialInv
<1>3. Settling => NoJobLeftRunning
    BY DEF Settling, NoJobLeftRunning, Quiet
<1> QED
    BY <1>1, <1>2, <1>3, PTL DEF Spec

\* What a restore job shows is what is committed, and without a fault it is settled in
\* the end (Run and failJob of gitrestoreadmin/service.go).
THEOREM JobsTruth ==
    ASSUME RestoreJobsAssumption
    PROVE  Spec => []JobsTellTheTruth
<1>1. CompletedIsWhole /\ ProgressIsHonest /\ NoJobLeftRunning => JobsTellTheTruth
    BY DEF JobsTellTheTruth
<1> QED
    BY <1>1, Whole, Progress, JobsSettled, PTL
=============================================================================
