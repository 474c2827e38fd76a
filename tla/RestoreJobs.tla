----------------------------- MODULE RestoreJobs -----------------------------
(***************************************************************************)
(* Restores of projects from git: jobs that operators create and run        *)
(* (pkg/weave/gitrestoreadmin/service.go) and the command load-git           *)
(* (cmd/project.go, HydrateRestorePlan of restore_runner.go).  Both bring     *)
(* back the parents a snapshot vendors and then the project itself, phase by *)
(* phase, each phase a commit of its own, under the lock of the project.     *)
(* SaveRestore has the locks and the saves they keep out; here are the runs, *)
(* what they leave behind when they end early, and their retries.           *)
(*                                                                         *)
(* Left out: vendored ontologies; what vendored snapshots vendor in turn;   *)
(* preview and retargeting, which change nothing.                           *)
(***************************************************************************)
EXTENDS Naturals, FiniteSets

CONSTANTS
    Projects,
    Vendored,       \* the projects in the vendor tree of a project's snapshot
    Inherits,       \* the parents of a project
    Jobs,
    TargetOf,       \* which project a job restores
    Loads,          \* projects that load-git may be called for
    Runners,        \* requests and commands under way
    Last,           \* the highest entity number in the snapshots
    Edited,         \* projects that editors work in
    MaxInTurn,      \* bound on runs when they come one after the other,
    MaxAtOnce,      \* and when they do not
    MaxFaults,      \* bound on failing statements and processes that die
    MaxNumber,      \* bound on numbers given to entities
    None

Statuses == {"pending", "running", "completed", "failed"}

RestoreJobsAssumption ==
    /\ Vendored \in [Projects -> SUBSET Projects]
    /\ Inherits \in [Projects -> SUBSET Projects]
    /\ \A p \in Projects : p \notin Vendored[p] /\ Inherits[p] \subseteq Vendored[p]
    \* vendorDependenciesForProject vendors the parents of parents
    /\ \A p \in Projects, q \in Projects : q \in Vendored[p] => Vendored[q] \subseteq Vendored[p]
    /\ TargetOf \in [Jobs -> Projects]
    /\ Loads \cup Edited \subseteq Projects
    /\ {Last, MaxInTurn, MaxAtOnce, MaxFaults, MaxNumber} \subseteq Nat
    /\ None \notin Projects \cup Jobs \cup Runners \cup Statuses

VARIABLES
    status, phase,  \* admin_git_restore_jobs
    there,          \* what has been committed of each project
    work,           \* projects with work of editors in their patterns
    next,           \* weave_entity_counters
    lock,           \* the project's exclusive lock
    run,
    started, faults,
    serial          \* do the runs come one after the other?

vars == <<status, phase, there, work, next, lock, run, started, faults, serial>>
jobs == <<status, phase>>
bounds == <<started, faults, serial>>

Phases == <<"validate", "vendored", "shell", "entities", "overrides", "provenance">>
Parts == {"shell", "entities", "overrides", "provenance"}
After(ph) == Phases[CHOOSE i \in 2..6 : Phases[i-1] = ph]
Exists(p) == "shell" \in there[p]

Idle == [pc |-> "idle", job |-> None, target |-> None, phase |-> "validate",
         todo |-> {}, done |-> {}, at |-> None]

Init ==
    /\ status = [j \in Jobs |-> None]
    /\ phase = [j \in Jobs |-> None]
    /\ there = [p \in Projects |-> {}]
    /\ work = {}
    /\ next = [p \in Projects |-> 1]
    /\ lock = [p \in Projects |-> None]
    /\ run = [r \in Runners |-> Idle]
    /\ started = 0 /\ faults = 0
    /\ serial \in BOOLEAN

MaxRuns == IF serial THEN MaxInTurn ELSE MaxAtOnce
Quiet == \A r \in Runners : run[r].pc = "idle"
Goto(r, pc) == run' = [run EXCEPT ![r].pc = pc]

\* The lock goes with its connection on every way out of Run.
LeaveFault(r) ==
    /\ run' = [run EXCEPT ![r] = Idle]
    /\ lock' = [p \in Projects |-> IF lock[p] = r /\ run[r].pc # "failing" THEN None ELSE lock[p]]
Leave(r) ==
    /\ run' = [run EXCEPT ![r] = Idle]
    /\ lock' = [p \in Projects |-> IF lock[p] = r THEN None ELSE lock[p]]

\* Create.
CreateJob(j) ==
    /\ status[j] = None
    /\ ~Exists(TargetOf[j])
    /\ status' = [status EXCEPT ![j] = "pending"]
    /\ UNCHANGED <<phase, there, work, next, lock, run, bounds>>

-----------------------------------------------------------------------------
(* Run of a job: the state is read, and set.                               *)

StartJob(r, j) ==
    /\ run[r].pc = "idle"
    /\ started < MaxRuns
    /\ serial => Quiet
    /\ status[j] \notin {None, "running", "completed"}
    /\ run' = [run EXCEPT ![r] = [Idle EXCEPT !.pc = "begin", !.job = j, !.target = TargetOf[j]]]
    /\ started' = started + 1
    /\ UNCHANGED <<jobs, there, work, next, lock, faults, serial>>

\* HydrateProjectSnapshot does not ask whether the project is there.
StartLoad(r, p) ==
    /\ run[r].pc = "idle"
    /\ started < MaxRuns
    /\ serial => Quiet
    /\ p \in Loads
    /\ run' = [run EXCEPT ![r] = [Idle EXCEPT !.pc = "lock", !.target = p]]
    /\ started' = started + 1
    /\ UNCHANGED <<jobs, there, work, next, lock, faults, serial>>

\* UpdateState.
Set(r, st, ph) ==
    IF run[r].job = None THEN UNCHANGED jobs
    ELSE status' = [status EXCEPT ![run[r].job] = st] /\ phase' = [phase EXCEPT ![run[r].job] = ph]

Begin(r) ==
    /\ run[r].pc = "begin"
    /\ Set(r, "running", "validate")
    /\ Goto(r, "validate")
    /\ UNCHANGED <<there, work, next, lock, bounds>>

ValidateFault(r) ==     \* the project may be there
    /\ run[r].pc = "validate"
    /\ Goto(r, "lock")
    /\ UNCHANGED <<jobs, there, work, next, lock, bounds>>

ReturnFault(r) ==       \* the error is returned, the job left alone
    /\ run[r].pc = "validate"
    /\ IF Exists(run[r].target) THEN Leave(r) ELSE Goto(r, "lock") /\ UNCHANGED lock
    /\ UNCHANGED <<jobs, there, work, next, bounds>>

\* ProjectExists, once the job is running.
Validate(r) ==
    /\ run[r].pc = "validate"
    /\ Goto(r, IF Exists(run[r].target) THEN "failing" ELSE "lock")
    /\ UNCHANGED <<jobs, there, work, next, lock, bounds>>

Lock(r) ==
    /\ run[r].pc = "lock"
    /\ lock[run[r].target] = None
    /\ lock' = [lock EXCEPT ![run[r].target] = r]
    /\ run' = [run EXCEPT ![r].pc = "mark", ![r].phase = "vendored"]
    /\ UNCHANGED <<jobs, there, work, next, bounds>>

\* Another restore or, for 30 seconds, a save has the project.
LockTimeout(r) ==
    /\ \/ run[r].pc = "lock" /\ lock[run[r].target] # None
       \/ run[r].pc = "vendorLock" /\ lock[run[r].at] \notin {None, r}
    /\ Goto(r, "failing")
    /\ UNCHANGED <<jobs, there, work, next, lock, bounds>>

MarkFault(r) ==         \* the phase that follows is noted
    /\ run[r].pc = "mark"
    /\ Set(r, "running", IF run[r].phase = "provenance" THEN "provenance" ELSE After(run[r].phase))
    /\ Goto(r, run[r].phase)
    /\ UNCHANGED <<there, work, next, lock, bounds>>

Mark(r) ==
    /\ run[r].pc = "mark"
    /\ Set(r, "running", run[r].phase)
    /\ Goto(r, run[r].phase)
    /\ UNCHANGED <<there, work, next, lock, bounds>>

\* The phase is through.
Advance(r) ==
    run' = [run EXCEPT ![r].pc = IF @ = "provenance" THEN "finish" ELSE "mark",
                       ![r].phase = IF @ = "provenance" THEN @ ELSE After(@)]

-----------------------------------------------------------------------------
(* HydrateVendored: the parents that are not there; shells and entities of  *)
(* all of them in the order of inheritance, then the patterns of each under *)
(* its own lock.                                                           *)

ListVendored(r) ==
    /\ run[r].pc = "vendored"
    /\ LET missing == {p \in Vendored[run[r].target] : ~Exists(p)} IN
         IF missing = {} THEN Advance(r)
         ELSE run' = [run EXCEPT ![r].pc = "vendorShell", ![r].todo = missing]
    /\ UNCHANGED <<jobs, there, work, next, lock, bounds>>

VendorShellFault(r) ==  \* in the order of the list
    /\ run[r].pc = "vendorShell"
    /\ \E p \in run[r].todo :
         IF \E q \in Inherits[p] : ~Exists(q) THEN Goto(r, "failing") /\ UNCHANGED there
         ELSE /\ there' = [there EXCEPT ![p] = @ \cup {"shell"}]
              /\ run' = [run EXCEPT ![r].pc = "vendorEntities", ![r].at = p]
    /\ UNCHANGED <<jobs, work, next, lock, bounds>>

\* topoOrderVendoredProjects, HydrateProjectShell
VendorShell(r) ==
    /\ run[r].pc = "vendorShell"
    /\ \E p \in run[r].todo :
         /\ Inherits[p] \cap run[r].todo = {}
         /\ IF \E q \in Inherits[p] : ~Exists(q) THEN Goto(r, "failing") /\ UNCHANGED there
            ELSE /\ there' = [there EXCEPT ![p] = @ \cup {"shell"}]
                 /\ run' = [run EXCEPT ![r].pc = "vendorEntities", ![r].at = p]
    /\ UNCHANGED <<jobs, work, next, lock, bounds>>

VendorEntities(r) ==
    /\ run[r].pc = "vendorEntities"
    /\ LET p == run[r].at IN
         /\ there' = [there EXCEPT ![p] = @ \cup {"entities"}]
         /\ run' = [run EXCEPT ![r].todo = @ \ {p}, ![r].done = @ \cup {p},
                               ![r].pc = IF run[r].todo = {p} THEN "vendorNext" ELSE "vendorShell"]
    /\ UNCHANGED <<jobs, work, next, lock, bounds>>

VendorNext(r) ==
    /\ run[r].pc = "vendorNext"
    /\ IF run[r].done = {} THEN run' = [run EXCEPT ![r].pc = "mark", ![r].phase = "shell", ![r].at = None]
       ELSE \E p \in run[r].done :
              /\ Inherits[p] \cap run[r].done = {}
              /\ run' = [run EXCEPT ![r].pc = "vendorLock", ![r].at = p]
    /\ UNCHANGED <<jobs, there, work, next, lock, bounds>>

VendorLock(r) ==
    /\ run[r].pc = "vendorLock"
    /\ lock[run[r].at] = None
    /\ lock' = [lock EXCEPT ![run[r].at] = r]
    /\ Goto(r, "vendorOverrides")
    /\ UNCHANGED <<jobs, there, work, next, bounds>>

\* HydrateProjectOverrides; a field of a vendored project that is not there is
\* an error.
Resolves(p) == \A q \in Vendored[p] : "entities" \in there[q]

Hydrate(p, part) ==
    /\ there' = [there EXCEPT ![p] = @ \cup {part}]
    /\ work' = IF part = "overrides" THEN work \ {p} ELSE work

VendorOverrides(r) ==
    /\ run[r].pc = "vendorOverrides"
    /\ IF Resolves(run[r].at)
       THEN Hydrate(run[r].at, "overrides") /\ Goto(r, "vendorProvenance")
       ELSE Goto(r, "failing") /\ UNCHANGED <<there, work>>
    /\ UNCHANGED <<jobs, next, lock, bounds>>

VendorProvenance(r) ==
    /\ run[r].pc = "vendorProvenance"
    /\ Hydrate(run[r].at, "provenance")
    /\ Goto(r, "vendorUnlock")
    /\ UNCHANGED <<jobs, next, lock, bounds>>

VendorUnlock(r) ==
    /\ run[r].pc = "vendorUnlock"
    /\ lock' = [lock EXCEPT ![run[r].at] = None]
    /\ run' = [run EXCEPT ![r].pc = "vendorNext", ![r].done = @ \ {run[r].at}]
    /\ UNCHANGED <<jobs, there, work, next, bounds>>

-----------------------------------------------------------------------------
(* The phases of the project itself, and the end.                          *)

ShellAndEntities(r) ==
    /\ run[r].pc \in {"shell", "entities"}
    /\ IF run[r].pc = "shell" /\ \E q \in Inherits[run[r].target] : ~Exists(q)
       THEN Goto(r, "failing") /\ UNCHANGED <<there, work>>
       ELSE Hydrate(run[r].target, run[r].pc) /\ Advance(r)
    /\ UNCHANGED <<jobs, next, lock, bounds>>

OverridesFault(r) ==    \* an identifier that is not found is skipped, with its override
    /\ run[r].pc = "overrides"
    /\ IF Resolves(run[r].target) THEN Hydrate(run[r].target, "overrides") ELSE UNCHANGED <<there, work>>
    /\ Advance(r)
    /\ UNCHANGED <<jobs, next, lock, bounds>>

Overrides(r) ==
    /\ run[r].pc = "overrides"
    /\ IF Resolves(run[r].target)
       THEN Hydrate(run[r].target, "overrides") /\ Advance(r)
       ELSE Goto(r, "failing") /\ UNCHANGED <<there, work>>
    /\ UNCHANGED <<jobs, next, lock, bounds>>

Provenance(r) ==
    /\ run[r].pc = "provenance"
    /\ Hydrate(run[r].target, "provenance") /\ Advance(r)
    /\ UNCHANGED <<jobs, next, lock, bounds>>

\* A job is completed; load-git moves the counters of its project on
\* (bumpEntityCounters).
Finish(r) ==
    /\ run[r].pc = "finish"
    /\ Set(r, "completed", None)
    /\ next' = IF run[r].job # None THEN next
               ELSE [next EXCEPT ![run[r].target] = IF @ > Last THEN @ ELSE Last + 1]
    /\ Leave(r)
    /\ UNCHANGED <<there, work, bounds>>

\* failJob
FailJob(r) ==
    /\ run[r].pc = "failing"
    /\ Set(r, "failed", run[r].phase)
    /\ Leave(r)
    /\ UNCHANGED <<there, work, next, bounds>>

-----------------------------------------------------------------------------
(* Failures: a phase, which rolls back, or a write of the job's state,       *)
(* which ends the run where it is; and a process that dies.                 *)

Fails(r) ==
    /\ run[r].pc # "idle"
    /\ faults < MaxFaults
    /\ faults' = faults + 1
    /\ IF run[r].pc \in {"begin", "mark", "finish", "failing"}
       THEN Leave(r) ELSE Goto(r, "failing") /\ UNCHANGED lock
    /\ UNCHANGED <<jobs, there, work, next, started, serial>>

Dies(r) ==
    /\ run[r].pc # "idle"
    /\ faults < MaxFaults
    /\ faults' = faults + 1
    /\ Leave(r)
    /\ UNCHANGED <<jobs, there, work, next, started, serial>>

-----------------------------------------------------------------------------
(* Editors of a project that is there.                                     *)

\* A save of a pattern takes the project's lock.
Edit(p) ==
    /\ "entities" \in there[p] /\ p \notin work
    /\ lock[p] = None
    /\ work' = work \cup {p}
    /\ UNCHANGED <<jobs, there, next, lock, run, bounds>>

\* AllocateEntityNumber: the number is gone also when the entity is there.
CreateEntity(p) ==
    /\ Exists(p)
    /\ next[p] < MaxNumber
    /\ next' = [next EXCEPT ![p] = @ + 1]
    /\ UNCHANGED <<jobs, there, work, lock, run, bounds>>

-----------------------------------------------------------------------------
Step(r) ==
    \/ Begin(r) \/ Validate(r) \/ Lock(r) \/ LockTimeout(r) \/ Mark(r)
    \/ ListVendored(r) \/ VendorShell(r) \/ VendorEntities(r) \/ VendorNext(r) \/ VendorLock(r)
    \/ VendorOverrides(r) \/ VendorProvenance(r) \/ VendorUnlock(r)
    \/ ShellAndEntities(r) \/ Overrides(r) \/ Provenance(r) \/ Finish(r) \/ FailJob(r)

Next ==
    \/ \E j \in Jobs : CreateJob(j)
    \/ \E p \in Edited : Edit(p) \/ CreateEntity(p)
    \/ \E r \in Runners :
         \/ \E j \in Jobs : StartJob(r, j)
         \/ \E p \in Projects : StartLoad(r, p)
         \/ Step(r) \/ Fails(r) \/ Dies(r)

\* A run goes on without the help of timeouts.
Fairness == \A r \in Runners : WF_vars(Step(r) /\ ~LockTimeout(r))
Spec == Init /\ [][Next]_vars /\ Fairness

-----------------------------------------------------------------------------
(* What restores promise.                                                  *)

PCs == {"idle", "begin", "validate", "lock", "mark", "vendored", "vendorShell", "vendorEntities",
        "vendorNext", "vendorLock", "vendorOverrides", "vendorProvenance", "vendorUnlock",
        "finish", "failing"} \cup Parts

TypeOK ==
    /\ status \in [Jobs -> Statuses \cup {None}]
    /\ phase \in [Jobs -> {Phases[i] : i \in 1..6} \cup {None}]
    /\ there \in [Projects -> SUBSET Parts]
    /\ work \subseteq {p \in Projects : "entities" \in there[p]}
    /\ next \in [Projects -> 1..MaxNumber + Last + 1]
    /\ lock \in [Projects -> Runners \cup {None}]
    /\ \A r \in Runners :
         /\ run[r].pc \in PCs
         /\ run[r].todo \cup run[r].done \subseteq Projects
         /\ {p \in Projects : lock[p] = r} \subseteq {run[r].target, run[r].at}
    /\ started \in 0..MaxRuns /\ faults \in 0..MaxFaults /\ serial \in BOOLEAN

Before(ph) ==
    CASE ph = "entities" -> {"shell"} [] ph = "overrides" -> {"shell", "entities"}
      [] ph = "provenance" -> Parts \ {"provenance"} [] OTHER -> {}

\* A completed job has restored every part of its project, however many runs
\* met and whatever each of them found there.
CompletedIsWhole == \A j \in Jobs : status[j] = "completed" => there[TargetOf[j]] = Parts

\* The phase of a job that runs, failed or died is no further than the project:
\* all that comes before it is committed, its parents first.
ProgressIsHonest ==
    \A j \in Jobs : status[j] \in {"running", "failed"} =>
        /\ Before(phase[j]) \subseteq there[TargetOf[j]]
        /\ phase[j] \notin {"validate", "vendored"} => \A q \in Vendored[TargetOf[j]] : Exists(q)

\* Runs that come one after the other fail for what is there or for a fault, and
\* never because a parent or a field of another project has yet to come: parents
\* are restored in order, and patterns after all entities.
OnlyFaultsFail ==
    \A r \in Runners : serial /\ faults = 0 /\ run[r].pc = "failing" => run[r].phase = "validate"

\* What editors have done in a project is replaced by load-git of that project
\* alone: not by a retry of a job, and not by a restore that vendors it (but for
\* edits made while that restore brings the project in).
WorkSurvives ==
    [][serial => \A p \in work \ work' : \E r \in Runners :
         \/ run[r].target = p /\ run[r].job = None
         \/ run[r].at = p]_vars

\* Every way out of a run settles the state of its job.
NoJobLeftRunning ==
    Quiet /\ faults = 0 => \A j \in Jobs : status[j] # "running"

\* What a restore job shows is what is committed, however many runs meet and
\* whatever each of them finds, and without a fault it is settled in the end.
JobsTellTheTruth == CompletedIsWhole /\ ProgressIsHonest /\ NoJobLeftRunning

\* Locks are given back on every way out and taken in the order of inheritance:
\* no run needs a timeout to end.
RunEnds == \A r \in Runners : run[r].pc # "idle" ~> run[r].pc = "idle"

\* A project whose job is completed has complete parents.
CompletedParentsWhole ==
    \A j \in Jobs : status[j] = "completed" => \A q \in Vendored[TargetOf[j]] : there[q] = Parts

\* The next entity of a restored project gets a number of its own
\* (restore_runner.go:73-74).
CreatesSucceed ==
    [][Quiet => \A p \in Projects : next'[p] # next[p] /\ there[p] = Parts => next[p] > Last]_vars

=============================================================================
