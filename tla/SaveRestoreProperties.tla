----------------------- MODULE SaveRestoreProperties ------------------------
(***************************************************************************)
(* What saves and restores of patterns must never do, and must finish.     *)
(***************************************************************************)
EXTENDS SaveRestore

Process == Saver \cup Restorer

\* A process that is not inside its locked section holds no lock and waits for
\* none: every way out of WithAdvisoryLock and LockProjectForRestore, the
\* half-acquired ones included, gives back what it took.
NoLockLeaks ==
    \A x \in Process, k \in Project \cup Entity :
        pc[x] \in {"idle", "load", "ready", "answered", "done", "failed"} =>
            /\ \A m \in Mode : ~Holds(x, k, m)
            /\ ~IsWaiting(x, k)

\* The first n commits left part p alone.
Untouched(p, n) ==
    /\ n > 0 => p \notin {"rows", "refs"}
    /\ \A i \in 1 .. n : Commits[i][1] # p

Isolated(s) ==
    /\ \A p \in FpPart :
          Untouched(p, stage[s]) /\ ~Unchecked(s) => db[entity[s]][p] = base[s][p]
    /\ \A i \in 1 .. stage[s] :
          LET c == Commits[i]
          IN (c[1] = "placements" => entity[s] \in Model)
              => \/ db[entity[s]][c[1]] = Mine(s, c[2])
                 \/ db[entity[s]][c[1]] = Mine(s, "all")

\* From the fingerprint check to the last commit nobody else touches the
\* entity: what the save has written is still its own, and what it has not
\* written yet is still what its fingerprint said (saveOverrides, WithEntityLock).
SaveIsolated == \A s \in Saver : pc[s] \in {"write", "fingerprint"} => Isolated(s)

\* A save that passes its fingerprint check overwrites exactly the content its
\* editor showed: reading the fingerprint before the content makes a race with
\* another save a refusal, never a silent overwrite (override_read.go).
NoSilentOverwrite ==
    \A s \in Saver :
        pc[s] = "write" /\ stage[s] = 0 /\ ~Unchecked(s)
            => seen[s] = Fingerprint(entity[s])

MidWrite(e) ==
    \/ \E s \in Saver : entity[s] = e /\ pc[s] = "write" /\ stage[s] > 0
    \/ \E r \in Restorer : target[r] = ProjectOf[e] /\ pc[r] = "provenance"

\* Rows, refs and adoption receipts of a pattern come from one writer, unless
\* one is half way or the last one stopped half way: a save that queued behind
\* a restore never loses its adoptions to the restore's second transaction.
PatternCoherent ==
    \A e \in Entity : e \notin torn /\ ~MidWrite(e) =>
        /\ db[e]["rows"] = db[e]["refs"]
        /\ db[e]["rows"] = db[e]["adoptions"]

\* The answer tells what was committed: a 200 means every commit of the save, a
\* "busy" or a "pattern changed" means none, also when only the teardown failed
\* or the locks were lost on the way (callbackRan, callbackErr and lockErr).
AnswerIsHonest ==
    \A s \in Saver :
        /\ outcome[s] = "ok" => stage[s] = 5
        /\ outcome[s] \in {"busy", "conflict"} => stage[s] = 0

\* The fingerprint a 200 carries is the one of the content the editor now shows,
\* its own: the next save of this editor is checked against its own version.
OkMeansMine ==
    \A s \in Saver : outcome[s] = "ok" =>
        /\ base[s] = seen[s]
        /\ base[s]["rows"] = Mine(s, "all")

\* Saves implement compare-and-swap on patterns.
Patterns == INSTANCE PatternStore WITH
    pattern <- [e \in Entity |-> db[e]["rows"]],
    view <- [s \in Saver |-> seen[s]["rows"]]

\* Every step of the locked, multi-commit save and of the restore is a step of
\* the abstract store, or leaves the patterns alone.
PatternStoreSpec == Patterns!Spec

\* Every submitted save is answered without help from a timeout: the two locks
\* are taken in one order everywhere, so no wait is circular.
SaveAnswered == \A s \in Saver : pc[s] = "project" ~> pc[s] = "answered"

\* A restore that asked for its project ends, however many saves keep coming.
RestoreEnds == \A r \in Restorer : pc[r] = "lock" ~> pc[r] \in {"done", "failed"}
=============================================================================
