----------------------------- MODULE ReleaseGit -----------------------------
(***************************************************************************)
(* Releases in git (pkg/service/gitmaterializer/release_materialize.go).   *)
(* Creating or archiving a release commits a row of the database together  *)
(* with a closed change set (pkg/weave/release).  Drainers take the change *)
(* sets one by one under the project's lock file: a release becomes a      *)
(* commit on refs/heads/releases (the archived snapshot and the index of   *)
(* all releases as it is now) and an annotated tag on it; an archival      *)
(* becomes a commit that replaces the index only.  A tag that exists is    *)
(* verified, never cut again.  The backfill enqueues change sets for       *)
(* releases that have neither tag nor pending change set.                  *)
(*                                                                         *)
(* One project.  A commit is the sequence of commits that ends with it.    *)
(***************************************************************************)
EXTENDS Naturals, Sequences, FiniteSets, SequencesExt

CONSTANTS
    Versions,   \* versions that may be released
    Drainers,   \* workers that process change sets
    MaxSets,    \* bound on the change sets ever enqueued
    MaxFaults,  \* bound on failures and crashes of workers
    MaxRewrites, \* bound on the releases whose archive is changed later
    None        \* model value

ASSUME ReleaseGitAssumption ==
    /\ MaxSets \in Nat /\ MaxFaults \in Nat /\ MaxRewrites \in Nat
    /\ None \notin Versions \cup Drainers

VARIABLES
    released, archived,   \* weave_releases
    rewritten,            \* releases whose archive rows were changed later
    sets,                 \* change sets in the order of closed_at
    processed,            \* indices of sets that are marked
    mismatched,           \* versions with outcome release_tag_mismatch
    branch,               \* commits of refs/heads/releases
    tags,                 \* the commit each version's tag points at, or <<>>
    flock,                \* holder of the project's lock file
    at, todo, tree, next, \* the drainers
    probe,                \* the backfill: versions found without a tag
    faults

rows == <<released, archived, rewritten>>
git == <<branch, tags>>
vars == <<released, archived, rewritten, sets, processed, mismatched, branch,
          tags, flock, at, todo, tree, next, probe, faults>>

\* loadReleasesIndex: every release and whether it is archived.
Index == {<<v, v \in archived>> : v \in released}

Snapshot(v) == <<v, v \in rewritten>>

Tip(commits) == commits[Len(commits)].tree

Init ==
    /\ released \in SUBSET Versions   \* releases older than the outbox
    /\ archived = {} /\ rewritten = {}
    /\ sets = <<>> /\ processed = {} /\ mismatched = {}
    /\ branch = <<>>
    /\ tags = [v \in Versions |-> <<>>]
    /\ flock = None
    /\ at = [d \in Drainers |-> "idle"]
    /\ todo = [d \in Drainers |-> {}]
    /\ tree = [d \in Drainers |-> None]
    /\ next = [d \in Drainers |-> <<>>]
    /\ probe = {}
    /\ faults = 0

-----------------------------------------------------------------------------
(* Requests, each one transaction.                                         *)

Enqueue(kind, v) ==
    /\ Len(sets) < MaxSets
    /\ sets' = Append(sets, [kind |-> kind, version |-> v])

Create(v) ==
    /\ v \notin released
    /\ released' = released \cup {v}
    /\ Enqueue("release", v)
    /\ UNCHANGED <<archived, rewritten, processed, mismatched, git, flock,
                   at, todo, tree, next, probe, faults>>

Archive(v) ==
    /\ v \in released \ archived
    /\ archived' = archived \cup {v}
    /\ Enqueue("release_archived", v)
    /\ UNCHANGED <<released, rewritten, processed, mismatched, git, flock,
                   at, todo, tree, next, probe, faults>>

\* A migration, a repair or a new encoder changes what a release is written as.
Rewrite(v) ==
    /\ Cardinality(rewritten) < MaxRewrites
    /\ v \in released \ rewritten
    /\ rewritten' = rewritten \cup {v}
    /\ UNCHANGED <<released, archived, sets, processed, mismatched, git, flock,
                   at, todo, tree, next, probe, faults>>

\* EnqueueMissingReleases: the tag is looked for, then a pending change set.
ProbeTag(v) ==
    /\ v \in released /\ tags[v] = <<>>
    /\ probe' = probe \cup {v}
    /\ UNCHANGED <<rows, sets, processed, mismatched, git, flock, at, todo,
                   tree, next, faults>>

Pending(v) ==
    \E i \in DOMAIN sets \ processed : sets[i] = [kind |-> "release", version |-> v]

Backfill(v) ==
    /\ v \in probe
    /\ probe' = probe \ {v}
    /\ IF Pending(v) THEN UNCHANGED sets ELSE Enqueue("release", v)
    /\ UNCHANGED <<rows, processed, mismatched, git, flock, at, todo, tree,
                   next, faults>>

-----------------------------------------------------------------------------
(* A drainer.                                                              *)

Unprocessed == DOMAIN sets \ processed

List(d) ==
    /\ at[d] = "idle"
    /\ Unprocessed # {}
    /\ todo' = [todo EXCEPT ![d] = Unprocessed]
    /\ at' = [at EXCEPT ![d] = "next"]
    /\ UNCHANGED <<rows, sets, processed, mismatched, git, flock, tree, next,
                   probe, faults>>

EndPass(d) ==
    /\ at[d] = "next" /\ todo[d] = {}
    /\ at' = [at EXCEPT ![d] = "idle"]
    /\ UNCHANGED <<rows, sets, processed, mismatched, git, flock, todo, tree,
                   next, probe, faults>>

\* The list is in the order of closed_at, which is that of sets.
Current(d) == Min(todo[d])
Version(d) == sets[Current(d)].version

\* Fault: no lock file.
LockFault(d) ==
    /\ at[d] = "next" /\ todo[d] # {}
    /\ flock' = d
    /\ at' = [at EXCEPT ![d] =
                IF sets[Current(d)].kind = "release_archived" THEN "archive"
                ELSE IF tags[Version(d)] # <<>> THEN "verify" ELSE "build"]
    /\ UNCHANGED <<rows, sets, processed, mismatched, git, todo, tree, next,
                   probe, faults>>

\* Under the lock: is there a tag?
Lock(d) ==
    /\ at[d] = "next" /\ todo[d] # {}
    /\ flock = None
    /\ flock' = d
    /\ at' = [at EXCEPT ![d] =
                IF sets[Current(d)].kind = "release_archived" THEN "archive"
                ELSE IF tags[Version(d)] # <<>> THEN "verify" ELSE "build"]
    /\ UNCHANGED <<rows, sets, processed, mismatched, git, todo, tree, next,
                   probe, faults>>

\* The change set is marked, or left for a retry, and the lock goes.
Leave(d) ==
    /\ flock' = None
    /\ todo' = [todo EXCEPT ![d] = @ \ {Current(d)}]
    /\ tree' = [tree EXCEPT ![d] = None]
    /\ next' = [next EXCEPT ![d] = <<>>]
    /\ at' = [at EXCEPT ![d] = "next"]

\* Fault: the tag's tree is compared with the index as it is now.
VerifyFault(d) ==
    LET v == Version(d) IN
    /\ at[d] = "verify"
    /\ mismatched' = IF [snapshot |-> Snapshot(v), index |-> Index] = Tip(tags[v])
                       THEN mismatched ELSE mismatched \cup {v}
    /\ processed' = processed \cup {Current(d)}
    /\ Leave(d)
    /\ UNCHANGED <<rows, sets, git, probe, faults>>

\* The snapshot with the tag's own index against the tag's tree.
Verify(d) ==
    LET v == Version(d) IN
    /\ at[d] = "verify"
    /\ mismatched' = IF Snapshot(v) = Tip(tags[v]).snapshot
                       THEN mismatched ELSE mismatched \cup {v}
    /\ processed' = processed \cup {Current(d)}
    /\ Leave(d)
    /\ UNCHANGED <<rows, sets, git, probe, faults>>

\* buildReleaseTree: the snapshot and the index as it is now.
Build(d) ==
    /\ at[d] = "build"
    /\ tree' = [tree EXCEPT ![d] = [snapshot |-> Snapshot(Version(d)), index |-> Index]]
    /\ at' = [at EXCEPT ![d] = "commit"]
    /\ UNCHANGED <<rows, sets, processed, mismatched, git, flock, todo, next,
                   probe, faults>>

\* Fault: the index already on the branch is kept.
ReadIndexFault(d) ==
    /\ at[d] = "archive"
    /\ tree' = [tree EXCEPT ![d] =
                  IF branch = <<>> THEN [snapshot |-> None, index |-> Index]
                  ELSE Tip(branch)]
    /\ at' = [at EXCEPT ![d] = "commit"]
    /\ UNCHANGED <<rows, sets, processed, mismatched, git, flock, todo, next,
                   probe, faults>>

\* The index is read before the tip it replaces the index of.
ReadIndex(d) ==
    /\ at[d] = "archive"
    /\ tree' = [tree EXCEPT ![d] =
                  [snapshot |-> IF branch = <<>> THEN None ELSE Tip(branch).snapshot,
                   index |-> Index]]
    /\ at' = [at EXCEPT ![d] = "commit"]
    /\ UNCHANGED <<rows, sets, processed, mismatched, git, flock, todo, next,
                   probe, faults>>

\* Fault: any tip of the same snapshot passes for archived.
AlreadyArchivedFault(d) ==
    /\ at[d] = "commit"
    /\ sets[Current(d)].kind = "release_archived"
    /\ branch # <<>> /\ tree[d].snapshot = Tip(branch).snapshot
    /\ processed' = processed \cup {Current(d)}
    /\ Leave(d)
    /\ UNCHANGED <<rows, sets, mismatched, git, probe, faults>>

\* An archival that changes nothing at the tip is a no-op.
AlreadyArchived(d) ==
    /\ at[d] = "commit"
    /\ sets[Current(d)].kind = "release_archived"
    /\ branch # <<>> /\ tree[d] = Tip(branch)
    /\ processed' = processed \cup {Current(d)}
    /\ Leave(d)
    /\ UNCHANGED <<rows, sets, mismatched, git, probe, faults>>

\* Fault: the commit has no parent.
CommitTreeFault(d) ==
    /\ at[d] = "commit"
    /\ sets[Current(d)].kind = "release_archived" /\ branch # <<>>
         => tree[d] # Tip(branch)
    /\ next' = [next EXCEPT ![d] = <<[set |-> Current(d), tree |-> tree[d]]>>]
    /\ at' = [at EXCEPT ![d] = "ref"]
    /\ UNCHANGED <<rows, sets, processed, mismatched, git, flock, todo, tree,
                   probe, faults>>

\* commit-tree on top of the branch: no ref names the commit yet.
CommitTree(d) ==
    /\ at[d] = "commit"
    /\ sets[Current(d)].kind = "release_archived" /\ branch # <<>>
         => tree[d] # Tip(branch)
    /\ next' = [next EXCEPT ![d] = Append(branch, [set |-> Current(d), tree |-> tree[d]])]
    /\ at' = [at EXCEPT ![d] = "ref"]
    /\ UNCHANGED <<rows, sets, processed, mismatched, git, flock, todo, tree,
                   probe, faults>>

UpdateRef(d) ==
    /\ at[d] = "ref"
    /\ branch' = next[d]
    /\ at' = [at EXCEPT ![d] =
                IF sets[Current(d)].kind = "release" THEN "tag" ELSE "mark"]
    /\ UNCHANGED <<rows, sets, processed, mismatched, tags, flock, todo, tree,
                   next, probe, faults>>

\* git refuses a tag that exists: the change set is retried.
TagAnnotated(d) ==
    /\ at[d] = "tag"
    /\ \/ /\ tags[Version(d)] = <<>>
          /\ tags' = [tags EXCEPT ![Version(d)] = next[d]]
          /\ at' = [at EXCEPT ![d] = "mark"]
          /\ UNCHANGED <<flock, todo, tree, next>>
       \/ /\ tags[Version(d)] # <<>>
          /\ Leave(d)
          /\ UNCHANGED tags
    /\ UNCHANGED <<rows, sets, processed, mismatched, branch, probe, faults>>

MarkProcessed(d) ==
    /\ at[d] = "mark"
    /\ processed' = processed \cup {Current(d)}
    /\ Leave(d)
    /\ UNCHANGED <<rows, sets, mismatched, git, probe, faults>>

\* Fault: a change set that failed is marked processed.
MarksFailures(d) ==
    /\ at[d] \in {"verify", "build", "archive", "commit", "ref", "tag", "mark"}
    /\ faults < MaxFaults
    /\ faults' = faults + 1
    /\ processed' = processed \cup {Current(d)}
    /\ Leave(d)
    /\ UNCHANGED <<rows, sets, mismatched, git, probe>>

\* Any call fails, or the process dies and the rest of its pass with it.
Fault(d) ==
    /\ at[d] \in {"verify", "build", "archive", "commit", "ref", "tag", "mark"}
    /\ faults < MaxFaults
    /\ faults' = faults + 1
    /\ flock' = None
    /\ \E rest \in {todo[d] \ {Current(d)}, {}} : todo' = [todo EXCEPT ![d] = rest]
    /\ tree' = [tree EXCEPT ![d] = None]
    /\ next' = [next EXCEPT ![d] = <<>>]
    /\ at' = [at EXCEPT ![d] = "next"]
    /\ UNCHANGED <<rows, sets, processed, mismatched, git, probe>>

-----------------------------------------------------------------------------
Request(v) == Create(v) \/ Archive(v) \/ Rewrite(v) \/ ProbeTag(v) \/ Backfill(v)

DrainStep(d) ==
    \/ EndPass(d) \/ Verify(d) \/ Build(d) \/ ReadIndex(d) \/ AlreadyArchived(d)
    \/ CommitTree(d) \/ UpdateRef(d) \/ TagAnnotated(d) \/ MarkProcessed(d)

Next ==
    \/ \E v \in Versions : Request(v)
    \/ \E d \in Drainers : List(d) \/ Lock(d) \/ DrainStep(d) \/ Fault(d)

Spec == Init /\ [][Next]_vars

\* The server's poller fires again and again and gets the lock in the end;
\* a drainer that runs goes on.
Fairness ==
    \A d \in Drainers : WF_vars(List(d)) /\ SF_vars(Lock(d)) /\ WF_vars(DrainStep(d))

FairSpec == Spec /\ Fairness

-----------------------------------------------------------------------------
Tree == [snapshot : (Versions \X BOOLEAN) \cup {None}, index : SUBSET (Versions \X BOOLEAN)]
Commit == [set : 1..MaxSets, tree : Tree]

Set == [kind : {"release", "release_archived"}, version : released]
Stages == {"idle", "next", "verify", "build", "archive", "commit", "ref", "tag", "mark"}

TypeOK ==
    /\ released \subseteq Versions /\ archived \subseteq released
    /\ rewritten \subseteq released /\ mismatched \subseteq released /\ probe \subseteq released
    /\ sets \in Seq(Set) /\ Len(sets) <= MaxSets /\ processed \subseteq DOMAIN sets
    /\ branch \in Seq(Commit) /\ tags \in [Versions -> Seq(Commit)]
    /\ at \in [Drainers -> Stages] /\ todo \in [Drainers -> SUBSET DOMAIN sets]
    /\ tree \in [Drainers -> Tree \cup {None}] /\ next \in [Drainers -> Seq(Commit)]
    /\ \A d \in Drainers :
          /\ at[d] \in {"idle", "next"} <=> flock # d
          /\ at[d] \notin {"idle", "next"} => todo[d] # {}
    /\ faults \in 0..MaxFaults

\* A tag points at a commit of the releases branch, of its own change set's
\* snapshot, and its index names the version: no commit a tag needs is ever
\* pushed off the branch by another drainer.
TagsOnBranch ==
    \A v \in Versions : tags[v] # <<>> =>
        /\ IsPrefix(tags[v], branch)
        /\ Tip(tags[v]).snapshot[1] = v
        /\ \E flag \in BOOLEAN : <<v, flag>> \in Tip(tags[v]).index

\* "never a silent re-tag": a tag that exists stays where it is, and a release
\* is reported mismatched only if its archive rows really were changed.
TagsFrozen ==
    [][/\ \A v \in Versions : tags[v] # <<>> => tags'[v] = tags[v]
       /\ \A v \in mismatched' \ mismatched : v \in rewritten]_vars

\* The history of the branch only grows, and its index never forgets a
\* release or an archival.
BranchGrows ==
    [][/\ IsPrefix(branch, branch')
       /\ branch # <<>> => \A v \in Versions :
            /\ <<v, TRUE>> \in Tip(branch).index => <<v, TRUE>> \in Tip(branch').index
            /\ <<v, FALSE>> \in Tip(branch).index =>
                  \E flag \in BOOLEAN : <<v, flag>> \in Tip(branch').index]_vars

\* Nothing that was published is taken back or rewritten.
HistoryIsKept == BranchGrows /\ TagsFrozen

\* The index at the tip lags behind the database only while a change set that
\* will bring it up to date is still to be processed.
IndexLagIsPending ==
    branch # <<>> /\ Tip(branch).index # Index => DOMAIN sets \ processed # {}

\* "Re-runs are idempotent": a release has one commit on the branch.
OneCommitPerRelease ==
    \A i, j \in DOMAIN branch :
        /\ sets[branch[i].set] = sets[branch[j].set]
        /\ sets[branch[i].set].kind = "release"
        => i = j

\* Every release that has a change set is tagged, and every archival that was
\* enqueued reaches the index at the tip.
ReleasesTagged == \A v \in Versions : Pending(v) ~> tags[v] # <<>>
ArchivalsShown ==
    \A v \in Versions :
        v \in archived ~> branch # <<>> /\ <<v, TRUE>> \in Tip(branch).index
SetsReachGit == ReleasesTagged /\ ArchivalsShown

=============================================================================
