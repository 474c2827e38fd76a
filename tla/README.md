# TLA+ verification of pletka

Pletka is a server on which curators of cultural-heritage projects write
*patterns*: models and collections that place fields, with overrides, in
categories. Everything lives in Postgres. A materializer turns what was saved
into files of a git repository per project, releases become commits and tags,
and a project can be restored from such a repository.

The program has few clever algorithms and much *coordination*: a save is a
series of separately committed writes, the git side is an outbox drained by
several processes, a release is a long transaction at READ COMMITTED, and the
tables that tie projects together (links to parents, adoption receipts) are
read and replaced by handlers that take no lock. The modules here model those,
and the smaller services around them, as the code under `src/` does them, and
state what must hold of them however requests, workers, failures and crashes
interleave.

Paths below are relative to `src/`.

## 1 The system

### Components, their state and their operations

| component | state | operations | where |
|---|---|---|---|
| advisory locks | Postgres lock table (project, entity), per session | acquire SHARED/EXCLUSIVE with `lock_timeout`, release, loss of the session | `pkg/database/advisorylock` |
| pattern save and editor load | override rows, refs, provenance, adoptions of a model or collection; the fingerprint is computed | load the editor, save the whole pattern, 409 on a stale fingerprint | `pkg/weave/project/override_{read,write}.go`, `pkg/weave/override` |
| override rows | rows with an id; values of examples hang on the id | match, diff, replace, log | `pkg/weave/override/{reconcile,diff,service,store_postgres}.go` |
| restore | everything of a project | plan from a git tree, lock, hydrate in three phases, vendored projects | `pkg/service/gitmaterializer/restore*.go`, `pkg/weave/gitrestoreadmin` |
| outbox | change sets, change log | implicit change set, entity write, flush, close | `pkg/weave/store.go`, `changelog_runner.go` |
| git materializer | work tree, draft branch, file lock; marks on change sets | poll, drain, sweep (`Reconcile`), CLI drain | `pkg/service/gitmaterializer` |
| releases in git | branch `releases`, tags, `releases.yml` | commit and tag a release, verify a tag, archival, backfill | `release_materialize.go` |
| releases in the database | `weave_releases`, the `*_archive` tables | create, archive; read a frozen version | `pkg/weave/release`, `pkg/weave/published` |
| inheritance | links to parents (draft or pinned), the scalar parent column | add, change the source, make primary, reorder, remove, re-pin; cycle trigger | `pkg/weave/project_inheritance_store.go`, `settings/handler.go`, `project/repin.go`, migration 004 |
| adoption and forks | receipts, copied categories, forked models | adopt, fork, drop a fork, edit and remove a category, link and unlink a parent | `pkg/weave/adoption_store.go`, `project/adoption.go`, `model/service.go`, `category/service.go` |
| restore jobs | job rows with a state and a phase | create, run, retry; `load-git` beside them | `pkg/weave/gitrestoreadmin`, `restore_runner.go`, `restore_vendored_projects.go` |
| autocomplete index | cache with an epoch, builds under way | build once for all who ask, evict, invalidate on import | `pkg/weave/ontology/autocomplete/cache.go` |
| presence | in-memory sessions of editors | beat, expiry, leave, a cap per actor | `pkg/weave/override/presence.go` |
| connection pool | free connections | a save takes one for its locks and one per transaction | `pkg/weave/override/store_postgres.go`, `pkg/app/cliruntime/db.go` |
| the rest | single-row or single-transaction writes; renderers; reads | CRUD, exports, search, pages | see `PROJECT.json` |

`PROJECT.json` lists all 44 parts, modelled or not, with the reason.

### How they interact

    browser --load/save--> handler --locks--> Postgres <--locks-- restore job
                              |  entity write, then flush + close (outbox)
                              v
                        change sets (closed, unprocessed)
                              ^ list                       ^ one transaction with
               poller / CLI --+-- file lock, rewrite,      | the archive rows
                              |   commit, mark             |
                              v                            |
                 git: main, releases, tags        release create / archive
                              ^
                  nightly sweep (file lock only)

Nothing but Postgres and the file lock in the git directory ties the processes
together: there are no retries in a handler, no leader, and every worker reads
the change sets it will process before it has the lock.

### Where it is hard, and what makes it right

* **Saves.** A save is five or more commits on different connections, under
  locks held by another. *Right*: nobody else writes the pattern between its
  commits; a submission never replaces content its editor did not see; an answer
  tells what was committed; no way out keeps a lock.
* **Row identity.** Diff and write classify the same draft twice, by code that
  was written twice; rows and log are two commits. *Right*: the change log replays to the
  table, but for rows whose own flush was lost; a row that can be updated is never replaced; refs stay with their placement.
* **Outbox.** Entity write and log are two commits; drainers overlap; the
  sweep tears down what it rebuilds. *Right*: a committed change reaches git or
  is still waiting to; a deleted file does not come back; a commit is made of
  its own change set; a poisoned change set starves nobody.
* **Inheritance.** Requests of several transactions, each of several statements
  that see what is committed when they start; a trigger and a unique index that
  see committed rows only. *Right*: links close a cycle only if they were added at the same
  time, and nothing else makes one; one primary parent, the one the scalar column names; no
  request hangs.
* **Adoption.** List, decide, replace all, without a lock. *Right*: a receipt
  goes only when somebody gave it up or a stale list lost it, a parent leaves only when nothing
  of it is in use, a source is forked once.
* **Restore jobs.** Phases that commit one by one, retries that skip what is
  there. *Right*: what a job shows is what is committed; a restore fails for a
  fault and for nothing else.
* **Services.** A build that overlaps an import, beats that arrive out of
  order, saves that wait for each other's connections. *Right*: no index older
  than what the cache was told; the oldest session is the one evicted; every save ends.
* **Releases.** Two refs moved one after the other; an index read before the
  commit; archive rows that belong to ancestors. *Right*: tags stay on the
  branch and are never cut again; the index forgets nothing; nothing in a release is replaced
  or pinned anew; a release is made of drafts of its time and, undisturbed, holds its ancestry as pinned.

The 40 hazards of `PROJECT.json` name the line where each of these bites and the
properties that watch it. Where the code does go wrong there, the property says exactly how far
it can (`CyclesOverlap`, `ReleaseKeeps`, `PrimaryKept`, `LastBeatShown` are of this form) and a note names
what is let through. Two hazards have no property: the further configurations `InheritanceRepin`
and `RestoreCounters` show theirs violated.

## 2 Modules and code

| module | models | composed from |
|---|---|---|
| `AdvisoryLock` | the lock table: `Acquire`, `Grant`, `GiveUp` (timeout), `Unlock`, `Disconnect`; external, as `advisorylock.go` relies on it | – |
| `SaveRestore` | editor load, save and restore of whole projects, commit by commit | `AdvisoryLock` |
| `PatternStore` | the abstract specification: compare-and-swap on patterns | – |
| `SaveRestoreProperties` | the properties of `SaveRestore` and the refinement to `PatternStore` | both |
| `OverrideRows` | row identity: `matchOverrides`, `ComputeDiff`, `ReplaceForEntity`, change log, refs | – |
| `Materializer` | outbox, drainers, poller, sweep, work tree, draft branch | – |
| `ReleaseGit` | releases, archivals and backfill as commits and tags | – |
| `ReleaseLineage` | creation of a release along the chain of parents, in the archive tables | – |
| `Inheritance` | the requests that write links, statement by statement, the trigger and the index | – |
| `Adoption` | receipts, copies of categories, forks, statement by statement | – |
| `RestoreJobs` | jobs and load-git, phase by phase, vendored parents and their locks | – |
| `IndexCache` | the cache of autocomplete indexes, its event bus, imports | – |
| `Presence` | the registry of editing sessions | – |
| `SavePool` | connections held and wanted by saves | – |
| `Services` | the last five side by side, one of them at work: `RestoreJobs` extended, the others as instances | the five |
| `SaveRestoreProofs`, `OverrideRowsProofs`, `MaterializerProofs`, `ReleaseGitProofs`, `ReleaseLineageProofs`, `InheritanceProofs`, `RestoreJobsProofs`, `ServicesProofs` | theorems about the module each is named after | TLAPS |
| other `MC_*` | model values, symmetry, small functions for TLC | |

Operators named `...Fault`, `ArchiveMetaUpsert` and `MarksFailures` are the definition that follows them with one
plausible mistake, and nothing uses them. `PROJECT.json` pairs one with each property; the
others break another conjunct of a property that has several: `SettleFault` the
`ScalarFollows` of `ParentsAgree`, `VerifyFault` the `TagsFrozen` of `HistoryIsKept`,
`MarksFailures` the `SetsReachGit` of `ReleaseGit`, `ReturnFault` and (in `RestoreJobs`)
`OverridesFault` the `JobsTellTheTruth`, `PutAllFault` and `LockBusyFault` parts of
`LimitsHold`, `PublishedFault` the `IndexIsFresh`, `CountFault` the `RemovalIsSafe` and
`ForkFault` the `ForksAreKept`.

### SaveRestore

`holds`/`waits` are Postgres' lock table. `pc` is the line a save or a restore is
at, `db[e]` the committed version of each part of an entity that has
writes of its own (rows, refs, placements, adoptions), `stage` how many of its commits
a running save has made. `base` is the fingerprint the next submission carries,
`seen` what the editor showed, `outcome` what the callback decided. Content is a
version, unique to each submission, so equality of versions is equality of
content (with `Undo`, a submission may bring earlier content back, as in real life).

* `StartLoad`, `ReadPart` – `override_read.go`: fingerprint first, then content piecewise, each a snapshot of its own. `StartBlind` – tooling that posts without a fingerprint.
* `Submit`/`Resubmit`, `TakeEntityLock`, `LockTimeout` – `WithAdvisoryLock`: project SHARED, then entity EXCLUSIVE.
* `CheckFingerprint`, `WritePart`, `CallbackFails`, `ReturnFingerprint` – the callback of `saveOverrides`, one action per commit.
* `UnlockEntity`, `UnlockProject`, `TeardownFails`, `SaveDies`, `LoseLocks` – the deferred releases, the process or connection that ends.
* `StartRestore` ... `RestoreUnlock`, `RestoreFails`, `RestoreTimeout` – `LockProjectForRestore`, the three transactions of `HydrateRestorePlan`.

### OverrideRows

`rows` is the table of one entity. `Load` is the snapshot `SaveForEntity`
diffs against, `TxRead` the second one in the transaction, `TxCommit` commits the rows and makes the
entries, in memory. `LogCommit` flushes them in a transaction of their own: `told` is the table as the
flushed entries tell it. `LogFails` is the save whose rows stand and whose entries are lost; `lost` has the
rows it changed, until a save that changes them again is logged. A draft is any sequence of rows with known, unknown, duplicate or no ids.
With `Locked` no second writer comes between; without it (the flat
`PUT .../overrides` routes) it may.

### Materializer

`db` is the content of each entity, `wt` the work tree, `head` the files of the
last commit, `begun` the requests in the order of `closed_at`, `processed` the
marks, `queue` what a worker has listed and not yet reached, `flock` the
holder of the lock file. `WriteEntity` and `CloseChangeSet` are the two transactions of a
request, `FlushFails` the accepted loss between them. A worker goes
`List` → `Lock` → (`RemoveFile` | `Lookup` → `ReadRow` → `WriteFile`)* → `Commit` →
`MarkProcessed`, or `SweepLock` → `SweepReset` → (`SweepRead`, `WriteFile`)* →
`SweepCommit`. `Fail`, `Fault`, `Orphaned` and `AlwaysFails` are the error paths;
a failed set stays listed, as in `ProcessPending`. The history `swept` has the files that a sweep has taken
out of the work tree and no one has written since.

### ReleaseGit

`sets` are the change sets in order of `closed_at`, `branch` the commits of
`refs/heads/releases`, `tags` what each tag points at. A worker goes `Lock` →
`Verify` (tag exists) or `Build` → `ReadIndex` → `CommitTree` → `UpdateRef` →
`TagAnnotated` → `MarkProcessed`; `Backfill` probes the tags first and looks for a pending
set second, as the code does.

### ReleaseLineage

`links`, `onts`, `meta` are the draft tables, `archLinks`, `archOnts`, `archMeta` their
archive twins keyed by project and number; `tx` is the release being created. `Begin` checks for draft
parents and that the project has not used the number (another project may have: numbers are free per
project); `ArchiveLinks`, `ArchiveMeta`, `ArchiveOnts` are the statements in their order, each ON CONFLICT DO NOTHING and
each on what is committed when it starts, so the edits (`EditProject`, `SetParent`, `RemoveParent`,
`SwitchOntology`) fall between them as they please; `Commit` makes the release. `Chain` is what the recursive query returns: the least
set with the draft of the project that is closed under parents. Three histories serve the properties: `found`, what the
archive held under the release's key when it began; `drafts`, the drafts its project has had since; `raced`, whether
a link was switched to the draft between check and copy.

### Inheritance

`link` is the committed table (child, parent → source, primary), `scalar` the column of
`weave_projects` that repeats the primary parent. A request `req[r]` has an
operation, the point it has reached and, while a transaction is open, its own uncommitted rows; a
statement waits (`Free`, `IndexFree`) for rows another has written. `HoldsPrimary` says who makes others wait at the unique index on primary rows. `Insert` runs the
cycle trigger on what its transaction sees; `Delete`, `Settle` and `ClearAndSet` keep
one primary; `ReadHead` and `UpdateProject` move the scalar column;
`Classify`/`ApplyRepins` are the operator's re-pin, `ListChildren`/`NextChild` the synchronisation
of ontologies. `DeadlockVictim` is Postgres' way out of a cycle of
waiters. Transactions that insert links run side by side as they come. The history `missed` has the pairs of links of
which the second was committed (`Adds`) after the trigger had let the first pass (`Checked`) and before that one was
committed.

### Adoption

`table` has the receipts of one project, `local` its copied categories, `models` and `forks` the
models there are, `linked` its parents. Every handler goes list → `Replace` →
`Erase` → `Insert` → `Commit`, the statements of `ReplaceForContext`; before it `Fork`
creates a model and records it, `Link` copies categories one by one, `Unlink`
asks what blocks it. `CleanUp` is the deferred removal of what a failed request made,
`Dies` the request that has no context left to clean up with.

### RestoreJobs

`status` and `phase` are the row of a job, `there` the committed parts of each project,
`work` what editors did since, `lock` the project lock, `run` the runs. A run goes
`Begin` → `Validate` → `Lock` → `Mark` and then phase by phase: `ListVendored`,
`VendorShell`/`VendorEntities` (first pass, in the order of inheritance), `VendorLock` ..
`VendorUnlock` (second pass), `ShellAndEntities`, `Overrides`, `Provenance`, `Finish`. `FailJob`, `Fails` and
`Dies` are its ways out.

### IndexCache, Presence, SavePool

`IndexCache`: `content` counts the imports of a version, `heard` those the cache was told of, `entries` are the
indexes, each as the versions of the content its three queries read, `older` the keys in the cache last used before each
key (what `evictLocked` compares times of access for), `leader` the one
that builds for all. `Ask` → `Warm` → `ReadEpoch` → `Fly` → `Build` (three queries, imports in
between) → `Put` → `Finish`.

`Presence`: `byEntry` is the map of the registry, a request reads the clock in `Arrive` and
takes the mutex in `Beat` or `Leave` and once more in `Others`. The history `last` is each actor's latest beat, by the time
it read the clock: one that is applied after it with an older time (`Late`) does not replace it, except where the code
loses track (a late beat of the same session, which puts `lastSeen` back; ties; a session without an id). `Oldest` is the set of sessions that
`evictOldestSession` may close, over all orders in which Go may walk its map: the one seen longest ago
(of several, any), but where the one without an id is open also another (§3).

`SavePool`: a save goes `Connect` → `Lock` or `LockBusy` → (`Begin` → `Commit`)*; `Timeout` is
the request that is cut off after a minute.

## 3 Runs

| run | instance | distinct states | shows |
|---|---|---|---|
| `save_restore` | 2 editors, 1 restore, a model and a collection, a submission each | 778 thousand | safety of both locks through failures, timeouts and deaths, and the refinement to `PatternStore` |
| `save_liveness` | 2 editors, 1 restore, 1 model | | every save answered, every restore ends |
| `save_loss_answers` | 1 editor with a second submission, 1 restore, connections may be lost | | honest answers also when locks are lost |
| `override_rows` | 2 saves of up to 2 rows, 2 fields × 2 places × 2 positions, flushes may fail | 306 thousand | log, identity and refs agree |
| `materializer` | a field, the model that places it, 2 requests, 2 drainers, the sweep, 2 faults | 7.86 million | no lost change, no resurrection |
| `materializer_liveness` | 2 entities, 2 requests of which one is poisoned, poller and sweep, 1 fault | 255 thousand | all others processed; git converges |
| `release_git` | 2 versions, 3 change sets, 2 drainers, 1 fault, 1 rewritten archive | 1.57 million | tags, branch and index |
| `release_git_liveness` | the same with the poller alone | | releases tagged, archivals shown |
| `release_lineage` | 3 projects in a line, 2 numbers that any may use, 3 edits anywhere | 1.59 million | nothing in a release is replaced; releases are made of drafts, hold their parents, follow none |
| `inheritance` | 3 projects, 2 requests of any kind, side by side | 280 thousand | a cycle only from links added at the same time; one primary parent, which stays and which the scalar names, unless its link is removed under a request; all answered |
| `services` | the five services, see below | 224 thousand | limits, honest jobs, fresh indexes, safe removals, every call ends |
| `adoption_detach` (violation) | a category of a project with an adopted model is edited | | the receipt of the model goes as well |

`services` checks five modules that share no state in one run (`Services`): the variable `part`,
chosen by the initial state, says which is at work, so the state space is their sum. Adoption: 2
parents, a model, a category, three requests one after the other or two at a
time, one failure. Restore jobs: a project whose parent has a parent, two jobs and
load-git, three runs one after the other or two at a time, one failure. Index: 2 askers, 3
requests, 1 import or relink, room for one index. Presence: cap 2, three session ids of which one is empty, 4
posts, two of them at once. Pool: 3 saves, 2 connections.

**Why the bounds are enough.** Two savers and a restore are all the modes that
can meet at a lock, and a queue of three has a waiter behind a waiter; a second entity
tells the project lock from the entity lock. Row matching pairs rows by field and place, so two
of each, with two positions, give every way in which rows agree, clash or move; that more
rows of one key are ranked rightly is proved. Two
drainers, two sets and two faults give a retry behind a retry and a list that is
stale by a set. Three projects are a
parent that is also a child, and a cycle longer than the two a single check sees. A cache
with room for one index evicts at the second key; a cap of two has a session in the
middle; two connections and three saves leave nobody a second connection. The index run
was also done with four requests and two changes (1.15 million states, it holds). Every bound is a CONSTANT commented where it is declared.
Deadlock is not checked: every system here may stop (requests are bounded,
workers wait for work), and that nobody waits for ever is what the liveness
properties say.

**Further configurations.** Beside the twelve runs, these `.cfg` files
ask narrower questions of the same modules and are kept for the reader; each one
terminates in seconds to a minute:

| configuration | module | result |
|---|---|---|
| `SaveLockLoss.cfg` | `MC_SaveRestore` | `SaveIsolated` violated: isolation is lost with the connection |
| `SaveUndo.cfg` | `MC_SaveRestore` | `NoSilentOverwrite` violated |
| `OverrideUnlockedLog.cfg` | `MC_OverrideRows` | `NoGhostUpdate` violated |
| `MaterializerSweep.cfg` | `MC_Materializer` | holds: with the sweep and no failure or deletion, every commit is made of its own change set |
| `MaterializerSweepDelete.cfg` | `MC_Materializer` | `CommitsOnlyItsClosure` violated |
| `MaterializerSha.cfg` | `MC_Materializer` | `ShaTellsCommit` violated |
| `ReleaseGitRerun.cfg` | `MC_ReleaseGit` | `OneCommitPerRelease` violated |
| `ReleaseLineageShared.cfg` | `MC_ReleaseLineage` | `ReleaseFreezes` violated: a release gets rows of another project's with its number |
| `ReleaseLineageRace.cfg` | `MC_ReleaseLineage` | `NeverDraft` violated: a link is switched between check and copy |
| `InheritanceCycle.cfg` | `MC_Inheritance` | `Acyclic` violated by two links added at the same time |
| `InheritancePrimary.cfg` | `MC_Inheritance` | `OnePrimary` violated next to `SetPrimaryInheritance` |
| `InheritanceRepin.cfg` | `MC_Inheritance` | `DraftLeftAlone` violated |
| `AdoptionDetach.cfg`, with `Ops = {"adopt", "fork", "drop"}` and `ForkAnswersWithModel` for its property | `MC_Adoption` | `ForkAnswersWithModel` violated |
| `RestoreCounters.cfg` | `MC_RestoreJobs` | `CreatesSucceed` violated |
| `RestoreVendored.cfg` | `MC_RestoreJobs` | `CompletedParentsWhole` violated |

### Disagreements met

Shown by a run or a configuration:

* `pkg/weave/category/service.go:541`: the edit of a category replaces *all* receipts of the project by those of categories; an adopted model loses its receipt (`adoption_detach`, in `PROJECT.json`).
* `pkg/weave/project/override_read.go:153-157` calls a 409 after an interleaved load "a false conflict, harmless". The fingerprint hashes content only; when a second save brings the first content back, the old fingerprint matches again and the editor that saw the newer content overwrites the restored one without a 409 (`SaveUndo`).
* A save whose lock connection is lost goes on writing without its locks (`SaveLockLoss`).
* `pkg/weave/override/service.go:219`: `SaveForEntity` "replaces the override set ..., atomically with one changelog entry per Added/Removed/Changed row". The rows commit first and the entries in a later transaction, whose failure leaves rows the log never tells of (`changelog_runner.go:14-18` accepts that); hence `lost` in `ChangelogReplays`.
* `pkg/weave/override/diff.go:15-20`: an unclaimed id is "Removed+Added, never an Update naming a row that no longer exists". On the unlocked PUT routes a row deleted between diff and transaction is logged as updated (`OverrideUnlockedLog`).
* `pkg/service/gitmaterializer/materializer_scoped_test.go:942`: "each change_set commits only the files its own closure() touches". A row deleted while the sweep rebuilds the emptied work tree ends the sweep, and the next change set commits the missing files as deletions (`MaterializerSweepDelete`).
* `materializer.go:340-341`: `markChangeSetProcessed` records "nil when no commit was made". The slower of two drainers, or the retry after a crash, overwrites the recorded commit with NULL (`MaterializerSha`).
* `release_materialize.go:46-47`: "Re-runs are idempotent". Between branch and tag they are not: the retry commits the release twice (`ReleaseGitRerun`).
* `pkg/weave/release/service.go`, ON CONFLICT DO NOTHING: "Releases are otherwise immutable" (`service_archive.go`), but numbers are free per project. A child that releases under a number its parent has used adds rows to the parent's release (`ReleaseLineageShared`), and one that released first leaves its rows in the parent's later one; what remains true is `ReleaseKeeps` and `ReleaseIsDraft`. A link switched between the check for draft parents and the copy of the links is released as a draft (`ReleaseLineageRace`).
* `pkg/database/migrations/004_inheritance_cycle_guard.sql:2-3` rejects "any write that would close an inheritance cycle". The trigger sees committed rows: two links added at the same time, each closing a cycle with the other, both pass (`InheritanceCycle`).
* `SetPrimaryInheritance` next to the removal of the same link leaves parents of which none is primary (`InheritancePrimary`); with three requests also the second half of a create does, and a removal that finds its link gone already can write NULL into the scalar column beside the link another has just added (hence `Undercut` in `ParentsAgree`); `RepinChildren` pins a child that its curator switched to the draft after the classification (`InheritanceRepin`).
* A fork that is deleted keeps its provenance row: forking the source again finds the row, answers with no model and no error, and `pkg/weave/model/handler.go:434-442` uses the model it did not get (`AdoptionDetach.cfg` with the changes above).
* `restore_runner.go:73-78` moves the counters "so the next allocation in the UI cannot collide". Only `load-git` comes by there; after a job, and for vendored parents after either, the next entity created collides (`RestoreCounters`).
* A run that ends between the two passes over a vendored parent leaves it without overrides, and the rerun skips it as present (`RestoreVendored`).

Met while reading, and left at a sentence:

* `materializer.go:221-223`: a sweep that commits "means a closure gap". It also means a change set the poller has not reached.
* `pkg/weave/override/presence.go:107` "drops least-recently-seen sessions": once the empty session id is among them the oldest may stay; the `since` of an expired session is kept when nobody swept. `presence.go:96`: a beat applied late puts `lastSeen` of its own session back, so an open tab can expire early.
* `pkg/weave/settings/handler.go` around 1275: when a number cannot be allocated in the copy of categories the copies made so far are not cleaned up; all clean-ups use the request's own context, so a request that was cut off cleans nothing.
* `UpdateOntology` with another parent, or none, writes the scalar column and leaves the links; the synchronisation of ontologies and `UpdateInheritanceSource` write back a row read earlier, which can demote the primary or bring a removed link back; the addition of a second parent with `is_primary` always fails on the unique index.
* Two operators may run one job, and a crash leaves it running for ever: its state is set, not compared and set (`gitrestoreadmin/service.go:171`). After a committed shell a rerun fails in its validation.
* The waiters of an index build get the error of the one that builds, a cancelled request included; an import from the command line reaches the server's cache only when the index expires.
* As many saves at once as the pool has connections wait for one another until the request timeout cuts them off; nothing bounds the number of saves (`SavesEnd` needs the timeout).

### Fairness

* `SaveRestore`: weak fairness of each save's and each restore's own steps (a
  teardown either unlocks or fails, but does not hang) and of `GrantLock`. A handler runs on; Postgres grants what is at the head of a queue. No
  fairness of `LockTimeout`, `SaveDies` or of failures: `SaveAnswered` and
  `RestoreEnds` hold without the timeouts coming to the rescue. Submitting is the
  browser's choice and has none.
* `Materializer`: weak fairness of the poller's `List` (the ticker), of every
  drainer's steps and of the sweep's; strong fairness of `Lock` and `SweepLock`:
  they are a blocking `flock` (`lock.go:22`), whose waiters the kernel wakes one
  after the other, while the lock is free again and again but not for good.
  The CLI may never run.
* `ReleaseGit`: the same for the poller and its lock.

* `Inheritance`, `Adoption`, `IndexCache`: weak fairness of each request's own steps; a
  handler runs on, and so does the transaction at the head of a row's queue. Not of failures, deaths or new requests.
* `RestoreJobs`: weak fairness of the steps of a run but not of `LockTimeout`: the locks are
  taken in an order that needs none.
* `SavePool`: weak fairness of steps and of `Timeout`, which the server guarantees (`pkg/app/root.go`);
  without it `SavesEnd` fails, as said above.

Faults are bounded in every liveness run: with infinitely many failures nothing
need ever be processed. `Bad` change sets fail for ever and are excluded from the
promise, not from the run.

## 4 Proofs

`SaveRestoreProofs` (any number of editors, restores, projects, entities):

* `TypeInvariance`, `Typing` – `TypeInv == TypeOK /\ Shape` is inductive. `TypeOK` alone is not: a save's
  `stage` indexes its commits and a load's `reads` its parts, and that they do is known only
  from where the save is, which `Shape` says.
* `AnswersAreHonest` – from `TypeInv`: `outcome`, `pc` and `stage` move together.
* `Exclusion` – `LockExclusion`, for every program that uses `AdvisoryLock`'s operations.
* `Isolation` – `SaveIsolated`, assuming `~LockLoss` (`save_lock_loss` shows that the
  assumption is needed). The invariant says what is in the database; that nobody
  changed it needs to know who may: `Section` states which locks a process holds
  at each point, `LockExclusion` turns that into `OneWriter` (no two saves of an
  entity are past their second lock) and `NoRestoreDuringSave`, and those carry `SaveIsolated` through every action.
* `NoLeaks` – `NoLockLeaks`, lost connections included: `Footprint` says of every point of a process the
  locks it may hold or wait for, whether or not it still holds them.
* `OwnFingerprint`, `Coherence`, `NothingOverwritten` – `OkMeansMine`, `PatternCoherent` and
  `NoSilentOverwrite`, assuming `~LockLoss`, the last also `~Undo` (`SaveLockLoss.cfg` and `SaveUndo.cfg` show why).
  `NoSilentOverwrite` needs what the reads of a load have established (`EditInv`), fingerprint first and
  content after, each in its own snapshot. `ChangesAreFresh` says that a part never changes back to a version it had,
  so a fingerprint that still matches proves that nothing happened since.
* `ImplementsStore` – `PatternStoreSpec`, under the same two assumptions: the commit of a save that
  replaces the rows is the `Save` of the store, that of a restore its `Restore`, what an editor is shown `Look` or `Forget`, and
  every other step leaves pattern and view alone.
  Of the constants only `VersionAssumption` is used: versions of different writes differ.

`OverrideRowsProofs` (any fields, places, drafts, tables, numbers of saves):

* `RefsLand` – `RefsLandOnTheirRow`, with the lock or without. The table a writer planned from may be old, but ids come from
  a sequence and the field of a row never changes, so a plan stays fit (`PlanOK`) under the commits of others.
* `LogReplays`, `NothingReplaced`, `NoGhosts` – `ChangelogReplays`, `NoNeedlessReplacement`, `NoGhostUpdate`, assuming `Locked`
  (`OverrideUnlockedLog.cfg` shows why, for the last). `ChangelogReplays` allows for flushes that fail: `told` and table differ at most at
  rows of such saves, and a later save that writes the row again, though it diffs against a row the log never
  told of, sets it right. Diff and write classify the rows of a draft by
  rules of their own; they agree because the draft that both get has been stamped, and to match a stamped draft once
  more changes nothing (`StampIs`). That needs the counting argument of `Matched`: ranks among the rows of
  one key are a bijection onto an interval, so no existing row of a key is left where a row of that key is inserted.

`MaterializerProofs` (any entities, placings, requests, drainers, limits; failures and crashes anywhere):

* `TypeCorrect` – `TypeOK`, sweeps included. It needs `Shape`: what is listed is closed and began, so the
  least position of a list exists and `Current` is a member of it.
* `NothingLost`, `DeletedForGood` – `NoLostChange` and `DeletedStaysDeleted`, with the sweep, failures and crashes
  anywhere. The invariant follows one change set through its
  drainer: each file is right, or owed by *another* change set, or swept away, or still among the references
  to be written or the row just read (`Settled`). Writing a row as it was read keeps that,
  because who changed the row since owes it; so when the change set is marked it owes nothing. A sweep is followed in the same way (`SweepOK`): when it gets to its
  commit it has written every file, but for what is owed; when it ends before, what it had taken
  away and not written is in `swept`, until a drainer or a sweep writes it. For deletions:
  an entity that is gone stays gone (`DeleteOK`), a row found missing is one whose
  deletion is either done or owed by another (`NotThere`), and nothing holds content of an
  entity whose deletion has been processed (`GotOK`).

`ReleaseGitProofs` (any versions, drainers, bounds):

* `Tagged`, `LagPending`, `History`, `TypeCorrect` – `TagsOnBranch`, `IndexLagIsPending`,
  `HistoryIsKept`, `TypeOK`. What a drainer has built tells nothing that the database does not (`Backed`), forgets
  nothing that the tip tells (`Covers`), and where the database has moved on since, another
  change set is due that will build it anew (`Behind`). The lock keeps the tip still between reading it and
  moving the branch.

`ReleaseLineageProofs` (any projects, lineage, numbers and edits between the statements; only `ReleaseLineageAssumption`,
which says what the constants are):

* `NothingReplaced` – `ReleaseKeeps`, an action property. Each statement writes under the number of the release in
  flight only (`WritesItsOwn`), what is there keeps its row (`ON CONFLICT DO NOTHING`), and a project gets rows only
  if it is in the chain; that each release has its project's row (`Held`) is why another release under the same number cannot
  give it one.
* `DraftReleased` – `ReleaseIsDraft`. Of every table copied so far the rows of the project are what was found
  under its key and what one of the drafts adds (`Copying`): the project is in its chain as its draft and
  at no other source (`ChainRoot`), so a statement copies the draft there is when it starts (`Own`).
* `NoDraftReleased` – `NoDraftParent`. Unless `raced` is set, no archived link follows a draft, nor does one of the project's
  between the check and the copy (`Undrafted`); so every other member of the chain is reached, and followed, at a
  release (`ChainUndrafted`).
* `SelfContainment` – `SelfContained`, the only one about releases that nothing disturbs. The chain is the least closed
  set, so a set of members one can name bounds it (`ChainMembers`); as the
  statements write under the new number and the members are read under others, the chain is the same for each of them
  (`ChainStays`); what has been copied of a member that is in the chain at one source is all
  it has (`Copied`). A parent that is in the chain at two sources, by a diamond, is left out: the archive has one
  row per project and number, so it holds one of the two pins.

`InheritanceProofs` (any projects, releases and requests):

* `CycleOfOverlaps` – `CyclesOverlap`, for any requests side by side. A graph is acyclic when every project has a set closed under
  parents that it is not in. The invariant speaks of every set of committed links of which none has
  missed another: it is acyclic (`OrderedAcyclic`). A commit adds one link at most (`OneAdded`), and what its check saw is
  all that is committed by then but for what it has missed (`Checks`), so adding it to such a set keeps that;
  removal does too. That a cycle does come about through an overlap is shown by `InheritanceCycle.cfg`. `TypeCorrect` – `TypeOK`.
* `ParentsFollow`, `PrimaryStays` – `ParentsAgree` and `PrimaryKept`, without assumption on overlaps. Behind both is that
  no two transactions of a child are past their settling (`OneWriter`): one that is has locked every
  row it saw, one of them committed or its new primary row, and the other would need that row, or run into the
  unique index (`Settled`, `Exclusive`, `OneIndex`). So what was settled is what is committed, with one primary row that `head` names
  (`HeadRead`). A transaction that found no row to lock has no such protection, and that happens only
  when the link it works on was removed (`Grounded`, `Excused`). `Keeps`
  says of every row about to be demoted who may do so. That the links to start from have one primary parent per child is the assumption `InitialPrimary`.

`RestoreJobsProofs` (any projects, jobs, runs; `RestoreJobsAssumption` says that what a project vendors is
closed under parents and under what those vendor, as `vendor_snapshot.go` writes it, recursively):

* `Whole`, `Progress` – a completed job has restored every part; the phase a job shows is no further than its
  commits. `RunOK` relates the point each run has reached to `there`, which only grows.
* `JobsSettled`, `JobsTruth` – `NoJobLeftRunning`, and with the two above all of `JobsTellTheTruth`. `Settling`: a job
  that is running has a run, as long as nothing fails; and every way out of a run settles its job.
* `OnlyFaults` – `OnlyFaultsFail`, with `SerialInv`: of runs one after the other, who holds which lock (`LocksOK`, `PlaceOK`),
  that no other run is under way (`Alone`), and that as long as nothing fails a project without
  its entities has a run about to restore them (`Filled`); so nothing a run needs of another project is missing.
* `WorkKept` – `WorkSurvives`, an action property, from the same invariant: a job's project has no work of editors in
  it when its run is past its checks, and a vendored project is restored only if it was not there.

`ServicesProofs` (any requests, projects, versions, editors, sessions, saves and bounds, under
`ServicesAssumption`, which TLC evaluates). The theorems are about `ServicesSpec`, which extends `RestoreJobs`: each service takes its own
steps or keeps still (`EachServiceRuns`), so what is proved of an instance holds of all together.

* `ServicesKeepLimits` – `LimitsHold`. `CapKept`: `put` adds one key and evicts one when that is too many, and
  among the keys in the cache there is one that none was used before. `SessionsCapped`: a beat closes a session before it
  opens one (`PresenceInv`). `NoConnectionLeaks`: free connections, those that hold locks and those in a transaction add up to the
  pool (`PoolInv`); the counting rests on a few lemmas (`AtMost`, `Exchange`, `Flip`).
* `IndexStaysFresh` – `IndexIsFresh`. What is built under the present epoch is as new as what
  the cache was told of when the build began, and every event that tells it more moves the epoch (`IndexInv`); what a request holds
  that joined nobody is as new as what the cache was told of when it began (`AnswersOK`), be it an
  entry or a build that was overtaken.
* `OldestIsEvicted`, `EditorsAreShown` – `EvictsOldest`, `LastBeatShown`. `PresenceInv` relates the latest beat of an
  actor to the map (`Remembered`): while it is in time its session is open with the time of that beat, although
  beats of its other tabs with an earlier clock are applied later and sweeps come in between (a late beat of the same tab
  does put the time back, and counts as the latest). (The clock only moves forward, and a
  request has read it at a time not after the present one.)
* `ReceiptsLostToStaleList` – `LostOnlyToStaleList`, for any number of requests at once. `AdoptInv` has of every request
  what its list minus its goal can be (`Drops`) and that what it has inserted is its goal; only a
  commit writes the table (`OnlyCommitWrites`).
* `ParentsVouchForReceipts`, `RemovalStaysSafe`, `ForksStay` – `ReceiptsOfParents`, `RemovalIsSafe`, `ForksAreKept`, which
  speak of requests one after the other. None is inductive: between two statements of a request, what it has listed or
  made must still agree with the tables. `AloneOK` says how, point by point: its list is the table
  (`ReplaceOK`), no copy it made has placements or receipts (`LinkOK`), what it is about to
  remove is not in use (`RemoveOK`, `UnlinkOK`), no fork names the model it is making (`ForkOK`), and numbers are given once
  (`DataOK`), failures, deaths and clean-ups included.

Every invariant and action property of the passing runs is thus stated by a theorem, some under the assumptions named
above. Only model-checked is what is out of the prover's reach: liveness under fairness and what needs `ENABLED`
(`SaveAnswered`, `RestoreEnds`, `EverySetProcessed`, `GitConverges`, `SetsReachGit`, `Answered`, `EveryCallEnds`).

## 5 What is not modelled, and why

* `SaveRestore`: one pattern stands for all hydrated rows of a restore; planning. Vendored projects are in `RestoreJobs`,
  the size of the connection pool in `SavePool`.
* `OverrideRows`: content other than field, place and position; fields of a row
  that are only copied.
* `Materializer`: one file per entity; categories, adopted owners and override
  subtrees are files like any other; several projects (they share nothing but the
  poller's limit). With faults a half-rewritten file of a failed set rides with
  the next commit, so `CommitsOnlyItsClosure` is claimed without faults only;
  files that a sweep took away and could not bring back are excepted from `NoLostChange` until they are written again
  (`GitConverges` says that they are).
* `ReleaseGit`: change sets are listed in the order in which they commit, where the
  code orders by `closed_at`.
* `ReleaseLineage`: one release in flight; three of about twenty tables (the others
  are copied by the same two forms of statement); archived releases, primary parents,
  the scalar parent column, which is followed where a project has no links, global namespace bindings, the cut after ten levels; that
  the query stops at any project that is on its path already (the model stops at the first).
* `Inheritance`: the order of parents (any link may be made the first, so "first in order" is any); what an ontology holds.
  The trigger fires before its statement waits for a row or the index, in the model when the wait is over:
  both read what is committed, and a check that comes earlier misses more.
* `Adoption`: one adopting project; collections, which are adopted and forked as models are; receipts inside a model;
  the receipts that stay behind when a fork is cleaned up or a model deleted.
* `RestoreJobs`: vendored ontologies, vendor trees of vendored projects, preview and retargeting.
* `IndexCache`: search within an index, indexes of releases (nothing builds them yet).
* Project deletion, sessions and API keys, read scope and publication, reconstruction of a
  release, ids from counters: not yet, see the plan.
* Everything single-statement, rendering or reading, which is most of the code (pages, generators, generated queries): no
  interleaving, nothing to check. That is why the mapped lines are a small part of the whole.

## 6 Plan

Done: the core (saves, rows, outbox, releases) with its proofs, then links, adoption,
restore jobs, cache, presence and pool. What is left, in this order:

1. Vendor trees of vendored projects in `RestoreJobs`; deletion of a project against a drain in
   `Materializer`; sessions and API keys (expiry against use).
2. Operators against a reference definition: read scope, ids from counters,
   reconstruction of a release from its archive.
3. Abstract specifications: an outbox that delivers each change at least once for `Materializer`, an
   append-only tagged log for `ReleaseGit`, an archive of immutable snapshots for
   `ReleaseLineage`; `PatternStore` is the pattern to follow.
