---------------------------- MODULE Materializer ----------------------------
(***************************************************************************)
(* The outbox that turns database writes into git commits: a save writes   *)
(* its entity in one transaction and closes its change set in another      *)
(* (pkg/weave/store.go, WithChangeLog); drainers (the server's poller, the *)
(* CLI) list the closed change sets and, one by one under a file lock of   *)
(* the project, rewrite the files of the change set's closure from the     *)
(* database as it is now and commit the work tree; the nightly sweep       *)
(* empties the work tree, rewrites all of it and commits what differs      *)
(* (pkg/service/gitmaterializer).                                          *)
(*                                                                         *)
(* One project and its draft branch.  A change set has one entry.  The     *)
(* content of an entity is the save that wrote it last; its files are one  *)
(* file.  The index is left out: every commit is preceded by "git add -A"  *)
(* under the same lock, so it holds the work tree.                         *)
(***************************************************************************)
EXTENDS Naturals, Sequences, FiniteSets, FiniteSetsExt

CONSTANTS
    Entities,   \* fields, models and collections of the project
    Fields,     \* those that are fields
    Placings,   \* <<f, m>>: model or collection m places field f
    Saves,      \* mutating requests, each with its change set
    Ops,        \* what they may do: a subset of {"create", "update", "delete"}
    Drainers,   \* workers that run ProcessPending
    Poller,     \* the drainer that the server's ticker runs
    Sweepers,   \* workers that run Reconcile
    Limit,      \* change sets listed per pass
    Bad,        \* saves whose change set can never be materialised
    LogLoss,    \* may the change log flush fail after the entity write?
    Routed,     \* can the entries' project be told? a subset of BOOLEAN
    MaxFaults,  \* bound on failures and crashes of workers
    Absent, Base, Gone, NoOne   \* model values

ASSUME MaterializerAssumption ==
    /\ Fields \subseteq Entities
    /\ Placings \subseteq Fields \X (Entities \ Fields)
    /\ Ops \subseteq {"create", "update", "delete"}
    /\ Poller \in Drainers
    /\ Drainers \cap Sweepers = {}
    /\ Limit \in Nat \ {0}
    /\ Bad \subseteq Saves
    /\ LogLoss \in BOOLEAN
    /\ Routed \subseteq BOOLEAN
    /\ MaxFaults \in Nat
    /\ NoOne \notin Drainers \cup Sweepers
    /\ {Absent, Base, Gone} \cap Saves = {}
    /\ Absent # Base /\ Absent # Gone /\ Base # Gone

Workers == Drainers \cup Sweepers

VARIABLES
    db,         \* content of each entity in Postgres
    save,       \* each request: how far it is, its entity and operation
    begun,      \* the requests in the order of closed_at
    processed,  \* change sets with processed_at set
    withSha,    \* change sets with git_commit_sha set
    repo,       \* does the project have a git repository?
    wt, head,   \* files of the work tree and of HEAD
    authored,   \* change sets named by some commit of the repository
    flock,      \* holder of the project's lock file
    at, queue, refs, got,   \* the workers
    faults

\* History: the files that a sweep has taken out of the work tree and no
\* commit has brought back.
VARIABLE swept

requests == <<save, begun>>
marks == <<processed, withSha>>
git == <<repo, head, authored>>
workers == <<at, queue, refs, got>>
vars == <<db, save, begun, processed, withSha, repo, wt, head, authored,
          flock, at, queue, refs, got, faults, swept>>

Exists(e) == db[e] \notin {Absent, Gone}
File(e) == IF Exists(e) THEN db[e] ELSE Absent
Tree == [e \in Entities |-> File(e)]
Empty == [e \in Entities |-> Absent]

Ref == [entity : Entities, delete : BOOLEAN]

\* The models and collections that place a field now.
placingOwners(f) == {m \in Entities : <<f, m>> \in Placings /\ Exists(m)}

\* An entry maps to its own entity, a field's also to its owners.
closure(s) ==
    {[entity |-> save[s].entity, delete |-> save[s].op = "delete"]}
    \cup [entity : placingOwners(save[s].entity), delete : {FALSE}]

\* Fault: the query forgets closed_at IS NOT NULL.
UnprocessedFault ==
    {s \in Saves : save[s].state \in {"open", "written", "closed"} /\ s \notin processed}

\* WHERE closed_at IS NOT NULL AND processed_at IS NULL ...
Unprocessed == {s \in Saves : save[s].state = "closed" /\ s \notin processed}

\* ... ORDER BY closed_at LIMIT n
Before(s, t) == \E i, j \in DOMAIN begun : i < j /\ begun[i] = s /\ begun[j] = t
FirstOf(S, n) == {t \in S : Cardinality({s \in S : Before(s, t)}) < n}

NoSave == [state |-> "new", entity |-> NoOne, op |-> "none", routed |-> TRUE]

Init ==
    /\ repo \in BOOLEAN
    /\ db \in [Entities -> IF repo THEN {Absent, Base} ELSE {Absent}]
    /\ save = [s \in Saves |-> NoSave]
    /\ begun = <<>>
    /\ processed = {} /\ withSha = {} /\ authored = {}
    /\ wt = Tree /\ head = Tree
    /\ flock = NoOne
    /\ at = [w \in Workers |-> "idle"]
    /\ queue = [w \in Workers |-> {}]
    /\ refs = [w \in Workers |-> {}]
    /\ got = [w \in Workers |-> NoOne]
    /\ faults = 0
    /\ swept = {}

-----------------------------------------------------------------------------
(* A mutating request.                                                     *)

\* The row of the change set exists and the transaction that will close it
\* begins: its closed_at is now(), the time at which it began.
Begin(s) ==
    /\ save[s].state = "new"
    /\ \E e \in Entities, op \in Ops :
          save' = [save EXCEPT ![s] =
                     [state |-> "open", entity |-> e, op |-> op, routed |-> TRUE]]
    /\ begun' = Append(begun, s)
    /\ UNCHANGED <<db, marks, git, wt, swept, flock, workers, faults>>

\* The slice store commits the entity in a transaction of its own.  A field in
\* use is not deleted, and no entity number is given out twice.
WriteEntity(s) ==
    LET e == save[s].entity IN
    /\ save[s].state = "open"
    /\ IF save[s].op = "create" THEN db[e] = Absent ELSE Exists(e)
    /\ save[s].op = "delete" => placingOwners(e) = {}
    /\ db' = [db EXCEPT ![e] = IF save[s].op = "delete" THEN Gone ELSE s]
    /\ save' = [save EXCEPT ![s].state = "written"]
    /\ UNCHANGED <<begun, marks, git, wt, swept, flock, workers, faults>>

\* The write is refused or fails: the change set is never closed.
Refuse(s) ==
    /\ save[s].state = "open"
    /\ save' = [save EXCEPT ![s].state = "refused"]
    /\ UNCHANGED <<db, begun, marks, git, wt, swept, flock, workers, faults>>

\* Entries, project and closed_at become visible in one commit.  Without a
\* hint of the request the project is the one its entries agree on, if any.
CloseChangeSet(s) ==
    /\ save[s].state = "written"
    /\ \E known \in Routed :
          save' = [save EXCEPT ![s] = [state |-> "closed", entity |-> @.entity,
                                       op |-> @.op, routed |-> known]]
    /\ UNCHANGED <<db, begun, marks, git, wt, swept, flock, workers, faults>>

\* DB-first: when the flush fails the entity write stands.
FlushFails(s) ==
    /\ LogLoss
    /\ save[s].state = "written"
    /\ save' = [save EXCEPT ![s].state = "unlogged"]
    /\ UNCHANGED <<db, begun, marks, git, wt, swept, flock, workers, faults>>

-----------------------------------------------------------------------------
(* ProcessPending.                                                         *)

List(d) ==
    /\ at[d] = "idle" /\ d \in Drainers
    /\ Unprocessed # {}
    /\ queue' = [queue EXCEPT ![d] =
                   IF d = Poller THEN FirstOf(Unprocessed, Limit) ELSE Unprocessed]
    /\ at' = [at EXCEPT ![d] = "next"]
    /\ UNCHANGED <<db, requests, marks, git, wt, swept, flock, refs, got, faults>>

\* The pass ends.
EndPass(d) ==
    /\ at[d] = "next" /\ queue[d] = {}
    /\ at' = [at EXCEPT ![d] = "idle"]
    /\ UNCHANGED <<db, requests, marks, git, wt, swept, flock, queue, refs, got, faults>>

\* A list is worked off in the order of closed_at.
Current(d) == begun[Min({i \in DOMAIN begun : begun[i] \in queue[d]})]

\* What markChangeSetProcessed writes; the outcome column is left out.
Mark(s, committed) ==
    /\ processed' = processed \cup {s}
    /\ withSha' = IF committed THEN withSha \cup {s} ELSE withSha \ {s}

\* A change set without a project can never materialise: it is marked.
Orphaned(d) ==
    /\ at[d] = "next" /\ queue[d] # {}
    /\ ~save[Current(d)].routed
    /\ Mark(Current(d), FALSE)
    /\ queue' = [queue EXCEPT ![d] = @ \ {Current(d)}]
    /\ UNCHANGED <<db, requests, git, wt, swept, flock, at, refs, got, faults>>

\* The lock is taken and the repository made; closure() reads the entries.
Lock(d) ==
    /\ at[d] = "next" /\ queue[d] # {}
    /\ save[Current(d)].routed
    /\ flock = NoOne
    /\ flock' = d
    /\ repo' = TRUE
    /\ refs' = [refs EXCEPT ![d] = closure(Current(d))]
    /\ at' = [at EXCEPT ![d] = "rewrite"]
    /\ UNCHANGED <<db, requests, marks, wt, swept, head, authored, queue, got, faults>>

\* A delete ref removes the file whatever the database says.
RemoveFile(d) ==
    /\ at[d] = "rewrite" /\ Current(d) \notin Bad
    /\ \E r \in refs[d] :
          /\ r.delete
          /\ wt' = [wt EXCEPT ![r.entity] = Absent]
          /\ refs' = [refs EXCEPT ![d] = @ \ {r}]
    /\ UNCHANGED <<db, requests, marks, git, flock, at, queue, got, faults, swept>>

\* ownerIsLocal: a model or collection is looked up before it is read.
Lookup(d) ==
    /\ at[d] = "rewrite" /\ Current(d) \notin Bad
    /\ \E r \in refs[d] :
          /\ ~r.delete
          /\ refs' = [refs EXCEPT ![d] = @ \ {r}]
          /\ IF r.entity \in Fields \/ Exists(r.entity)
               THEN /\ got' = [got EXCEPT ![d] = <<r.entity>>]
                    /\ at' = [at EXCEPT ![d] = "read"]
               ELSE UNCHANGED <<got, at>>
    /\ UNCHANGED <<db, requests, marks, git, wt, swept, flock, queue, faults>>

\* Fault: the error ends the pass.
FailFault(d) ==
    /\ flock' = NoOne
    /\ queue' = [queue EXCEPT ![d] = {}]
    /\ refs' = [refs EXCEPT ![d] = {}]
    /\ got' = [got EXCEPT ![d] = NoOne]
    /\ at' = [at EXCEPT ![d] = "next"]

\* processChangeSet ends with an error: the lock goes, processed_at stays
\* NULL, and the pass goes on with the next change set.
Fail(d) ==
    /\ flock' = NoOne
    /\ queue' = [queue EXCEPT ![d] = @ \ {Current(d)}]
    /\ refs' = [refs EXCEPT ![d] = {}]
    /\ got' = [got EXCEPT ![d] = NoOne]
    /\ at' = [at EXCEPT ![d] = "next"]

\* Fault: the payload of the change log is written instead of the row.
ReadRowFault(d) ==
    /\ at[d] = "read" /\ d \in Drainers
    /\ got' = [got EXCEPT ![d] = <<got[d][1], Current(d)>>]
    /\ at' = [at EXCEPT ![d] = "write"]
    /\ UNCHANGED <<db, requests, marks, git, wt, swept, flock, queue, refs, faults>>

\* writeOneField, writeOneModel: a row deleted since the lookup is an error,
\* which only a field's caller knows to skip.
ReadRow(d) ==
    LET e == got[d][1] IN
    /\ at[d] = "read" /\ d \in Drainers
    /\ \/ /\ Exists(e)
          /\ got' = [got EXCEPT ![d] = <<e, db[e]>>]
          /\ at' = [at EXCEPT ![d] = "write"]
          /\ UNCHANGED <<flock, queue, refs>>
       \/ /\ ~Exists(e) /\ e \in Fields
          /\ got' = [got EXCEPT ![d] = NoOne]
          /\ at' = [at EXCEPT ![d] = "rewrite"]
          /\ UNCHANGED <<flock, queue, refs>>
       \/ /\ ~Exists(e) /\ e \notin Fields
          /\ Fail(d)
    /\ UNCHANGED <<db, requests, marks, git, wt, swept, faults>>

WriteFile(w) ==
    /\ at[w] = "write"
    /\ wt' = [wt EXCEPT ![got[w][1]] = got[w][2]]
    /\ got' = [got EXCEPT ![w] = NoOne]
    /\ at' = [at EXCEPT ![w] = "rewrite"]
    /\ UNCHANGED <<db, requests, marks, git, flock, queue, refs, faults, swept>>

\* git add -A, then a commit unless nothing is staged.
Commit(d) ==
    /\ at[d] = "rewrite" /\ d \in Drainers /\ Current(d) \notin Bad
    /\ refs[d] = {}
    /\ head' = wt
    /\ swept' = {e \in swept : wt[e] = Absent}
    /\ authored' = IF wt = head THEN authored ELSE authored \cup {Current(d)}
    /\ got' = [got EXCEPT ![d] = IF wt = head THEN "noop" ELSE "committed"]
    /\ at' = [at EXCEPT ![d] = "mark"]
    /\ UNCHANGED <<db, requests, marks, repo, wt, flock, queue, refs, faults>>

\* Nothing asks whether the change set has been marked in the meantime.
MarkProcessed(d) ==
    /\ at[d] = "mark"
    /\ Mark(Current(d), got[d] = "committed")
    /\ flock' = NoOne
    /\ queue' = [queue EXCEPT ![d] = @ \ {Current(d)}]
    /\ got' = [got EXCEPT ![d] = NoOne]
    /\ at' = [at EXCEPT ![d] = "next"]
    /\ UNCHANGED <<db, requests, git, wt, swept, refs, faults>>

\* A change set that can never be materialised fails on every attempt.
AlwaysFails(d) ==
    /\ at[d] = "rewrite" /\ d \in Drainers /\ Current(d) \in Bad
    /\ Fail(d)
    /\ UNCHANGED <<db, requests, marks, git, wt, swept, faults>>

\* Any call fails, or the process dies and the rest of the pass with it.
Fault(d) ==
    /\ d \in Drainers
    /\ at[d] \in {"rewrite", "read", "write", "mark"}
    /\ faults < MaxFaults
    /\ faults' = faults + 1
    /\ \E rest \in {queue[d] \ {Current(d)}, {}} : queue' = [queue EXCEPT ![d] = rest]
    /\ flock' = NoOne
    /\ refs' = [refs EXCEPT ![d] = {}]
    /\ got' = [got EXCEPT ![d] = NoOne]
    /\ at' = [at EXCEPT ![d] = "next"]
    /\ UNCHANGED <<db, requests, marks, git, wt, swept>>

-----------------------------------------------------------------------------
(* Reconcile, run over the projects that have a repository.                *)

SweepLock(w) ==
    /\ w \in Sweepers /\ at[w] = "idle"
    /\ repo
    /\ flock = NoOne
    /\ flock' = w
    /\ at' = [at EXCEPT ![w] = "reset"]
    /\ UNCHANGED <<db, requests, marks, git, wt, swept, queue, refs, got, faults>>

\* Fault: the work tree is not emptied first.
SweepResetFault(w) ==
    /\ at[w] = "reset"
    /\ refs' = [refs EXCEPT ![w] =
                  {[entity |-> e, delete |-> FALSE] : e \in {x \in Entities : Exists(x)}}]
    /\ at' = [at EXCEPT ![w] = "rewrite"]
    /\ UNCHANGED <<db, requests, marks, git, wt, swept, flock, queue, got, faults>>

\* resetWorkTree, then writeProjectTree lists what there is to write.
SweepReset(w) ==
    /\ at[w] = "reset"
    /\ wt' = Empty
    /\ swept' = swept \cup {e \in Entities : wt[e] # Absent}
    /\ refs' = [refs EXCEPT ![w] =
                  {[entity |-> e, delete |-> FALSE] : e \in {x \in Entities : Exists(x)}}]
    /\ at' = [at EXCEPT ![w] = "rewrite"]
    /\ UNCHANGED <<db, requests, marks, git, flock, queue, got, faults>>

SweepStops(w) ==
    /\ flock' = NoOne
    /\ refs' = [refs EXCEPT ![w] = {}]
    /\ got' = [got EXCEPT ![w] = NoOne]
    /\ at' = [at EXCEPT ![w] = "idle"]

\* Each listed row is read again; one deleted since then ends the sweep.
SweepRead(w) ==
    /\ w \in Sweepers /\ at[w] = "rewrite"
    /\ \E r \in refs[w] :
          \/ /\ Exists(r.entity)
             /\ got' = [got EXCEPT ![w] = <<r.entity, db[r.entity]>>]
             /\ refs' = [refs EXCEPT ![w] = @ \ {r}]
             /\ at' = [at EXCEPT ![w] = "write"]
             /\ UNCHANGED flock
          \/ /\ ~Exists(r.entity)
             /\ SweepStops(w)
    /\ UNCHANGED <<db, requests, marks, git, wt, swept, queue, faults>>

SweepCommit(w) ==
    /\ w \in Sweepers /\ at[w] = "rewrite"
    /\ refs[w] = {}
    /\ head' = wt
    /\ swept' = {}
    /\ SweepStops(w)
    /\ UNCHANGED <<db, requests, marks, repo, wt, authored, queue, faults>>

SweepFault(w) ==
    /\ w \in Sweepers
    /\ at[w] \in {"reset", "rewrite", "write"}
    /\ faults < MaxFaults
    /\ faults' = faults + 1
    /\ SweepStops(w)
    /\ UNCHANGED <<db, requests, marks, git, wt, swept, queue>>

-----------------------------------------------------------------------------
Request(s) ==
    Begin(s) \/ WriteEntity(s) \/ Refuse(s) \/ CloseChangeSet(s) \/ FlushFails(s)

DrainStep(d) ==
    \/ EndPass(d) \/ Orphaned(d) \/ RemoveFile(d) \/ Lookup(d) \/ ReadRow(d)
    \/ WriteFile(d) \/ Commit(d) \/ MarkProcessed(d) \/ AlwaysFails(d)

SweepStep(w) == SweepReset(w) \/ SweepRead(w) \/ WriteFile(w) \/ SweepCommit(w)

Next ==
    \/ \E s \in Saves : Request(s)
    \/ \E d \in Drainers : List(d) \/ Lock(d) \/ DrainStep(d) \/ Fault(d)
    \/ \E w \in Sweepers : SweepLock(w) \/ SweepStep(w) \/ SweepFault(w)

Spec == Init /\ [][Next]_vars

\* A worker that runs goes on; the server's tickers fire; a lock file that is
\* free again and again is got in the end.  Requests and the CLI owe nothing.
Fairness ==
    /\ \A d \in Drainers : WF_vars(DrainStep(d)) /\ SF_vars(Lock(d))
    /\ WF_vars(List(Poller))
    /\ \A w \in Sweepers : WF_vars(SweepStep(w)) /\ SF_vars(SweepLock(w))

FairSpec == Spec /\ Fairness

-----------------------------------------------------------------------------
States == {"new", "open", "refused", "written", "closed", "unlogged"}
Busy == {"reset", "rewrite", "read", "write", "mark"}
Content == {Absent, Base, Gone} \cup Saves

TypeOK ==
    /\ db \in [Entities -> Content]
    /\ save \in [Saves -> [state : States, entity : Entities \cup {NoOne},
                           op : Ops \cup {"none"}, routed : BOOLEAN]]
    /\ \A s \in Saves : save[s].state # "new" => save[s].entity \in Entities /\ save[s].op \in Ops
    /\ begun \in Seq(Saves)
    /\ processed \subseteq Saves /\ withSha \subseteq processed /\ authored \subseteq Saves
    /\ repo \in BOOLEAN
    /\ wt \in [Entities -> Content] /\ head \in [Entities -> Content]
    /\ flock \in Workers \cup {NoOne}
    /\ at \in [Workers -> {"idle", "next"} \cup Busy]
    /\ queue \in [Workers -> SUBSET Saves]
    /\ refs \in [Workers -> SUBSET Ref]
    /\ DOMAIN got = Workers
    /\ \A w \in Workers :
          /\ at[w] \in Busy <=> flock = w
          /\ at[w] = "read" => got[w] \in {<<e>> : e \in Entities}
          /\ at[w] = "write" => got[w] \in Entities \X (Content \ {Absent, Gone})
    /\ faults \in 0..MaxFaults
    /\ swept \subseteq Entities

\* A change of an entity is never forgotten: as long as HEAD does not hold
\* the entity's content, some request has yet to close its change set for
\* it, or some closed change set that covers it is still unprocessed.  Only a
\* failed flush and a change set nobody could route are given up (the DB-first
\* policy of changelog_runner.go), and a file that HEAD has lost to a sweep
\* that ended half-way (GitConverges says it comes back with the next one).
\* Drainers with overlapping lists, the sweep's work tree, and failures and
\* crashes between any two steps must not break it.
NoLostChange ==
    \A e \in Entities : head[e] # File(e) =>
        \/ \E s \in Saves :
              /\ save[s].entity = e
              /\ \/ save[s].state \in {"written", "unlogged"}
                 \/ save[s].state = "closed" /\ s \notin processed
                 \/ save[s].state = "closed" /\ ~save[s].routed
        \/ e \in swept /\ head[e] = Absent

\* "each change_set commits only the files its own closure() touches": the
\* commit of a change set leaves the files of every other entity as they were.
CommitsOnlyItsClosure ==
    [][\A d \in Drainers : Commit(d) =>
          \A e \in Entities : head'[e] # head[e] =>
              LET own == save[Current(d)].entity IN e = own \/ <<own, e>> \in Placings]_vars

\* "recording sha (nil when no commit was made)": a processed change set has
\* a sha exactly when a commit of the repository bears its number.
ShaTellsCommit ==
    \A s \in processed : s \in withSha <=> s \in authored

\* Once the change set of a deletion is processed the file is gone from HEAD
\* for good, though older change sets of the entity may still be retried.
DeletedStaysDeleted ==
    \A s \in processed :
        save[s].op = "delete" /\ save[s].routed => head[save[s].entity] = Absent

\* Every closed change set is processed at last, whatever fails on the way,
\* as long as fewer than Limit change sets fail for ever.
EverySetProcessed ==
    \A s \in Saves \ Bad : save[s].state = "closed" ~> s \in processed

\* When requests cease, HEAD of a project with a repository comes to hold
\* what the database holds, lost change log entries included.
GitConverges == <>[](repo => head = Tree)

=============================================================================
