------------------------------ MODULE Adoption ------------------------------
(***************************************************************************)
(* What a project takes over from its parents: receipts of adopted models   *)
(* and copied categories (pkg/weave/adoption_store.go), the copies          *)
(* themselves, and forks of adopted models.  Seven kinds of requests write   *)
(* them: adopt (project/adoption.go), fork and deletion of a fork           *)
(* (model/service.go), edit and deletion of a category                      *)
(* (category/service.go), addition and removal of a parent                  *)
(* (settings/handler.go).                                                   *)
(*                                                                         *)
(* All receipts of a project are replaced at once: a handler lists them,     *)
(* decides, and calls ReplaceForContext, whose transaction deletes every     *)
(* row of the project and inserts the new ones.  No lock spans list and      *)
(* replace.                                                                 *)
(*                                                                         *)
(* One project is modelled; collections are adopted and forked as models     *)
(* are.  Left out: versions of a receipt (two versions of a source are two    *)
(* sources), the receipts inside a model, restores.                         *)
(***************************************************************************)
EXTENDS Naturals, FiniteSets

CONSTANTS
    Parents, Models, Categories,
    ParentOf,       \* which project a model belongs to
    CategoriesOf,   \* the categories of each parent
    Requests,       \* the requests handled at a time
    Ops,            \* which kinds there are
    MaxInTurn,      \* bound on requests when they come one after the other,
    MaxAtOnce,      \* and when they do not
    MaxIds,         \* bound on numbers given to local categories and forks
    MaxFaults,      \* bound on failing statements and requests that die
    None

AllOps == {"adopt", "fork", "drop", "edit", "remove", "link", "unlink"}
Outcomes == {"ok", "refused", "error"}

AdoptionAssumption ==
    /\ ParentOf \in [Models -> Parents]
    /\ CategoriesOf \in [Parents -> SUBSET Categories]
    /\ Ops \subseteq AllOps
    /\ {MaxInTurn, MaxAtOnce, MaxIds, MaxFaults} \subseteq Nat
    /\ Models \cap Categories = {}
    /\ None \notin Parents \cup Models \cup Categories \cup Outcomes

VARIABLES
    table,      \* weave_adoptions: rows <<receipt, number of the request that wrote it>>
    local,      \* weave_categories of the project: a name per number
    used,       \* local categories that have placements
    models,     \* local models made by forking
    forks,      \* weave_entity_forks
    linked,     \* parents
    given,      \* weave_entity_counters: numbers given to categories and models
    req,
    started, faults,
    serial      \* do the project's requests come one after the other?

vars == <<table, local, used, models, forks, linked, given, req, started, faults, serial>>
data == <<table, local, used, models, forks, linked, given>>
rest == <<started, serial>>

Ids == 1..MaxIds
Receipt == {x \in [what: Models \cup Categories, from: Parents] :
              IF x.what \in Models THEN ParentOf[x.what] = x.from ELSE x.what \in CategoriesOf[x.from]}
OfModel(x) == x.what \in Models
Keys(rows) == {row[1] : row \in rows}
Receipts == Keys(table)
Names == {local[i] : i \in Ids} \ {None}

Idle == [op |-> None, pc |-> "idle", n |-> 0, what |-> None, from |-> None, id |-> 0, name |-> None,
         seen |-> {}, goal |-> {}, erased |-> {}, own |-> {}, todo |-> {}, made |-> {}, outcome |-> None]

Init ==
    /\ \E p \in Parents, m \in Models :
         \/ linked = {} /\ table = {} /\ local = [i \in Ids |-> None]
         \/ /\ ParentOf[m] = p
            /\ linked = {p}
            /\ table = {<<[what |-> c, from |-> p], 0>> : c \in CategoriesOf[p] \cup {m}}
            /\ local \in {f \in [Ids -> Categories \cup {None}] :
                            /\ {f[i] : i \in Ids} \ {None} = CategoriesOf[p]
                            /\ \A i \in Ids : f[i] # None <=> i <= Cardinality(CategoriesOf[p])}
    /\ used = {} /\ models = {} /\ forks = {}
    /\ given = [category |-> Cardinality({i \in Ids : local[i] # None}), model |-> 0]
    /\ req = [r \in Requests |-> Idle]
    /\ started = 0 /\ faults = 0
    /\ serial \in BOOLEAN

MaxRequests == IF serial THEN MaxInTurn ELSE MaxAtOnce
Quiet == \A r \in Requests : req[r].pc = "idle"

\* The pages offer parents, forks and categories that are there; they may be
\* gone when their turn comes.
Start(r) ==
    /\ req[r].pc = "idle"
    /\ started < MaxRequests
    /\ serial => Quiet
    /\ \E op \in Ops, m \in Models, p \in Parents, i \in Ids, c \in Categories :
         /\ op = "unlink" => p \in linked
         /\ op = "drop" => i \in models
         /\ op \in {"edit", "remove"} => local[i] # None
         /\ req' = [req EXCEPT ![r] = [Idle EXCEPT !.op = op, !.pc = op, !.n = started + 1,
                      !.what = IF op \in {"adopt", "fork"} THEN m ELSE None,
                      !.from = IF op \in {"link", "unlink"} THEN p ELSE
                               IF op = "adopt" THEN ParentOf[m] ELSE None,
                      !.id = IF op \in {"drop", "edit", "remove"} THEN i ELSE 0,
                      !.name = IF op = "edit" THEN c ELSE None]]
    /\ started' = started + 1
    /\ UNCHANGED <<data, faults, serial>>

Goto(r, pc) == req' = [req EXCEPT ![r].pc = pc]
Done(r, outcome) == req' = [req EXCEPT ![r] = [Idle EXCEPT !.op = req[r].op, !.outcome = outcome]]

\* A fork takes its model away again and a link its copies and itself;
\* everything else answers with an error.
Abort(r) ==
    IF req[r].op = "fork" \/ (req[r].op = "link" /\ req[r].pc # "link")
    THEN Goto(r, "failed") ELSE Done(r, "error")

\* A field or a placement takes a category: what other handlers do.
Place ==
    /\ serial => Quiet
    /\ \E i \in Ids : local[i] # None /\ i \notin used /\ used' = used \cup {i}
    /\ UNCHANGED <<table, local, models, forks, linked, given, req, faults, rest>>

-----------------------------------------------------------------------------
(* ReplaceForContext.  DELETE works on the rows of its snapshot: it waits   *)
(* for a transaction that is deleting one of them and does not see what     *)
(* that transaction has inserted.  INSERT waits for and then runs into the  *)
(* unique index on the receipt.                                            *)

InTransaction(q) == req[q].pc \in {"insert", "commit"}

Erase(r) ==
    /\ req[r].pc = "erase"
    /\ req' = [req EXCEPT ![r].pc = "wait", ![r].erased = table]
    /\ UNCHANGED <<data, faults, rest>>

Erased(r) ==
    /\ req[r].pc = "wait"
    /\ \A q \in Requests \ {r} : InTransaction(q) => req[q].erased \cap req[r].erased = {}
    /\ req' = [req EXCEPT ![r].pc = "insert", ![r].erased = @ \cap table]
    /\ UNCHANGED <<data, faults, rest>>

Insert(r) ==
    /\ req[r].pc = "insert"
    /\ \A q \in Requests \ {r} : InTransaction(q) =>
         (Keys(req[q].own) \cup Keys(req[q].erased \ req[r].erased)) \cap req[r].goal = {}
    /\ IF Keys(table \ req[r].erased) \cap req[r].goal # {}
       THEN Abort(r)
       ELSE req' = [req EXCEPT ![r].pc = "commit", ![r].own = {<<x, req[r].n>> : x \in req[r].goal}]
    /\ UNCHANGED <<data, faults, rest>>

Commit(r) ==
    /\ req[r].pc = "commit"
    /\ table' = (table \ req[r].erased) \cup req[r].own
    /\ IF req[r].op = "unlink"
       THEN req' = [req EXCEPT ![r].pc = "delete", ![r].erased = {}, ![r].own = {}]
       ELSE Done(r, "ok")
    /\ UNCHANGED <<local, used, models, forks, linked, given, faults, rest>>

\* What a handler lists and what it will write.
Replace(r, goal) == req' = [req EXCEPT ![r].pc = "erase", ![r].seen = Receipts, ![r].goal = goal]

\* CreateProjectAdoption; the source and its release have been checked.
Adopt(r) ==
    /\ req[r].pc = "adopt"
    /\ LET x == [what |-> req[r].what, from |-> req[r].from] IN
         IF x \in Receipts THEN Done(r, "refused") ELSE Replace(r, Receipts \cup {x})
    /\ UNCHANGED <<data, faults, rest>>

-----------------------------------------------------------------------------
(* ForkFromSource: create a model, fill it, record the fork; whatever fails *)
(* after the model is there takes it away again.                           *)

ForkOf(m) == {f \in forks : f.source = m}

ForkFault(r) ==         \* an existing fork is not looked for
    /\ req[r].pc = "fork"
    /\ IF ~\E x \in Receipts : x.what = req[r].what THEN Done(r, "refused")
       ELSE Goto(r, "create")
    /\ UNCHANGED <<data, faults, rest>>

Fork(r) ==
    /\ req[r].pc = "fork"
    /\ IF ~\E x \in Receipts : x.what = req[r].what THEN Done(r, "refused")
       ELSE IF ForkOf(req[r].what) # {} THEN Done(r, "ok")
       ELSE Goto(r, "create")
    /\ UNCHANGED <<data, faults, rest>>

CreateFork(r) ==
    /\ req[r].pc = "create"
    /\ \E i \in Ids :
         /\ i = given.model + 1
         /\ given' = [given EXCEPT !.model = i]
         /\ models' = models \cup {i}
         /\ req' = [req EXCEPT ![r].pc = "record", ![r].made = {i}]
    /\ UNCHANGED <<table, local, used, forks, linked, faults, rest>>

RecordForkFault(r) ==       \* the fork is recorded before the model is filled
    /\ req[r].pc = "record"
    /\ forks' = forks \cup {[source |-> req[r].what, model |-> i] : i \in req[r].made}
    /\ Done(r, "ok") \/ Goto(r, "failed")
    /\ UNCHANGED <<table, local, used, models, linked, given, faults, rest>>

\* The placements, refs and receipts of the new model are in by now.
RecordFork(r) ==
    /\ req[r].pc = "record"
    /\ forks' = forks \cup {[source |-> req[r].what, model |-> i] : i \in req[r].made}
    /\ Done(r, "ok")
    /\ UNCHANGED <<table, local, used, models, linked, given, faults, rest>>

\* Delete of model/service.go: the record of the fork stays.
Drop(r) ==
    /\ req[r].pc = "drop"
    /\ models' = models \ {req[r].id}
    /\ Done(r, IF req[r].id \in models THEN "ok" ELSE "refused")
    /\ UNCHANGED <<table, local, used, forks, linked, given, faults, rest>>

-----------------------------------------------------------------------------
(* Categories: edit and deletion, both of which detach the category.       *)

\* An edit that changes the name, the label or the description.
Edit(r) ==
    /\ req[r].pc = "edit"
    /\ IF local[req[r].id] = None THEN Done(r, "refused") /\ UNCHANGED local
       ELSE /\ local' = [local EXCEPT ![req[r].id] = req[r].name]
            /\ req' = [req EXCEPT ![r].pc = "detach", ![r].name = local[req[r].id]]
    /\ UNCHANGED <<table, used, models, forks, linked, given, faults, rest>>

Remove(r) ==
    /\ req[r].pc = "remove"
    /\ IF local[req[r].id] = None \/ req[r].id \in used
       THEN Done(r, "refused")
       ELSE req' = [req EXCEPT ![r].pc = "removing", ![r].name = local[req[r].id]]
    /\ UNCHANGED <<data, faults, rest>>

\* With ReassignTo there is no check and the placements move.
RemoveAndReassign(r) ==
    /\ req[r].pc = "remove"
    /\ local[req[r].id] # None
    /\ \E i \in Ids \ {req[r].id} :
         /\ local[i] # None
         /\ used' = IF req[r].id \in used THEN (used \ {req[r].id}) \cup {i} ELSE used
    /\ local' = [local EXCEPT ![req[r].id] = None]
    /\ req' = [req EXCEPT ![r].pc = "detach", ![r].name = local[req[r].id]]
    /\ UNCHANGED <<table, models, forks, linked, given, faults, rest>>

Removing(r) ==
    /\ req[r].pc = "removing"
    /\ local' = [local EXCEPT ![req[r].id] = None]
    /\ Goto(r, "detach")
    /\ UNCHANGED <<table, used, models, forks, linked, given, faults, rest>>

\* detachProjectCategoryAdoption lists the receipts of categories alone.
Detach(r) ==
    /\ req[r].pc = "detach"
    /\ LET listed == {x \in Receipts : ~OfModel(x)}
           kept == {x \in listed : x.what # req[r].name}
       IN  IF kept = listed THEN Done(r, "ok") ELSE Replace(r, kept)
    /\ UNCHANGED <<data, faults, rest>>

-----------------------------------------------------------------------------
(* A parent is added: its link, copies of its categories, their receipts.  *)

Link(r) ==
    /\ req[r].pc = "link"
    /\ IF req[r].from \in linked THEN Done(r, "refused") /\ UNCHANGED linked
       ELSE linked' = linked \cup {req[r].from} /\ Goto(r, "copy")
    /\ UNCHANGED <<table, local, used, models, forks, given, faults, rest>>

ReadCategories(r) ==
    /\ req[r].pc = "copy"
    /\ req' = [req EXCEPT ![r].pc = "copying", ![r].todo = CategoriesOf[req[r].from] \ Names]
    /\ UNCHANGED <<data, faults, rest>>

CopyCategory(r) ==
    /\ req[r].pc = "copying"
    /\ \E c \in req[r].todo, i \in Ids :
         /\ i = given.category + 1
         /\ given' = [given EXCEPT !.category = i]
         /\ local' = [local EXCEPT ![i] = c]
         /\ req' = [req EXCEPT ![r].todo = @ \ {c}, ![r].made = @ \cup {i},
                               ![r].goal = @ \cup {[what |-> c, from |-> req[r].from]}]
    /\ UNCHANGED <<table, used, models, forks, linked, faults, rest>>

ListReceipts(r) ==
    /\ req[r].pc = "copying"
    /\ req[r].todo = {}
    /\ IF req[r].goal = {} THEN Done(r, "ok") ELSE Replace(r, Receipts \cup req[r].goal)
    /\ UNCHANGED <<data, faults, rest>>

-----------------------------------------------------------------------------
(* A parent is removed.                                                    *)

UnlinkEarlyFault(r) ==      \* the link goes first
    /\ req[r].pc = "unlink"
    /\ IF \E x \in Receipts : OfModel(x) /\ x.from = req[r].from /\ ForkOf(x.what) = {}
       THEN Done(r, "refused") /\ UNCHANGED linked
       ELSE Goto(r, "detachAll") /\ linked' = linked \ {req[r].from}
    /\ UNCHANGED <<table, local, used, models, forks, given, faults, rest>>

UnlinkFault(r) ==           \* nothing blocks the removal
    /\ req[r].pc = "unlink"
    /\ Goto(r, "detachAll")
    /\ UNCHANGED <<data, faults, rest>>

\* receiptOnlyAdoptionRemovalBlockers
Unlink(r) ==
    /\ req[r].pc = "unlink"
    /\ IF \E x \in Receipts : OfModel(x) /\ x.from = req[r].from /\ ForkOf(x.what) = {}
       THEN Done(r, "refused") ELSE Goto(r, "detachAll")
    /\ UNCHANGED <<data, faults, rest>>

ListCopiesFault(r) ==       \* the receipts of categories alone are listed
    /\ req[r].pc = "detachAll"
    /\ LET gone == {x \in Receipts : ~OfModel(x) /\ x.from = req[r].from} IN
         IF gone = {} THEN Goto(r, "unlinking")
         ELSE req' = [req EXCEPT ![r].pc = "erase", ![r].seen = Receipts,
                        ![r].goal = {x \in Receipts : ~OfModel(x)} \ gone, ![r].todo = {}]
    /\ UNCHANGED <<data, faults, rest>>

CountFault(r) ==            \* the counts are not looked at
    /\ req[r].pc = "detachAll"
    /\ LET gone == {x \in Receipts : ~OfModel(x) /\ x.from = req[r].from} IN
         IF gone = {} THEN Goto(r, "unlinking")
         ELSE req' = [req EXCEPT ![r].pc = "erase", ![r].seen = Receipts, ![r].goal = Receipts \ gone,
                        ![r].todo = {i \in Ids : local[i] \in {x.what : x \in gone}}]
    /\ UNCHANGED <<data, faults, rest>>

\* cleanupRemovedParentCategories: receipts, counts, and the unused copies
\* (of two with one name, one).
ListCopies(r) ==
    /\ req[r].pc = "detachAll"
    /\ LET gone == {x \in Receipts : ~OfModel(x) /\ x.from = req[r].from}
           names == {x.what : x \in gone} \cap Names
       IN  IF gone = {} THEN Goto(r, "unlinking")
           ELSE \E byName \in [names -> Ids] :
                  /\ \A c \in names : local[byName[c]] = c
                  /\ req' = [req EXCEPT ![r].pc = "erase", ![r].seen = Receipts,
                               ![r].goal = Receipts \ gone,
                               ![r].todo = {byName[c] : c \in names} \ used]
    /\ UNCHANGED <<data, faults, rest>>

DeleteCopies(r) ==
    /\ req[r].pc = "delete"
    /\ local' = [i \in Ids |-> IF i \in req[r].todo THEN None ELSE local[i]]
    /\ Goto(r, "unlinking")
    /\ UNCHANGED <<table, used, models, forks, linked, given, faults, rest>>

Unlinking(r) ==
    /\ req[r].pc = "unlinking"
    /\ linked' = linked \ {req[r].from}
    /\ Done(r, "ok")
    /\ UNCHANGED <<table, local, used, models, forks, given, faults, rest>>

-----------------------------------------------------------------------------
(* Failures.                                                               *)

\* A statement fails.  Where no number is given to a copy, the copies made
\* before it are forgotten (AllocateEntityNumber in copyParentCategories).
Fails(r) ==
    /\ req[r].pc \notin {"idle", "failed"}
    /\ faults < MaxFaults
    /\ faults' = faults + 1
    /\ \/ Abort(r)
       \/ /\ req[r].pc = "copying" /\ req[r].todo # {}
          /\ req' = [req EXCEPT ![r].pc = "failed", ![r].made = {}]
    /\ UNCHANGED <<data, rest>>

CleanUp(r) ==
    /\ req[r].pc = "failed"
    /\ IF req[r].op = "fork"
       THEN models' = models \ req[r].made /\ UNCHANGED <<local, linked>>
       ELSE /\ local' = [i \in Ids |-> IF i \in req[r].made THEN None ELSE local[i]]
            /\ linked' = linked \ {req[r].from}
            /\ UNCHANGED models
    /\ Done(r, "error")
    /\ UNCHANGED <<table, used, forks, given, faults, rest>>

\* The request's context ends or the process dies: no clean-up succeeds.
Dies(r) ==
    /\ req[r].pc # "idle"
    /\ faults < MaxFaults
    /\ faults' = faults + 1
    /\ Done(r, "error")
    /\ UNCHANGED <<data, rest>>

-----------------------------------------------------------------------------
Step(r) ==
    \/ Erase(r) \/ Erased(r) \/ Insert(r) \/ Commit(r)
    \/ Adopt(r) \/ Fork(r) \/ CreateFork(r) \/ RecordFork(r) \/ Drop(r)
    \/ Edit(r) \/ Remove(r) \/ RemoveAndReassign(r) \/ Removing(r) \/ Detach(r)
    \/ Link(r) \/ ReadCategories(r) \/ CopyCategory(r) \/ ListReceipts(r)
    \/ Unlink(r) \/ ListCopies(r) \/ DeleteCopies(r) \/ Unlinking(r) \/ CleanUp(r)

Next == Place \/ \E r \in Requests : Start(r) \/ Step(r) \/ Fails(r) \/ Dies(r)

\* A request that has started runs on.
Fairness == \A r \in Requests : WF_vars(Step(r))
Spec == Init /\ [][Next]_vars /\ Fairness

-----------------------------------------------------------------------------
(* What adoption promises.                                                 *)

Steps == AllOps \cup {"idle", "erase", "wait", "insert", "commit", "create", "record", "removing",
                      "detach", "copy", "copying", "detachAll", "delete", "unlinking", "failed"}
Rows == Receipt \X Nat

TypeOK ==
    /\ table \subseteq Rows
    /\ \A a, b \in table : a[1] = b[1] => a = b      \* weave_adoptions_context_source_key
    /\ local \in [Ids -> Categories \cup {None}]
    /\ used \subseteq Ids /\ models \subseteq Ids
    /\ forks \subseteq [source: Models, model: Ids]
    /\ linked \subseteq Parents
    /\ given \in [category: 0..MaxIds, model: 0..MaxIds]
    /\ \A r \in Requests :
         /\ req[r].pc \in Steps /\ req[r].outcome \in Outcomes \cup {None}
         /\ req[r].seen \cup req[r].goal \subseteq Receipt
         /\ req[r].erased \cup req[r].own \subseteq Rows
         /\ req[r].made \subseteq Ids
         /\ req[r].todo \subseteq Categories \cup Ids
    /\ started <= MaxRequests /\ faults \in 0..MaxFaults /\ serial \in BOOLEAN

Commits(r) == req[r].pc = "commit" /\ req'[r].pc # "commit" /\ req'[r].outcome # "error"

\* Without a lock receipts can be lost, but in one way only: to a request that
\* had listed them before they were written.  Otherwise a model's receipt stays,
\* and a category's goes when its parent is removed or its copy is edited or
\* deleted.  (Edits and deletions also take the receipts of models: see
\* DetachSparesModels.)
LostOnlyToStaleList ==
    [][\A x \in Receipts \ Keys(table') : \E r \in Requests : Commits(r) /\
         \/ x \notin req[r].seen
         \/ req[r].op = "unlink" /\ ~OfModel(x) /\ x.from = req[r].from
         \/ req[r].op \in {"edit", "remove"} /\ (OfModel(x) \/ x.what = req[r].name)]_vars

\* Detaching a category gives up its receipt and no other (service_detach_test.go).
DetachSparesModels ==
    [][serial => {x \in Receipts : OfModel(x)} \subseteq Keys(table')]_vars

\* Whatever fails on the way, copied categories are vouched for by parents only:
\* the link is there before their receipts and goes after them.
ReceiptsOfParents ==
    serial => \A x \in Receipts : OfModel(x) \/ x.from \in linked

\* A parent is not removed while something adopted from it is neither forked nor
\* given up (receiptOnlyAdoptionRemovalBlockers), and no copy keeps its receipt.
NothingStranded ==
    [][serial => \A r \in Requests : \A x \in Receipts :
         req[r].pc = "unlinking" /\ req'[r].outcome = "ok" /\ x.from = req[r].from =>
           OfModel(x) /\ ForkOf(x.what) # {}]_vars

\* A category with placements is deleted only when they are given another.
UsedCopyStays ==
    [][serial => \A i \in used : local[i] # None /\ local'[i] = None => i \notin used']_vars

\* A source is forked once (existingFork), and clean-up never takes away a model
\* that is recorded as a fork.
OneForkPerSource ==
    serial => \A f, g \in forks : f.source = g.source => f = g
CleanForks ==
    [][serial => \A f \in forks' : f.model \notin models' =>
         f \in forks /\ (f.model \in models => \E r \in Requests : req[r].op = "drop")]_vars

\* Forking answers with a model that exists.
ForkAnswersWithModel ==
    [][serial => \A r \in Requests :
         req[r].pc \in {"fork", "record"} /\ req'[r].outcome = "ok" =>
           \E f \in forks' : f.source = req[r].what /\ f.model \in models']_vars

\* Every request is answered, also one that waits for the rows of another.
Answered == \A r \in Requests : req[r].pc # "idle" ~> req[r].pc = "idle"
=============================================================================
