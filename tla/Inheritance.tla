---------------------------- MODULE Inheritance ----------------------------
(***************************************************************************)
(* Links from projects to their parents                                    *)
(* (pkg/weave/project_inheritance_store.go), the handlers of the settings   *)
(* pages that change them (pkg/weave/settings/handler.go), the operator     *)
(* command that re-pins children (pkg/weave/project/repin.go) and the       *)
(* trigger against cycles (migration 004).                                  *)
(*                                                                         *)
(* A request runs several transactions, a transaction several statements at *)
(* READ COMMITTED.  A statement sees committed rows and its own; it waits   *)
(* for the rows it writes while another transaction has written them, and   *)
(* a write of a primary row waits for an uncommitted primary row of the     *)
(* same child (the unique index idx_wpi_primary).                           *)
(*                                                                         *)
(* The order of parents is left out: ReorderInheritance can make any link   *)
(* the first, so "the first in order" is any.  The copies of categories and *)
(* their receipts, which the handlers write around the link, are in         *)
(* Adoption; here that part succeeds or fails.                              *)
(***************************************************************************)
EXTENDS Naturals, FiniteSets

CONSTANTS
    Projects,
    Releases,       \* releases a link may be pinned to; any parent has them
    Draft,          \* the source of a link that follows its parent's draft
    Requests,       \* each handles one request
    Ops,            \* which requests there are, a subset of AllOps
    InitialLinks,   \* sets of <<child, parent, primary, source>> to start from
    MaxFaults,      \* bound on statements that fail
    NoLink, Untouched, None

AllOps == {"create", "source", "delete", "primary", "reorder", "repin", "ontology", "general"}

ASSUME InheritanceAssumption ==
    /\ Ops \subseteq AllOps
    /\ InitialLinks \subseteq SUBSET (Projects \X Projects \X BOOLEAN \X (Releases \cup {Draft}))
    /\ MaxFaults \in Nat
    /\ Draft \notin Releases
    /\ None \notin Projects
    /\ NoLink \notin [primary: BOOLEAN, source: Releases \cup {Draft}]
    /\ Untouched \notin [primary: BOOLEAN, source: Releases \cup {Draft}] \cup {NoLink}

VARIABLES
    link,       \* weave_project_inheritance, as committed: a row per pair
    scalar,     \* weave_projects.parent_project_id
    req,        \* what each request is doing
    faults

\* History: <<e, f>> if f was committed after the trigger had let e pass and
\* before e was committed, so that the check of e has missed f.
VARIABLE missed

vars == <<link, scalar, req, faults, missed>>

Sources == Releases \cup {Draft}
Pairs == Projects \X Projects
Row == [primary: BOOLEAN, source: Sources]
NoRows == [p \in Projects |-> Untouched]

Idle == [op |-> None, pc |-> "idle", tx |-> None, child |-> None, parent |-> None,
         primary |-> FALSE, source |-> Draft, head |-> None, own |-> NoRows,
         todo |-> {}, outcome |-> None]

Statements == {"insert", "delete", "exists", "clear", "settle", "head", "commit", "update", "move"}
Finished == {"idle", "done"}

-----------------------------------------------------------------------------
(* Graphs.  A set of projects is closed if it holds the parents of each of  *)
(* its members; the ancestors of a project are what every closed set with   *)
(* the project in it holds.                                                 *)

Edges(l) == {e \in Pairs : l[e] # NoLink}
Closed(edges, S) == \A e \in edges : e[1] \in S => e[2] \in S
ParentsIn(edges, p) == {q \in Projects : <<p, q>> \in edges}

\* Can p take q for a parent without becoming its own ancestor?
NoLoop(edges, p, q) ==
    \E S \in SUBSET Projects : q \in S /\ p \notin S /\ Closed(edges, S)

\* No project is its own ancestor.
IsAcyclic(edges) ==
    \A p \in Projects : \E S \in SUBSET Projects :
        ParentsIn(edges, p) \subseteq S /\ p \notin S /\ Closed(edges, S)

\* The links to start from have no cycle.
LinksOf(start) == {e \in Pairs : \E t \in start : t[1] = e[1] /\ t[2] = e[2]}
ASSUME InitialAcyclic == \A start \in InitialLinks : IsAcyclic(LinksOf(start))

\* They name each pair once, and one primary parent of each child.
ASSUME InitialPrimary ==
    \A start \in InitialLinks :
        /\ \A t, u \in start : t[1] = u[1] /\ t[2] = u[2] => t = u
        /\ \A t \in start : \E u \in start :
              u[1] = t[1] /\ u[3] /\ \A v \in start : v[1] = t[1] /\ v[3] => v = u

-----------------------------------------------------------------------------
(* What a transaction sees and what it waits for.                          *)

Seen(r, p) ==
    IF req[r].own[p] # Untouched THEN req[r].own[p] ELSE link[<<req[r].child, p>>]
Linked(r) == {p \in Projects : Seen(r, p) # NoLink}
PrimaryOf(r) == {p \in Linked(r) : Seen(r, p).primary}

\* The first in the order of List, by which primary rows come first.
First(r) == IF PrimaryOf(r) # {} THEN PrimaryOf(r) ELSE Linked(r)

Siblings(r) == {q \in Requests \ {r} : req[q].child = req[r].child}
LockedBy(q, p) == req[q].own[p] # Untouched
Free(r, ps) == \A q \in Siblings(r) : \A p \in ps : ~LockedBy(q, p)

\* A transaction has written a row that is primary, or that was before.
HoldsPrimary(q) ==
    \E p \in Projects :
        LET rows == {req[q].own[p], link[<<req[q].child, p>>]} \ {NoLink} IN
        LockedBy(q, p) /\ \E row \in rows : row.primary

\* The unique index: a primary row waits for those.
IndexFree(r) == \A q \in Siblings(r) : ~HoldsPrimary(q)

\* A committed row, seen or not, is already primary.
PrimaryTaken(r, p) ==
    \E q \in Projects \ {p} : Seen(r, q) # NoLink /\ Seen(r, q).primary

\* The rows a transaction has inserted or updated, as edges.
Inserted(r) == {e \in Pairs : e[1] = req[r].child /\ req[r].own[e[2]] \notin {Untouched, NoLink}}

\* The links that the commit of a transaction will add.
Adds(r) == Inserted(r) \ Edges(link)
AddedBeside(r) == UNION {Adds(q) : q \in Requests \ {r}}

\* The trigger lets a new link pass: from here on its check can miss others.
Checked(e) == missed' = IF e \in Edges(link) THEN missed ELSE {m \in missed : e \notin {m[1], m[2]}}

-----------------------------------------------------------------------------
Init ==
    /\ \E start \in InitialLinks :
         /\ link = [e \in Pairs |->
                      IF \E t \in start : t[1] = e[1] /\ t[2] = e[2]
                      THEN LET t == CHOOSE t \in start : t[1] = e[1] /\ t[2] = e[2]
                           IN  [primary |-> t[3], source |-> t[4]]
                      ELSE NoLink]
         /\ scalar = [c \in Projects |->
                        IF \E t \in start : t[1] = c /\ t[3]
                        THEN (CHOOSE t \in start : t[1] = c /\ t[3])[2] ELSE None]
    /\ req = [r \in Requests |-> Idle]
    /\ faults = 0
    /\ missed = {}

FirstStep(op) ==
    CASE op = "create"   -> "graph"
      [] op = "source"   -> "read"
      [] op = "delete"   -> "receipts"
      [] op = "primary"  -> "exists"
      [] op = "reorder"  -> "settle"
      [] op = "repin"    -> "classify"
      [] op = "ontology" -> "chain"
      [] op = "general"  -> "load"

\* A request arrives.  validateInheritanceSource has accepted the source; the
\* handlers refuse a parent that is the project itself.  The page offers to
\* change only links it has loaded; they may have changed since.
Start(r) ==
    /\ req[r].pc = "idle"
    /\ \E op \in Ops, c, p \in Projects, primary \in BOOLEAN, s \in Sources :
         /\ c # p
         /\ op \in {"source", "delete", "primary", "reorder"} => link[<<c, p>>] # NoLink
         /\ primary => op = "create"
         /\ s # Draft => op \in {"create", "source", "repin"}
         /\ op = "repin" => s # Draft
         /\ req' = [req EXCEPT ![r] =
              [Idle EXCEPT !.op = op, !.pc = FirstStep(op), !.tx = op, !.child = c,
                           !.parent = p, !.primary = primary, !.source = s]]
    /\ UNCHANGED <<link, scalar, faults, missed>>

Done(r, outcome) ==
    req' = [req EXCEPT ![r] = [Idle EXCEPT !.op = req[r].op, !.pc = "done", !.child = req[r].child,
                               !.parent = req[r].parent, !.tx = req[r].tx, !.outcome = outcome]]
Goto(r, pc) == req' = [req EXCEPT ![r].pc = pc]

\* A statement failed: the transaction is rolled back.  UpdateOntology logs
\* the failure of one of its children and goes on to the next, everything
\* else answers with an error.
Abort(r) ==
    IF req[r].tx = "sync"
    THEN req' = [req EXCEPT ![r].pc = "next", ![r].own = NoRows]
    ELSE Done(r, "error")

-----------------------------------------------------------------------------
(* What the handlers read before they write.                               *)

\* CreateInheritance: the parents of the child, and createsInheritanceCycle.
CheckGraph(r) ==
    /\ req[r].pc = "graph"
    /\ IF \/ link[<<req[r].child, req[r].parent>>] # NoLink
          \/ ~NoLoop(Edges(link), req[r].child, req[r].parent)
       THEN Done(r, "refused")
       ELSE req' = [req EXCEPT ![r].pc = "insert", ![r].tx = "add",
                               ![r].primary = @ \/ Linked(r) = {}]
    /\ UNCHANGED <<link, scalar, faults, missed>>

\* UpdateInheritanceSource copies the row and will write the copy back.
ReadLinkFault(r) ==     \* a fresh row instead of a copy
    /\ req[r].pc = "read"
    /\ IF link[<<req[r].child, req[r].parent>>] = NoLink THEN Done(r, "refused") ELSE Goto(r, "insert")
    /\ UNCHANGED <<link, scalar, faults, missed>>

ReadLink(r) ==
    /\ req[r].pc = "read"
    /\ LET row == link[<<req[r].child, req[r].parent>>] IN
         IF row = NoLink THEN Done(r, "refused")
         ELSE req' = [req EXCEPT ![r].pc = "insert", ![r].primary = row.primary]
    /\ UNCHANGED <<link, scalar, faults, missed>>

\* DeleteInheritance: receipts of the parent refuse the removal, or its
\* categories are detached (Adoption).
CheckReceipts(r) ==
    /\ req[r].pc = "receipts"
    /\ Done(r, "refused") \/ Goto(r, "delete")
    /\ UNCHANGED <<link, scalar, faults, missed>>

-----------------------------------------------------------------------------
(* The statements of Add, Remove, SetPrimary and Reorder.                  *)

InsertFault(r) ==       \* no trigger: the handler's check alone
    /\ req[r].pc = "insert"
    /\ Free(r, {req[r].parent})
    /\ req[r].primary => IndexFree(r)
    /\ IF req[r].primary /\ PrimaryTaken(r, req[r].parent)
       THEN Abort(r) /\ UNCHANGED missed
       ELSE /\ req' = [req EXCEPT ![r].pc = "settle",
                 ![r].own[req[r].parent] = [primary |-> req[r].primary, source |-> req[r].source]]
            /\ Checked(<<req[r].child, req[r].parent>>)
    /\ UNCHANGED <<link, scalar, faults>>

\* INSERT ... ON CONFLICT DO UPDATE, behind the trigger and the index.
\* Clearing the other primaries comes after it and finds none to clear.
Insert(r) ==
    /\ req[r].pc = "insert"
    /\ Free(r, {req[r].parent})
    /\ req[r].primary => IndexFree(r)
    /\ IF \/ ~NoLoop(Edges(link), req[r].child, req[r].parent)
          \/ req[r].primary /\ PrimaryTaken(r, req[r].parent)
       THEN Abort(r) /\ UNCHANGED missed
       ELSE /\ req' = [req EXCEPT ![r].pc = "settle",
                 ![r].own[req[r].parent] = [primary |-> req[r].primary, source |-> req[r].source]]
            /\ Checked(<<req[r].child, req[r].parent>>)
    /\ UNCHANGED <<link, scalar, faults>>

Delete(r) ==
    /\ req[r].pc = "delete"
    /\ Free(r, {req[r].parent})
    /\ req' = [req EXCEPT ![r].pc = "settle",
                          ![r].own[req[r].parent] = IF Seen(r, req[r].parent) = NoLink
                                                    THEN Untouched ELSE NoLink]
    /\ UNCHANGED <<link, scalar, faults, missed>>

SettleFault(r) ==       \* the order alone, no ensureSinglePrimaryInheritanceTx
    /\ req[r].pc = "settle"
    /\ Free(r, Linked(r))
    /\ Linked(r) # {} => IndexFree(r)
    /\ req' = [req EXCEPT ![r].pc = "head",
         ![r].own = [p \in Projects |-> IF p \in Linked(r) THEN Seen(r, p) ELSE req[r].own[p]]]
    /\ UNCHANGED <<link, scalar, faults, missed>>

\* normalizeInheritanceOrderTx and ensureSinglePrimaryInheritanceTx: every
\* row of the child is written; the first becomes the only primary one.
Settle(r) ==
    /\ req[r].pc = "settle"
    /\ Free(r, Linked(r))
    /\ Linked(r) # {} => IndexFree(r)
    /\ \/ Linked(r) = {} /\ Goto(r, "head")
       \/ \E f \in First(r) :
            req' = [req EXCEPT ![r].pc = "head",
              ![r].own = [p \in Projects |-> IF p \in Linked(r)
                                             THEN [Seen(r, p) EXCEPT !.primary = (p = f)]
                                             ELSE req[r].own[p]]]
    /\ UNCHANGED <<link, scalar, faults, missed>>

LookUp(r) ==
    /\ req[r].pc = "exists"
    /\ IF link[<<req[r].child, req[r].parent>>] = NoLink THEN Abort(r) ELSE Goto(r, "clear")
    /\ UNCHANGED <<link, scalar, faults, missed>>

\* SetPrimary: is_primary = false for the child's rows, then true for one.
ClearAndSet(r) ==
    /\ req[r].pc = "clear"
    /\ Free(r, Linked(r)) /\ IndexFree(r)
    /\ req' = [req EXCEPT ![r].pc = "head",
         ![r].own = [p \in Projects |-> IF p \in Linked(r)
                                        THEN [Seen(r, p) EXCEPT !.primary = (p = req[r].parent)]
                                        ELSE req[r].own[p]]]
    /\ UNCHANGED <<link, scalar, faults, missed>>

ReadHeadFault(r) ==     \* read outside of the transaction
    LET c == req[r].child
        linked == {p \in Projects : link[<<c, p>>] # NoLink}
        primary == {p \in linked : link[<<c, p>>].primary}
    IN
    /\ req[r].pc = "head"
    /\ \/ linked = {} /\ req' = [req EXCEPT ![r].pc = "commit", ![r].head = None]
       \/ \E f \in (IF primary # {} THEN primary ELSE linked) :
            req' = [req EXCEPT ![r].pc = "commit", ![r].head = f]
    /\ UNCHANGED <<link, scalar, faults, missed>>

\* syncPrimaryParentColumnTx reads the first parent ...
ReadHead(r) ==
    /\ req[r].pc = "head"
    /\ \/ Linked(r) = {} /\ req' = [req EXCEPT ![r].pc = "commit", ![r].head = None]
       \/ \E f \in First(r) : req' = [req EXCEPT ![r].pc = "commit", ![r].head = f]
    /\ UNCHANGED <<link, scalar, faults, missed>>

\* ... and writes it into the project's row; the transaction commits, and the
\* handler goes on.
NextStep(r) ==
    CASE req[r].tx = "add" /\ req[r].primary -> "exists"
      [] req[r].tx = "add" /\ ~req[r].primary -> "copy"
      [] req[r].tx = "addprimary" -> "copy"
      [] req[r].tx = "sync" -> "next"
      [] req[r].tx = "ontology" -> "children"
      [] OTHER -> "done"

Commit(r) ==
    /\ req[r].pc = "commit"
    /\ link' = [e \in Pairs |-> IF e[1] = req[r].child THEN Seen(r, e[2]) ELSE link[e]]
    /\ scalar' = [scalar EXCEPT ![req[r].child] = req[r].head]
    /\ IF NextStep(r) = "done"
       THEN Done(r, IF req[r].tx = "undo" THEN "error" ELSE "ok")
       ELSE req' = [req EXCEPT ![r].pc = NextStep(r), ![r].own = NoRows,
                               ![r].head = IF NextStep(r) = "children" THEN @ ELSE None,
                               ![r].tx = IF NextStep(r) = "exists" THEN "addprimary" ELSE @]
    /\ missed' = missed \cup (AddedBeside(r) \X Adds(r))
    /\ UNCHANGED faults

\* copyParentCategories; when it fails the link is removed again.
CopyCategories(r) ==
    /\ req[r].pc = "copy"
    /\ Done(r, "ok")
    /\ UNCHANGED <<link, scalar, faults, missed>>

CopyFails(r) ==
    /\ req[r].pc = "copy"
    /\ faults < MaxFaults
    /\ faults' = faults + 1
    /\ req' = [req EXCEPT ![r].pc = "delete", ![r].tx = "undo"]
    /\ UNCHANGED <<link, scalar, missed>>

-----------------------------------------------------------------------------
(* The project row: UpdateOntology and UpdateGeneral write all of it.      *)

\* createsParentCycle walks the scalar parents.
CheckChain(r) ==
    /\ req[r].pc = "chain"
    /\ \/ req' = [req EXCEPT ![r].pc = "update", ![r].head = None]
       \/ LET up == {e \in Pairs : scalar[e[1]] = e[2]} IN
            IF NoLoop(up, req[r].child, req[r].parent)
            THEN req' = [req EXCEPT ![r].pc = "update", ![r].head = req[r].parent]
            ELSE Done(r, "refused")
    /\ UNCHANGED <<link, scalar, faults, missed>>

LoadProject(r) ==
    /\ req[r].pc = "load"
    /\ req' = [req EXCEPT ![r].pc = "update", ![r].head = scalar[req[r].child]]
    /\ UNCHANGED <<link, scalar, faults, missed>>

\* syncProjectPrimaryInheritance gives a project without links its scalar
\* parent as a primary draft link.
Seeds(r) == req[r].head # None /\ Linked(r) = {}

\* Projects().Update: the row of the project, and its first link if it has
\* none yet; the transaction then commits.
UpdateProject(r) ==
    LET c == req[r].child
        p == req[r].head
    IN
    /\ req[r].pc = "update"
    /\ \/ /\ ~Seeds(r)
          /\ scalar' = [scalar EXCEPT ![c] = p]
          /\ IF req[r].op = "ontology" /\ p # None THEN Goto(r, "children") ELSE Done(r, "ok")
          /\ UNCHANGED missed
       \/ /\ Seeds(r) /\ Free(r, {p}) /\ IndexFree(r)
          /\ IF NoLoop(Edges(link), c, p)
             THEN /\ req' = [req EXCEPT ![r].pc = "commit",
                               ![r].own[p] = [primary |-> TRUE, source |-> Draft]]
                  /\ Checked(<<c, p>>)
             ELSE Done(r, "error") /\ UNCHANGED missed
          /\ UNCHANGED scalar
    /\ UNCHANGED <<link, faults>>

\* syncChildWeaveInheritances: which children of the parent are to be linked
\* as well, and which no longer.
ListChildren(r) ==
    /\ req[r].pc = "children"
    /\ LET c == req[r].child
           children == {x \in Projects \ {c} :
                          \/ link[<<x, req[r].head>>] # NoLink
                          \/ scalar[x] = req[r].head /\ \A p \in Projects : link[<<x, p>>] = NoLink}
           others == Linked(r) \ PrimaryOf(r)
       IN  \E wanted \in SUBSET children :
             req' = [req EXCEPT ![r].pc = "next", ![r].tx = "sync",
                       ![r].todo = ({"delete"} \X ((others \cap children) \ wanted))
                                     \cup ({"insert"} \X (wanted \ others))]
    /\ UNCHANGED <<link, scalar, faults, missed>>

NextChildFault(r) ==    \* a child that fails is tried again
    /\ req[r].pc = "next"
    /\ \/ req[r].todo = {} /\ Done(r, "ok")
       \/ \E t \in req[r].todo :
            req' = [req EXCEPT ![r].pc = t[1], ![r].parent = t[2],
                               ![r].todo = IF Linked(r) \ PrimaryOf(r) = {} THEN @ ELSE @ \ {t}]
    /\ UNCHANGED <<link, scalar, faults, missed>>

NextChild(r) ==
    /\ req[r].pc = "next"
    /\ \/ req[r].todo = {} /\ Done(r, "ok")
       \/ \E t \in req[r].todo :
            /\ t[1] = "insert" => \A u \in req[r].todo : u[1] = "insert"
            /\ req' = [req EXCEPT ![r].pc = t[1], ![r].parent = t[2], ![r].todo = @ \ {t}]
    /\ UNCHANGED <<link, scalar, faults, missed>>

-----------------------------------------------------------------------------
(* RepinChildren: the children's links are read, then moved in one          *)
(* transaction.  todo holds what is left to do to which child.              *)

Classify(r) ==
    /\ req[r].pc = "classify"
    /\ \E from \in Sources, includeDraft \in BOOLEAN :
         LET p == req[r].parent
             moves == {c \in Projects :
                         /\ link[<<c, p>>] # NoLink
                         /\ LET s == link[<<c, p>>].source IN
                              /\ s = Draft => includeDraft
                              /\ s # req[r].source
                              /\ from = Draft \/ s = from}
         IN  req' = [req EXCEPT ![r].pc = "move", ![r].primary = includeDraft,
                                   ![r].todo = {"move"} \X moves]
    /\ UNCHANGED <<link, scalar, faults, missed>>

ApplyRepins(r) ==
    /\ req[r].pc = "move"
    /\ \A q \in Requests \ {r} : <<"move", req[q].child>> \in req[r].todo => ~LockedBy(q, req[r].parent)
    /\ link' = [e \in Pairs |->
                  IF e[2] = req[r].parent /\ <<"move", e[1]>> \in req[r].todo /\ link[e] # NoLink
                  THEN [link[e] EXCEPT !.source = req[r].source] ELSE link[e]]
    /\ Done(r, "ok")
    /\ UNCHANGED <<scalar, faults, missed>>

-----------------------------------------------------------------------------
(* Failures.                                                               *)

\* A statement fails: the connection, the request's context.
StatementFails(r) ==
    /\ req[r].pc \in Statements
    /\ faults < MaxFaults
    /\ faults' = faults + 1
    /\ Abort(r)
    /\ UNCHANGED <<link, scalar, missed>>

\* The rows a request needs next, and who has them.
Needs(r) ==
    IF req[r].pc \in {"insert", "delete"} THEN {req[r].parent}
    ELSE IF req[r].pc \in {"settle", "clear"} THEN Linked(r) ELSE {}
WantsPrimary(r) ==
    \/ req[r].pc = "insert" /\ req[r].primary
    \/ req[r].pc \in {"settle", "clear"} /\ Linked(r) # {}
WaitsFor(r, q) ==
    /\ q \in Siblings(r)
    /\ \/ \E p \in Needs(r) : LockedBy(q, p)
       \/ WantsPrimary(r) /\ HoldsPrimary(q)

\* Postgres ends one of two transactions that wait for each other.
DeadlockVictim(r) ==
    /\ \E q \in Requests \ {r} : WaitsFor(r, q) /\ WaitsFor(q, r)
    /\ Abort(r)
    /\ UNCHANGED <<link, scalar, faults, missed>>

-----------------------------------------------------------------------------
Transaction(r) ==
    \/ Insert(r) \/ Delete(r) \/ Settle(r) \/ LookUp(r) \/ ClearAndSet(r)
    \/ ReadHead(r) \/ Commit(r) \/ DeadlockVictim(r)
Handler(r) ==
    \/ CheckGraph(r) \/ ReadLink(r) \/ CheckReceipts(r) \/ CopyCategories(r)
    \/ CheckChain(r) \/ LoadProject(r) \/ UpdateProject(r) \/ ListChildren(r) \/ NextChild(r)
    \/ Classify(r) \/ ApplyRepins(r)
Step(r) == Transaction(r) \/ Handler(r)

Next == \E r \in Requests : Start(r) \/ Step(r) \/ CopyFails(r) \/ StatementFails(r)

\* A request that has started runs on; Postgres finds deadlocks.
Fairness == \A r \in Requests : WF_vars(Step(r))
Spec == Init /\ [][Next]_vars /\ Fairness

-----------------------------------------------------------------------------
(* What the links are for.                                                 *)

Steps == {"graph", "read", "receipts", "copy", "chain", "load", "children", "next", "classify"}
Request == [op: AllOps \cup {None}, pc: Steps \cup Statements \cup Finished,
            tx: AllOps \cup {"add", "addprimary", "undo", "sync", None},
            child: Projects \cup {None}, parent: Projects \cup {None}, head: Projects \cup {None},
            primary: BOOLEAN, source: Sources, own: [Projects -> Row \cup {NoLink, Untouched}],
            todo: SUBSET ({"insert", "delete", "move"} \X Projects),
            outcome: {"ok", "refused", "error", None}]

TypeOK ==
    /\ link \in [Pairs -> Row \cup {NoLink}]
    /\ scalar \in [Projects -> Projects \cup {None}]
    /\ req \in [Requests -> Request]
    /\ faults \in 0..MaxFaults
    /\ missed \subseteq Pairs \X Pairs

\* The graph of parents has no cycle: what migration 004 says of its trigger.
\* Two links added at the same time can make one.
Acyclic == IsAcyclic(Edges(link))

\* Nothing else can: in whatever way links come to close a cycle, two of them
\* overlapped, the second committed between the check of the first by the
\* trigger and its commit.  No earlier check, by a handler or of a scalar
\* parent, and no failed or undone request makes one.
CyclesOverlap ==
    ~IsAcyclic(Edges(link)) =>
        \A F \in SUBSET Edges(link) : IsAcyclic(F) \/ \E e, f \in F : <<e, f>> \in missed

ParentsOf(c) == {p \in Projects : link[<<c, p>>] # NoLink}

\* A project with parents has exactly one primary parent
\* (ensureSinglePrimaryInheritanceTx and the index, between them).
OnePrimaryOf(c) ==
    ParentsOf(c) # {} => \E p \in ParentsOf(c) :
        \A q \in ParentsOf(c) : link[<<c, q>>].primary <=> q = p
OnePrimary == \A c \in Projects : OnePrimaryOf(c)

\* The scalar parent that older code reads is the primary parent, or nothing
\* if there is none (syncPrimaryParentColumnTx).
ScalarFollows(c) ==
    \/ ParentsOf(c) = {} /\ scalar[c] = None
    \/ scalar[c] \in ParentsOf(c) /\ link[<<c, scalar[c]>>].primary

\* The forms that write the scalar parent themselves.
WritesScalar(c) == \E r \in Requests : req[r].child = c /\ req[r].op \in {"ontology", "general"}

\* A link was, or may have been, removed under a request that works on it: the
\* transaction of that request can find no row to write, so it holds no lock.
Removes(q, p) ==
    \/ req[q].op = "ontology"
    \/ req[q].parent = p /\ (req[q].op = "delete" \/ req[q].tx = "undo")
Undercut(c) ==
    \E r \in Requests : \E q \in Requests \ {r} :
        /\ req[r].child = c /\ req[q].child = c
        /\ req[r].op \in {"create", "delete", "primary", "reorder"}
        /\ Removes(q, req[r].parent)

\* Links and scalar column tell of one and the same primary parent, whatever
\* requests run side by side, as long as no link is removed under a request
\* that works on it.
ParentsAgree ==
    \A c \in Projects : ~Undercut(c) =>
        OnePrimaryOf(c) /\ (~WritesScalar(c) => ScalarFollows(c))

\* A parent that stays linked stays the primary one: only SetPrimary and the
\* ontology form make another one primary.  A switch of source, a reorder, a
\* repin, a second parent or its removal keeps it.  A request that writes the
\* parent's own row does so from an earlier reading: if it has found the parent
\* not to be primary, a request of the same child can have made that stale.
MakesPrimary(r) == req[r].op \in {"primary", "ontology"} \/ req[r].tx = "addprimary"
MayBeStale(r, p) ==
    req[r].parent = p /\ req[r].op \in {"create", "source"} /\ ~req[r].primary /\ Siblings(r) # {}
PrimaryKept ==
    [][\A c, p \in Projects :
         LET before == link[<<c, p>>]
             after == link'[<<c, p>>]
         IN  before # NoLink /\ after # NoLink /\ before.primary /\ ~after.primary =>
               \E r \in Requests :
                 req'[r] # req[r] /\ req[r].child = c /\ (MakesPrimary(r) \/ MayBeStale(r, p))]_vars

\* A repin that leaves drafts alone never pins a child that follows the draft
\* (RepinOptions.IncludeDraft).
DraftLeftAlone ==
    [][\A e \in Pairs :
         link[e] # NoLink /\ link'[e] # NoLink /\ link[e].source = Draft /\ link'[e].source # Draft =>
           \A r \in Requests : req[r].op = "repin" /\ req'[r] # req[r] => req[r].primary]_vars

\* A request that has been taken up is answered.
Answered == \A r \in Requests : req[r].pc \notin Finished ~> req[r].pc \in Finished
=============================================================================
