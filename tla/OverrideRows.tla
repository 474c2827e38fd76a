---------------------------- MODULE OverrideRows ----------------------------
(***************************************************************************)
(* How a save of a pattern keeps the identity of its override rows.        *)
(* override.Service.SaveForEntity loads the existing rows, matches the     *)
(* draft against them, diffs the two for the changelog, and only then lets *)
(* ReplaceForEntity open its own transaction, read the rows again, match   *)
(* again and write.  Example values are anchored to row ids, so a needless *)
(* delete orphans them; the changelog must tell what the database did.     *)
(* The rows commit in a transaction of their own, the entries in a later   *)
(* one: if that one fails, the rows stand and the log never tells of them. *)
(*                                                                         *)
(* saveOverrides calls it under the entity lock (Locked = TRUE); the flat  *)
(* PUT .../overrides routes of the model and collection services call it   *)
(* without one.                                                            *)
(***************************************************************************)
EXTENDS Integers, FiniteSets, Sequences, Functions

CONSTANTS
    Writer,
    Field,
    Place,          \* category and collection of a row
    Position,       \* stands for all the content a save may change in place
    MaxRows,        \* bound: rows of a draft
    MaxSaves,       \* bound: saves in all
    Locked          \* do all writers hold the entity lock?

ASSUME OverrideRowsAssumption ==
    /\ Position \subseteq Nat
    /\ MaxRows \in Nat \ {0}
    /\ MaxSaves \in Nat \ {0}
    /\ Locked \in BOOLEAN

VARIABLES
    rows,           \* the table: row id to row, the rows of one entity
    lastId,         \* the id sequence
    saves,          \* saves begun
    pc,             \* where each writer is
    existing,       \* SaveForEntity's snapshot of the table
    desired,        \* the draft, ids stamped
    plan,           \* the plan of the running transaction
    entries,        \* the changelog entries a save has recorded and not flushed
    told,           \* the table as the flushed entries tell it, from the first on
    saved,          \* history: the draft written last, and the ids it was given
    wrote,          \* history: ids of the rows that a save's transaction changed
    lost            \* history: those of saves whose entries were not flushed,
                    \* until a save that changes the row again is logged

vars == <<rows, lastId, saves, pc, existing, desired, plan, entries, told,
          saved, wrote, lost>>

Row == [field : Field, place : Place, pos : Position]

Content(r) == [field |-> r.field, place |-> r.place, pos |-> r.pos]

overrideKey(r) == <<r.field, r.place>>

\* A draft row carries the id the client knows, 0 for a new row; ids that are
\* gone or not assigned yet are as unknown as the negative ids the editor mints.
Draft ==
    UNION {[1 .. n -> {[id |-> i, field |-> r.field, place |-> r.place, pos |-> r.pos] :
                          i \in 0 .. lastId + 1, r \in Row}] : n \in 0 .. MaxRows}

-----------------------------------------------------------------------------
(* reconcile.go                                                            *)

\* Fault: an id claims its row whatever the field.
ClaimsFault(ex, d, i) ==
    /\ d[i].id \in DOMAIN ex
    /\ \A j \in 1 .. (i - 1) : d[j].id # d[i].id

\* Row i of the draft claims the existing row whose id it carries: same field,
\* and no earlier row claimed it.
Claims(ex, d, i) ==
    /\ d[i].id \in DOMAIN ex
    /\ ex[d[i].id].field = d[i].field
    /\ \A j \in 1 .. (i - 1) : <<d[j].id, d[j].field>> # <<d[i].id, d[i].field>>

Free(ex, d, key) ==
    {e \in DOMAIN ex : /\ overrideKey(ex[e]) = key
                       /\ \A i \in DOMAIN d : Claims(ex, d, i) => d[i].id # e}

Waiting(ex, d, key) == {i \in DOMAIN d : overrideKey(d[i]) = key /\ ~Claims(ex, d, i)}

\* How many members of S come before x, by position and then by index or id.
Rank(x, S, row) ==
    Cardinality({y \in S : \/ row[y].pos < row[x].pos
                           \/ row[y].pos = row[x].pos /\ y < x})

\* Fault: rows without a usable id are always inserted.
matchOverridesFault(ex, d) ==
    LET update == [i \in DOMAIN d |-> IF Claims(ex, d, i) THEN d[i].id ELSE 0]
    IN [update |-> update, remove |-> DOMAIN ex \ Range(update)]

\* update: the existing row each draft row updates, 0 to insert; its own by id,
\* or the free row of the same key that has the same rank by position.
\* remove: the existing rows that no draft row updates.
matchOverrides(ex, d) ==
    LET mates(i) == LET key == overrideKey(d[i])
                    IN {e \in Free(ex, d, key) :
                           Rank(e, Free(ex, d, key), ex) = Rank(i, Waiting(ex, d, key), d)}
        update == [i \in DOMAIN d |->
                      IF Claims(ex, d, i) THEN d[i].id
                      ELSE IF mates(i) = {} THEN 0
                      ELSE CHOOSE e \in mates(i) : TRUE]
    IN [update |-> update, remove |-> DOMAIN ex \ Range(update)]

stampMatchedIDs(d, p) ==
    [i \in DOMAIN d |->
        IF p.update[i] = 0 THEN d[i] ELSE [d[i] EXCEPT !.id = p.update[i]]]

-----------------------------------------------------------------------------
(* diff.go                                                                 *)

\* The diff pairs draft row i with the existing row of its id.
Pairs(ex, d, i) ==
    /\ d[i].id # 0
    /\ d[i].id \in DOMAIN ex
    /\ ex[d[i].id].field = d[i].field
    /\ \A j \in 1 .. (i - 1) : <<d[j].id, d[j].field>> # <<d[i].id, d[i].field>>

\* Fault: a second row with the id of an earlier one is another update of it.
ComputeDiffFault(ex, d) ==
    LET paired == {i \in DOMAIN d : d[i].id \in DOMAIN ex /\ ex[d[i].id].field = d[i].field}
    IN [addedIdx |-> DOMAIN d \ paired,
        removed |-> DOMAIN ex \ {d[i].id : i \in paired},
        changedIdx |-> {i \in paired : ex[d[i].id] # Content(d[i])}]

ComputeDiff(ex, d) ==
    LET paired == {i \in DOMAIN d : Pairs(ex, d, i)}
    IN [addedIdx |-> DOMAIN d \ paired,
        removed |-> DOMAIN ex \ {d[i].id : i \in paired},
        changedIdx |-> {i \in paired : ex[d[i].id] # Content(d[i])}]

-----------------------------------------------------------------------------
NoPlan == [update |-> <<>>, remove |-> {}]

NoLog == [added |-> <<>>, removed |-> {}, changed |-> <<>>]

Init ==
    /\ rows = <<>>
    /\ lastId = 0
    /\ saves = 0
    /\ pc = [w \in Writer |-> "idle"]
    /\ existing = [w \in Writer |-> <<>>]
    /\ desired = [w \in Writer |-> <<>>]
    /\ plan = [w \in Writer |-> NoPlan]
    /\ entries = [w \in Writer |-> NoLog]
    /\ told = <<>>
    /\ saved = [draft |-> <<>>, ids |-> <<>>]
    /\ wrote = [w \in Writer |-> {}]
    /\ lost = {}

\* SaveForEntity: load the rows, match, stamp.  Under the entity lock no other
\* writer is in.
Load(w) ==
    /\ pc[w] = "idle"
    /\ saves < MaxSaves
    /\ Locked => \A v \in Writer : pc[v] = "idle"
    /\ \E d \in Draft :
          desired' = [desired EXCEPT ![w] = stampMatchedIDs(d, matchOverrides(rows, d))]
    /\ existing' = [existing EXCEPT ![w] = rows]
    /\ saves' = saves + 1
    /\ pc' = [pc EXCEPT ![w] = "loaded"]
    /\ UNCHANGED <<rows, lastId, plan, entries, told, saved, wrote, lost>>

\* ReplaceForEntity: the transaction reads the rows again and matches again.
TxRead(w) ==
    /\ pc[w] = "loaded"
    /\ plan' = [plan EXCEPT ![w] = matchOverrides(rows, desired[w])]
    /\ pc' = [pc EXCEPT ![w] = "tx"]
    /\ UNCHANGED <<rows, lastId, saves, existing, desired, entries, told, saved, wrote, lost>>

\* The id of each draft row after the write: inserts draw from the sequence.
StoredIds(p) ==
    [i \in DOMAIN p.update |->
        IF p.update[i] # 0 THEN p.update[i]
        ELSE lastId + Cardinality({j \in 1 .. i : p.update[j] = 0})]

\* Deletes, updates and inserts commit together; an update never changes the
\* field of a row.
Written(p, d) ==
    LET ids == StoredIds(p)
    IN [x \in (DOMAIN rows \ p.remove) \cup Range(ids) |->
           IF x \notin Range(ids) THEN rows[x]
           ELSE LET r == Content(d[CHOOSE i \in DOMAIN d : ids[i] = x])
                IN IF x \in DOMAIN rows THEN [r EXCEPT !.field = rows[x].field] ELSE r]

\* recordDiff: the diff against SaveForEntity's snapshot, its added rows under
\* the ids the write gave them.
Entries(ex, d, ids) ==
    LET diff == ComputeDiff(ex, d)
    IN [added |-> [x \in {ids[i] : i \in diff.addedIdx} |->
                      Content(d[CHOOSE i \in diff.addedIdx : ids[i] = x])],
        removed |-> diff.removed,
        changed |-> [x \in {d[i].id : i \in diff.changedIdx} |->
                        Content(d[CHOOSE i \in diff.changedIdx : d[i].id = x])]]

SameAt(t, u, x) ==
    /\ x \in DOMAIN t <=> x \in DOMAIN u
    /\ x \in DOMAIN t => t[x] = u[x]

Differing(t, u) == {x \in DOMAIN t \cup DOMAIN u : ~SameAt(t, u, x)}

\* ReplaceForEntity commits the rows; then recordDiff makes the entries, in
\* memory.  An update of a row that is gone fails the transaction.
TxCommit(w) ==
    /\ pc[w] = "tx"
    /\ Range(plan[w].update) \ {0} \subseteq DOMAIN rows
    /\ rows' = Written(plan[w], desired[w])
    /\ lastId' = lastId + Cardinality({i \in DOMAIN desired[w] : plan[w].update[i] = 0})
    /\ entries' = [entries EXCEPT ![w] = Entries(existing[w], desired[w], StoredIds(plan[w]))]
    /\ saved' = [draft |-> desired[w], ids |-> StoredIds(plan[w])]
    /\ wrote' = [wrote EXCEPT ![w] = Differing(rows, rows')]
    /\ pc' = [pc EXCEPT ![w] = "written"]
    /\ UNCHANGED <<saves, existing, desired, plan, told, lost>>

\* The transaction fails: nothing is written and nothing logged.
TxFails(w) ==
    /\ pc[w] = "tx"
    /\ pc' = [pc EXCEPT ![w] = "idle"]
    /\ UNCHANGED <<rows, lastId, saves, existing, desired, plan, entries, told, saved, wrote, lost>>

\* The table that entries l turn table t into.
Replay(t, l) ==
    [x \in (DOMAIN t \ l.removed) \cup DOMAIN l.added \cup DOMAIN l.changed |->
        IF x \in DOMAIN l.added THEN l.added[x]
        ELSE IF x \in DOMAIN l.changed THEN l.changed[x]
        ELSE t[x]]

\* WithChangeLog flushes the entries and commits its own transaction.
LogCommit(w) ==
    /\ pc[w] = "written"
    /\ told' = Replay(told, entries[w])
    /\ lost' = lost \ wrote[w]
    /\ entries' = [entries EXCEPT ![w] = NoLog]
    /\ wrote' = [wrote EXCEPT ![w] = {}]
    /\ pc' = [pc EXCEPT ![w] = "idle"]
    /\ UNCHANGED <<rows, lastId, saves, existing, desired, plan, saved>>

\* Recording, flushing or committing the entries fails, or the server stops: the
\* save answers an error, if it answers, and the rows stand.
LogFails(w) ==
    /\ pc[w] = "written"
    /\ lost' = lost \cup wrote[w]
    /\ entries' = [entries EXCEPT ![w] = NoLog]
    /\ wrote' = [wrote EXCEPT ![w] = {}]
    /\ pc' = [pc EXCEPT ![w] = "idle"]
    /\ UNCHANGED <<rows, lastId, saves, existing, desired, plan, told, saved>>

Next == \E w \in Writer :
    \/ Load(w)
    \/ TxRead(w) \/ TxCommit(w) \/ TxFails(w)
    \/ LogCommit(w) \/ LogFails(w)

Spec == Init /\ [][Next]_vars

-----------------------------------------------------------------------------
\* The changelog, replayed from its first entry on, tells the table: whenever no
\* save is between its write and its flush, the two differ at most at rows that
\* were written by a save whose flush failed and by no logged save since
\* (diff.go and reconcile.go classify the rows independently of each other, and
\* a save diffs against rows that the log may never have told of).
ChangelogReplays ==
    (\A w \in Writer : pc[w] # "written") => Differing(told, rows) \subseteq lost

\* SetRefs attaches the refs of each draft row to the id SaveForEntity returned
\* for it: that id must be the row that holds this draft row's content, also when
\* unlocked writers interleave.
RefsLandOnTheirRow ==
    \A i \in DOMAIN saved.ids :
        /\ saved.ids[i] \in DOMAIN rows
        /\ rows[saved.ids[i]] = Content(saved.draft[i])

\* No save deletes a row and inserts another one for the same field, category and
\* collection: the example values anchored to the placement would be orphaned.
NoNeedlessReplacement ==
    [][\A x \in DOMAIN rows \ DOMAIN rows', y \in DOMAIN rows' \ DOMAIN rows :
          overrideKey(rows[x]) # overrideKey(rows'[y])]_vars

\* No changelog entry says that a row was updated which the table does not hold
\* when it is recorded (diff.go: "never an Update naming a row that no longer exists").
NoGhostUpdate ==
    \A w \in Writer : pc[w] = "written" => DOMAIN entries[w].changed \subseteq DOMAIN rows
=============================================================================
