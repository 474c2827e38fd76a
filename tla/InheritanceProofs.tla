------------------------- MODULE InheritanceProofs -------------------------
(***************************************************************************)
(* For any number of projects and of requests: a cycle of parents holds two *)
(* links whose insertions overlapped; a child has one primary parent, which  *)
(* its scalar column names, unless a link is removed under a request that    *)
(* works on it; and a parent that stays linked stays primary, unless a       *)
(* request is there to change that.                                          *)
(***************************************************************************)
EXTENDS Inheritance, TLAPS

-----------------------------------------------------------------------------
(* Graphs.                                                                 *)

\* A part of an acyclic graph is acyclic.
LEMMA Subgraph ==
    ASSUME NEW E, NEW F, E \subseteq F, IsAcyclic(F)
    PROVE  IsAcyclic(E)
<1> SUFFICES ASSUME NEW p \in Projects
             PROVE  \E S \in SUBSET Projects :
                      ParentsIn(E, p) \subseteq S /\ p \notin S /\ Closed(E, S)
    BY DEF IsAcyclic
<1>1. PICK S \in SUBSET Projects : ParentsIn(F, p) \subseteq S /\ p \notin S /\ Closed(F, S)
    BY DEF IsAcyclic
<1>2. ParentsIn(E, p) \subseteq S
    BY <1>1 DEF ParentsIn
<1>3. Closed(E, S)
    BY <1>1 DEF Closed
<1> QED
    BY <1>1, <1>2, <1>3

\* What the trigger lets through closes no cycle: an edge from c to q can be
\* added if some closed set with q in it leaves c out.
LEMMA AddEdge ==
    ASSUME NEW E, NEW c \in Projects, NEW q \in Projects, IsAcyclic(E), NoLoop(E, c, q)
    PROVE  IsAcyclic(E \cup {<<c, q>>})
<1> DEFINE G == E \cup {<<c, q>>}
<1>1. PICK T \in SUBSET Projects : q \in T /\ c \notin T /\ Closed(E, T)
    BY DEF NoLoop
<1> SUFFICES ASSUME NEW p \in Projects
             PROVE  \E S \in SUBSET Projects :
                      ParentsIn(G, p) \subseteq S /\ p \notin S /\ Closed(G, S)
    BY DEF IsAcyclic
<1>2. PICK S \in SUBSET Projects : ParentsIn(E, p) \subseteq S /\ p \notin S /\ Closed(E, S)
    BY DEF IsAcyclic
<1>3. ASSUME p # c PROVE ParentsIn(G, p) = ParentsIn(E, p)
    BY <1>3 DEF ParentsIn
<1>4. CASE p = c
    <2>1. ParentsIn(G, p) \subseteq S \cup T
        BY <1>1, <1>2, <1>4 DEF ParentsIn
    <2>2. Closed(G, S \cup T)
        BY <1>1, <1>2, <1>4 DEF Closed
    <2> QED
        BY <1>1, <1>2, <1>4, <2>1, <2>2
<1>5. CASE p # c /\ c \notin S
    <2>1. Closed(G, S)
        BY <1>2, <1>5 DEF Closed
    <2> QED
        BY <1>2, <1>3, <1>5, <2>1
<1>6. CASE p # c /\ c \in S /\ p \in T
    <2>1. ParentsIn(G, p) \subseteq S \cap T
        BY <1>1, <1>2, <1>3, <1>6 DEF ParentsIn, Closed
    <2>2. Closed(G, S \cap T)
        BY <1>1, <1>2, <1>6 DEF Closed
    <2> QED
        BY <1>2, <2>1, <2>2
<1>7. CASE p # c /\ c \in S /\ p \notin T
    <2>1. Closed(G, S \cup T)
        BY <1>1, <1>2, <1>7 DEF Closed
    <2> QED
        BY <1>2, <1>3, <1>7, <2>1
<1> QED
    BY <1>4, <1>5, <1>6, <1>7

\* What closes no loop in a graph closes none in a part of it.
LEMMA NoLoopIn ==
    ASSUME NEW E, NEW F, E \subseteq F, NEW c, NEW q, NoLoop(F, c, q)
    PROVE  NoLoop(E, c, q)
BY DEF NoLoop, Closed

-----------------------------------------------------------------------------
(* Types.                                                                  *)

Writing == {"settle", "head", "commit"}

\* A request under way names two projects, and one that has not begun to
\* write, or no longer writes, has no uncommitted rows.
Ready(x) ==
    /\ x.pc # "idle" => x.child \in Projects /\ x.parent \in Projects
    /\ x.pc \notin Writing => x.own = NoRows

Typed == TypeOK /\ \A r \in Requests : Ready(req[r])

LEMMA NoRowsType == NoRows \in [Projects -> Row \cup {NoLink, Untouched}]
BY DEF NoRows

LEMMA IdleType == Idle \in Request /\ Ready(Idle)
BY NoRowsType DEF Idle, Request, Ready, Writing, Finished, Sources

\* One request moves on.
LEMMA MoveType ==
    ASSUME Typed, NEW r \in Requests, NEW STATE x, x \in Request, Ready(x), req' = [req EXCEPT ![r] = x]
    PROVE  req' \in [Requests -> Request] /\ \A q \in Requests : Ready(req[q])'
BY DEF Typed, TypeOK, Ready

\* A request ends.
LEMMA DoneType ==
    ASSUME Typed, NEW r \in Requests, NEW o \in {"ok", "refused", "error"}, Done(r, o),
           req[r].pc # "idle"
    PROVE  req' \in [Requests -> Request] /\ \A q \in Requests : Ready(req[q])'
<1> DEFINE x == [Idle EXCEPT !.op = req[r].op, !.pc = "done", !.child = req[r].child,
                             !.parent = req[r].parent, !.tx = req[r].tx, !.outcome = o]
<1>1. req' = [req EXCEPT ![r] = x]
    BY DEF Done
<1>2. req[r] \in Request /\ req[r].child \in Projects /\ req[r].parent \in Projects
    BY DEF Typed, TypeOK, Ready
<1>3. x \in Request
    BY <1>2, NoRowsType DEF Idle, Request, Finished, Sources
<1>4. x.own = NoRows /\ x.child = req[r].child /\ x.parent = req[r].parent /\ x.pc = "done"
    BY DEF Idle
<1>5. Ready(x)
    BY <1>2, <1>4 DEF Ready
<1> HIDE DEF x
<1> QED
    BY <1>1, <1>3, <1>5, MoveType

\* A transaction fails.
LEMMA AbortType ==
    ASSUME Typed, NEW r \in Requests, Abort(r), req[r].pc # "idle"
    PROVE  req' \in [Requests -> Request] /\ \A q \in Requests : Ready(req[q])'
<1>1. CASE req[r].tx = "sync"
    <2> DEFINE x == [req[r] EXCEPT !.pc = "next", !.own = NoRows]
    <2>1. req' = [req EXCEPT ![r] = x]
        BY <1>1 DEF Abort, Typed, TypeOK
    <2>2. req[r] \in Request /\ Ready(req[r])
        BY DEF Typed, TypeOK
    <2>3. x \in Request
        BY <2>2, NoRowsType DEF Request, Steps
    <2>4. x.own = NoRows /\ x.child = req[r].child /\ x.parent = req[r].parent /\ x.pc = "next"
        BY <2>2 DEF Request
    <2>5. Ready(x)
        BY <2>2, <2>4 DEF Ready
    <2> HIDE DEF x
    <2> QED
        BY <2>1, <2>3, <2>5, MoveType
<1>2. CASE req[r].tx # "sync"
    BY <1>2, DoneType DEF Abort
<1> QED
    BY <1>1, <1>2

\* A request goes on to another step before it has written anything.
LEMMA GotoType ==
    ASSUME Typed, NEW r \in Requests, NEW pc \in Steps \cup Statements \cup Finished, Goto(r, pc),
           pc \in Writing \/ req[r].pc \notin Writing, req[r].pc # "idle"
    PROVE  req' \in [Requests -> Request] /\ \A q \in Requests : Ready(req[q])'
<1> DEFINE x == [req[r] EXCEPT !.pc = pc]
<1>1. req' = [req EXCEPT ![r] = x]
    BY DEF Goto, Typed, TypeOK
<1>2. x \in Request /\ Ready(x)
    <2>1. req[r] \in Request /\ Ready(req[r])
        BY DEF Typed, TypeOK
    <2> QED
        BY <2>1 DEF Request, Ready
<1> HIDE DEF x
<1> QED
    BY <1>1, <1>2, MoveType

ReqTyped == req \in [Requests -> Request] /\ \A q \in Requests : Ready(req[q])

\* What Start does, in so many words.
LEMMA Started ==
    ASSUME NEW r \in Requests, Start(r)
    PROVE  \E op \in Ops, c, p \in Projects, primary \in BOOLEAN, s \in Sources :
             req' = [req EXCEPT ![r] = [Idle EXCEPT !.op = op, !.pc = FirstStep(op), !.tx = op, !.child = c,
                                                    !.parent = p, !.primary = primary, !.source = s]]
<1>1. PICK op \in Ops, c \in Projects, p \in Projects, primary \in BOOLEAN, s \in Sources :
        /\ c # p
        /\ op \in {"source", "delete", "primary", "reorder"} => link[<<c, p>>] # NoLink
        /\ primary => op = "create"
        /\ s # Draft => op \in {"create", "source", "repin"}
        /\ op = "repin" => s # Draft
        /\ req' = [req EXCEPT ![r] = [Idle EXCEPT !.op = op, !.pc = FirstStep(op), !.tx = op, !.child = c,
                                                  !.parent = p, !.primary = primary, !.source = s]]
    BY Zenon DEF Start
<1> QED
    BY Zenon, <1>1

LEMMA StartType ==
    ASSUME Typed, NEW r \in Requests, Start(r)
    PROVE  ReqTyped'
<1>1. PICK op \in Ops, c \in Projects, p \in Projects, primary \in BOOLEAN, s \in Sources :
        req' = [req EXCEPT ![r] = [Idle EXCEPT !.op = op, !.pc = FirstStep(op), !.tx = op, !.child = c,
                                               !.parent = p, !.primary = primary, !.source = s]]
    BY Zenon, Started
<1> DEFINE x == [Idle EXCEPT !.op = op, !.pc = FirstStep(op), !.tx = op, !.child = c,
                             !.parent = p, !.primary = primary, !.source = s]
<1>2. op \in AllOps
    BY InheritanceAssumption
<1>3. FirstStep(op) \in Steps \cup Statements
    BY <1>2 DEF FirstStep, AllOps, Steps, Statements
<1>4. x \in Request
    BY <1>2, <1>3, NoRowsType DEF Idle, Request
<1>5. x.own = NoRows /\ x.child = c /\ x.parent = p
    BY DEF Idle
<1>6. Ready(x)
    BY <1>5 DEF Ready
<1> HIDE DEF x
<1> QED
    BY <1>1, <1>4, <1>6, MoveType DEF x, ReqTyped

\* What a transaction sees are rows.
LEMMA SeenType ==
    ASSUME Typed, NEW r \in Requests, req[r].child \in Projects, NEW p \in Projects
    PROVE  /\ Seen(r, p) \in Row \cup {NoLink}
           /\ p \in Linked(r) => Seen(r, p) \in Row
<1>1. req[r].own[p] \in Row \cup {NoLink, Untouched}
    BY DEF Typed, TypeOK, Request
<1>2. link[<<req[r].child, p>>] \in Row \cup {NoLink}
    BY DEF Typed, TypeOK, Pairs
<1> QED
    BY <1>1, <1>2 DEF Seen, Linked

\* The rows after all links of a child were written.
LEMMA WrittenType ==
    ASSUME Typed, NEW r \in Requests, req[r].child \in Projects, NEW f
    PROVE  [p \in Projects |-> IF p \in Linked(r) THEN [Seen(r, p) EXCEPT !.primary = (p = f)]
                                ELSE req[r].own[p]] \in [Projects -> Row \cup {NoLink, Untouched}]
<1> SUFFICES ASSUME NEW p \in Projects
             PROVE  (IF p \in Linked(r) THEN [Seen(r, p) EXCEPT !.primary = (p = f)]
                     ELSE req[r].own[p]) \in Row \cup {NoLink, Untouched}
    OBVIOUS
<1>1. CASE p \in Linked(r)
    <2>1. Seen(r, p) \in Row
        BY <1>1, SeenType
    <2>2. [Seen(r, p) EXCEPT !.primary = (p = f)] \in Row
        BY <2>1 DEF Row
    <2> QED
        BY <1>1, <2>2
<1>2. CASE p \notin Linked(r)
    BY <1>2 DEF Typed, TypeOK, Request
<1> QED
    BY <1>1, <1>2

LEMMA CheckGraphType ==
    ASSUME Typed, NEW r \in Requests, CheckGraph(r)
    PROVE  ReqTyped'
<1>0. req[r] \in Request /\ Ready(req[r]) /\ req[r].pc # "idle"
    BY DEF CheckGraph, Typed, TypeOK
<1>1. req[r].child \in Projects /\ req[r].parent \in Projects
    BY <1>0 DEF Ready
<1>2. CASE \E o \in {"ok", "refused", "error"} : Done(r, o)
    BY <1>0, <1>2, DoneType DEF ReqTyped
<1>3. CASE ~Done(r, "refused")
    <2> DEFINE b == req[r].primary \/ Linked(r) = {}
    <2>a. req' = [req EXCEPT ![r] = [req[r] EXCEPT !.pc = "insert", !.tx = "add", !.primary = b]]
        BY <1>0, <1>3 DEF CheckGraph, Typed, TypeOK
    <2>b. b \in BOOLEAN
        OBVIOUS
    <2> HIDE DEF b
    <2> DEFINE x == [req[r] EXCEPT !.pc = "insert", !.tx = "add", !.primary = b]
    <2>1. req' = [req EXCEPT ![r] = x]
        BY <2>a
    <2>2. x \in Request
        BY <1>0, <2>b DEF Request, Statements
    <2>3. x.child = req[r].child /\ x.parent = req[r].parent /\ x.own = req[r].own /\ req[r].pc \notin Writing
        BY <1>0 DEF CheckGraph, Writing, Request
    <2>4. Ready(x)
        BY <1>0, <1>1, <2>3 DEF Ready, Writing
    <2> HIDE DEF x
    <2> QED
        BY <2>1, <2>2, <2>4, MoveType DEF ReqTyped
<1> QED
    BY <1>2, <1>3

LEMMA ReadLinkType ==
    ASSUME Typed, NEW r \in Requests, ReadLink(r)
    PROVE  ReqTyped'
<1>0. req[r] \in Request /\ Ready(req[r]) /\ req[r].pc # "idle"
    BY DEF ReadLink, Typed, TypeOK
<1>1. req[r].child \in Projects /\ req[r].parent \in Projects
    BY <1>0 DEF Ready
<1>2. CASE \E o \in {"ok", "refused", "error"} : Done(r, o)
    BY <1>0, <1>2, DoneType DEF ReqTyped
<1>3. CASE ~Done(r, "refused")
    <2> DEFINE row == link[<<req[r].child, req[r].parent>>]
    <2>a. req' = [req EXCEPT ![r] = [req[r] EXCEPT !.pc = "insert", !.primary = row.primary]]
        BY <1>0, <1>3 DEF ReadLink, Typed, TypeOK
    <2>b. row.primary \in BOOLEAN
        <3>1. row \in Row \cup {NoLink} /\ row # NoLink
            BY <1>1, <1>3 DEF ReadLink, Typed, TypeOK, Pairs
        <3> QED
            BY <3>1 DEF Row
    <2> HIDE DEF row
    <2> DEFINE x == [req[r] EXCEPT !.pc = "insert", !.primary = row.primary]
    <2>1. req' = [req EXCEPT ![r] = x]
        BY <2>a
    <2>2. x \in Request
        BY <1>0, <2>b DEF Request, Statements
    <2>3. x.child = req[r].child /\ x.parent = req[r].parent /\ x.own = req[r].own /\ req[r].pc \notin Writing
        BY <1>0 DEF ReadLink, Writing, Request
    <2>4. Ready(x)
        BY <1>0, <1>1, <2>3 DEF Ready, Writing
    <2> HIDE DEF x
    <2> QED
        BY <2>1, <2>2, <2>4, MoveType DEF ReqTyped
<1> QED
    BY <1>2, <1>3

LEMMA CheckReceiptsType ==
    ASSUME Typed, NEW r \in Requests, CheckReceipts(r)
    PROVE  ReqTyped'
<1>0. req[r] \in Request /\ Ready(req[r]) /\ req[r].pc # "idle"
    BY DEF CheckReceipts, Typed, TypeOK
<1>1. req[r].child \in Projects /\ req[r].parent \in Projects
    BY <1>0 DEF Ready
<1>2. CASE \E o \in {"ok", "refused", "error"} : Done(r, o)
    BY <1>0, <1>2, DoneType DEF ReqTyped
<1>3. CASE Goto(r, "delete")
    BY <1>0, <1>3, GotoType DEF ReqTyped, Steps, Statements, Writing, CheckReceipts
<1> QED
    BY <1>2, <1>3 DEF CheckReceipts

LEMMA InsertType ==
    ASSUME Typed, NEW r \in Requests, Insert(r)
    PROVE  ReqTyped'
<1>0. req[r] \in Request /\ Ready(req[r]) /\ req[r].pc # "idle"
    BY DEF Insert, Typed, TypeOK
<1>1. req[r].child \in Projects /\ req[r].parent \in Projects
    BY <1>0 DEF Ready
<1>2. CASE Abort(r)
    BY <1>0, <1>2, AbortType DEF ReqTyped
<1>3. CASE ~Abort(r)
    <2> DEFINE row == [primary |-> req[r].primary, source |-> req[r].source]
    <2>a. row \in Row
        BY <1>0 DEF Row, Request
    <2> DEFINE x == [req[r] EXCEPT !.pc = "settle", !.own[req[r].parent] = row]
    <2>1. req' = [req EXCEPT ![r] = x]
        BY <1>0, <1>3 DEF Insert, Typed, TypeOK
    <2>2. x \in Request
        BY <1>0, <1>1, <2>a DEF Request, Statements
    <2>3. x.child = req[r].child /\ x.parent = req[r].parent /\ x.pc = "settle"
        BY <1>0 DEF Request
    <2>4. Ready(x)
        BY <1>0, <1>1, <2>3 DEF Ready, Writing
    <2> HIDE DEF x
    <2> QED
        BY <2>1, <2>2, <2>4, MoveType DEF ReqTyped
<1> QED
    BY <1>2, <1>3

LEMMA DeleteType ==
    ASSUME Typed, NEW r \in Requests, Delete(r)
    PROVE  ReqTyped'
<1>0. req[r] \in Request /\ Ready(req[r]) /\ req[r].pc # "idle"
    BY DEF Delete, Typed, TypeOK
<1>1. req[r].child \in Projects /\ req[r].parent \in Projects
    BY <1>0 DEF Ready
<1> DEFINE row == IF Seen(r, req[r].parent) = NoLink THEN Untouched ELSE NoLink
<1> DEFINE x == [req[r] EXCEPT !.pc = "settle", !.own[req[r].parent] = row]
<1>2. req' = [req EXCEPT ![r] = x]
    BY <1>0 DEF Delete, Typed, TypeOK
<1>3. x \in Request
    BY <1>0, <1>1 DEF Request, Statements
<1>4. x.child = req[r].child /\ x.parent = req[r].parent /\ x.pc = "settle"
    BY <1>0 DEF Request
<1>5. Ready(x)
    BY <1>0, <1>1, <1>4 DEF Ready, Writing
<1> HIDE DEF x
<1> QED
    BY <1>2, <1>3, <1>5, MoveType DEF ReqTyped


LEMMA SettleType ==
    ASSUME Typed, NEW r \in Requests, Settle(r)
    PROVE  ReqTyped'
<1>0. req[r] \in Request /\ Ready(req[r]) /\ req[r].pc # "idle"
    BY DEF Settle, Typed, TypeOK
<1>1. req[r].child \in Projects /\ req[r].parent \in Projects
    BY <1>0 DEF Ready
<1>2. CASE Goto(r, "head")
    BY <1>0, <1>2, GotoType DEF ReqTyped, Steps, Statements, Writing, Settle
<1>3. ASSUME NEW f \in First(r),
             req' = [req EXCEPT ![r].pc = "head",
              ![r].own = [p \in Projects |-> IF p \in Linked(r)
                                             THEN [Seen(r, p) EXCEPT !.primary = (p = f)]
                                             ELSE req[r].own[p]]]
      PROVE  ReqTyped'
    <2> DEFINE own == [p \in Projects |-> IF p \in Linked(r) THEN [Seen(r, p) EXCEPT !.primary = (p = f)]
                                          ELSE req[r].own[p]]
    <2>a. own \in [Projects -> Row \cup {NoLink, Untouched}]
        BY <1>1, WrittenType
    <2>b. req' = [req EXCEPT ![r] = [req[r] EXCEPT !.pc = "head", !.own = own]]
        BY <1>0, <1>3 DEF Typed, TypeOK
    <2> HIDE DEF own
    <2> DEFINE x == [req[r] EXCEPT !.pc = "head", !.own = own]
    <2>1. req' = [req EXCEPT ![r] = x]
        BY <2>b
    <2>2. x \in Request
        BY <1>0, <2>a DEF Request, Statements
    <2>3. x.child = req[r].child /\ x.parent = req[r].parent /\ x.pc = "head"
        BY <1>0 DEF Request
    <2>4. Ready(x)
        BY <1>0, <1>1, <2>3 DEF Ready, Writing
    <2> HIDE DEF x
    <2> QED
        BY <2>1, <2>2, <2>4, MoveType DEF ReqTyped
<1> QED
    BY <1>2, <1>3 DEF Settle

LEMMA LookUpType ==
    ASSUME Typed, NEW r \in Requests, LookUp(r)
    PROVE  ReqTyped'
<1>0. req[r] \in Request /\ Ready(req[r]) /\ req[r].pc # "idle"
    BY DEF LookUp, Typed, TypeOK
<1>1. req[r].child \in Projects /\ req[r].parent \in Projects
    BY <1>0 DEF Ready
<1>2. CASE Abort(r)
    BY <1>0, <1>2, AbortType DEF ReqTyped
<1>3. CASE Goto(r, "clear")
    BY <1>0, <1>3, GotoType DEF ReqTyped, Steps, Statements, Writing, LookUp
<1> QED
    BY <1>2, <1>3 DEF LookUp

LEMMA ClearAndSetType ==
    ASSUME Typed, NEW r \in Requests, ClearAndSet(r)
    PROVE  ReqTyped'
<1>0. req[r] \in Request /\ Ready(req[r]) /\ req[r].pc # "idle"
    BY DEF ClearAndSet, Typed, TypeOK
<1>1. req[r].child \in Projects /\ req[r].parent \in Projects
    BY <1>0 DEF Ready
<1> DEFINE f == req[r].parent
<1> DEFINE own == [p \in Projects |-> IF p \in Linked(r) THEN [Seen(r, p) EXCEPT !.primary = (p = f)]
                                      ELSE req[r].own[p]]
<1>a. own \in [Projects -> Row \cup {NoLink, Untouched}]
    BY <1>1, WrittenType
<1>b. req' = [req EXCEPT ![r] = [req[r] EXCEPT !.pc = "head", !.own = own]]
    BY <1>0 DEF ClearAndSet, Typed, TypeOK
<1> HIDE DEF own
<1> DEFINE x == [req[r] EXCEPT !.pc = "head", !.own = own]
<1>2. x \in Request
    BY <1>0, <1>a DEF Request, Statements
<1>3. x.child = req[r].child /\ x.parent = req[r].parent /\ x.pc = "head"
    BY <1>0 DEF Request
<1>4. Ready(x)
    BY <1>1, <1>3 DEF Ready, Writing
<1> HIDE DEF x
<1> QED
    BY <1>b, <1>2, <1>4, MoveType DEF ReqTyped, x

LEMMA ReadHeadType ==
    ASSUME Typed, NEW r \in Requests, ReadHead(r)
    PROVE  ReqTyped'
<1>0. req[r] \in Request /\ Ready(req[r]) /\ req[r].pc # "idle"
    BY DEF ReadHead, Typed, TypeOK
<1>1. req[r].child \in Projects /\ req[r].parent \in Projects
    BY <1>0 DEF Ready
<1>2. ASSUME NEW h \in Projects \cup {None}, req' = [req EXCEPT ![r].pc = "commit", ![r].head = h]
      PROVE  ReqTyped'
    <2> DEFINE x == [req[r] EXCEPT !.pc = "commit", !.head = h]
    <2>1. req' = [req EXCEPT ![r] = x]
        BY <1>0, <1>2 DEF Typed, TypeOK
    <2>2. x \in Request
        BY <1>0 DEF Request, Statements
    <2>3. x.child = req[r].child /\ x.parent = req[r].parent /\ x.pc = "commit"
        BY <1>0 DEF Request
    <2>4. Ready(x)
        BY <1>0, <1>1, <2>3 DEF Ready, Writing
    <2> HIDE DEF x
    <2> QED
        BY <2>1, <2>2, <2>4, MoveType DEF ReqTyped
<1>3. First(r) \subseteq Projects
    BY DEF First, PrimaryOf, Linked
<1> QED
    BY <1>2, <1>3 DEF ReadHead

LEMMA CommitType ==
    ASSUME Typed, NEW r \in Requests, Commit(r)
    PROVE  ReqTyped'
<1>0. req[r] \in Request /\ Ready(req[r]) /\ req[r].pc # "idle"
    BY DEF Commit, Typed, TypeOK
<1>1. req[r].child \in Projects /\ req[r].parent \in Projects
    BY <1>0 DEF Ready
<1>2. CASE \E o \in {"ok", "refused", "error"} : Done(r, o)
    BY <1>0, <1>2, DoneType DEF ReqTyped
<1>3. NextStep(r) \in {"exists", "copy", "next", "children", "done"}
    BY DEF NextStep
<1> DEFINE tx == IF NextStep(r) = "exists" THEN "addprimary" ELSE req[r].tx
           head == IF NextStep(r) = "children" THEN req[r].head ELSE None
           pc == NextStep(r)
<1>4. CASE NextStep(r) # "done"
    <2>a. tx \in AllOps \cup {"add", "addprimary", "undo", "sync", None} /\ pc \in Steps \cup Statements
          /\ head \in Projects \cup {None}
        BY <1>0, <1>3, <1>4 DEF Request, Steps, Statements
    <2>b. req' = [req EXCEPT ![r] = [req[r] EXCEPT !.pc = pc, !.own = NoRows, !.head = head, !.tx = tx]]
        BY <1>0, <1>4 DEF Commit, Typed, TypeOK
    <2> HIDE DEF tx, pc, head
    <2> DEFINE x == [req[r] EXCEPT !.pc = pc, !.own = NoRows, !.head = head, !.tx = tx]
    <2>1. req' = [req EXCEPT ![r] = x]
        BY <2>b
    <2>2. x \in Request
        BY <1>0, <2>a, NoRowsType DEF Request
    <2>3. x.child = req[r].child /\ x.parent = req[r].parent /\ x.own = NoRows
        BY <1>0 DEF Request
    <2>4. Ready(x)
        BY <1>0, <1>1, <2>3 DEF Ready, Writing
    <2> HIDE DEF x
    <2> QED
        BY <2>1, <2>2, <2>4, MoveType DEF ReqTyped
<1> QED
    BY <1>2, <1>4 DEF Commit

LEMMA CopyFailsType ==
    ASSUME Typed, NEW r \in Requests, CopyFails(r)
    PROVE  ReqTyped'
<1>0. req[r] \in Request /\ Ready(req[r]) /\ req[r].pc # "idle"
    BY DEF CopyFails, Typed, TypeOK
<1>1. req[r].child \in Projects /\ req[r].parent \in Projects
    BY <1>0 DEF Ready
<1> DEFINE x == [req[r] EXCEPT !.pc = "delete", !.tx = "undo"]
<1>2. req' = [req EXCEPT ![r] = x]
    BY <1>0 DEF CopyFails, Typed, TypeOK
<1>3. x \in Request
    BY <1>0 DEF Request, Statements
<1>4. x.child = req[r].child /\ x.parent = req[r].parent /\ x.own = req[r].own /\ req[r].pc \notin Writing
    BY <1>0 DEF Request, CopyFails, Writing
<1>5. Ready(x)
    BY <1>0, <1>1, <1>4 DEF Ready
<1> HIDE DEF x
<1> QED
    BY <1>2, <1>3, <1>5, MoveType DEF ReqTyped

LEMMA CheckChainType ==
    ASSUME Typed, NEW r \in Requests, CheckChain(r)
    PROVE  ReqTyped'
<1>0. req[r] \in Request /\ Ready(req[r]) /\ req[r].pc # "idle"
    BY DEF CheckChain, Typed, TypeOK
<1>1. req[r].child \in Projects /\ req[r].parent \in Projects
    BY <1>0 DEF Ready
<1>3. CASE \E o \in {"ok", "refused", "error"} : Done(r, o)
    BY <1>0, <1>3, DoneType DEF ReqTyped
<1>2. ASSUME NEW h \in Projects \cup {None}, req' = [req EXCEPT ![r].pc = "update", ![r].head = h]
      PROVE  ReqTyped'
    <2> DEFINE x == [req[r] EXCEPT !.pc = "update", !.head = h]
    <2>1. req' = [req EXCEPT ![r] = x]
        BY <1>0, <1>2 DEF Typed, TypeOK
    <2>2. x \in Request
        BY <1>0 DEF Request, Statements
    <2>3. x.child = req[r].child /\ x.parent = req[r].parent /\ x.own = req[r].own /\ req[r].pc \notin Writing
        BY <1>0 DEF Request, Writing, CheckChain
    <2>4. Ready(x)
        BY <1>0, <1>1, <2>3 DEF Ready, Writing
    <2> HIDE DEF x
    <2> QED
        BY <2>1, <2>2, <2>4, MoveType DEF ReqTyped
<1> QED
    BY <1>1, <1>2, <1>3 DEF CheckChain

LEMMA LoadProjectType ==
    ASSUME Typed, NEW r \in Requests, LoadProject(r)
    PROVE  ReqTyped'
<1>0. req[r] \in Request /\ Ready(req[r]) /\ req[r].pc # "idle"
    BY DEF LoadProject, Typed, TypeOK
<1>1. req[r].child \in Projects /\ req[r].parent \in Projects
    BY <1>0 DEF Ready
<1>2. ASSUME NEW h \in Projects \cup {None}, req' = [req EXCEPT ![r].pc = "update", ![r].head = h]
      PROVE  ReqTyped'
    <2> DEFINE x == [req[r] EXCEPT !.pc = "update", !.head = h]
    <2>1. req' = [req EXCEPT ![r] = x]
        BY <1>0, <1>2 DEF Typed, TypeOK
    <2>2. x \in Request
        BY <1>0 DEF Request, Statements
    <2>3. x.child = req[r].child /\ x.parent = req[r].parent /\ x.own = req[r].own /\ req[r].pc \notin Writing
        BY <1>0 DEF Request, Writing, LoadProject
    <2>4. Ready(x)
        BY <1>0, <1>1, <2>3 DEF Ready, Writing
    <2> HIDE DEF x
    <2> QED
        BY <2>1, <2>2, <2>4, MoveType DEF ReqTyped
<1> QED
    BY <1>1, <1>2 DEF LoadProject, Typed, TypeOK

LEMMA UpdateProjectType ==
    ASSUME Typed, NEW r \in Requests, UpdateProject(r)
    PROVE  ReqTyped'
<1>0. req[r] \in Request /\ Ready(req[r]) /\ req[r].pc # "idle"
    BY DEF UpdateProject, Typed, TypeOK
<1>1. req[r].child \in Projects /\ req[r].parent \in Projects
    BY <1>0 DEF Ready
<1>2. CASE \E o \in {"ok", "refused", "error"} : Done(r, o)
    BY <1>0, <1>2, DoneType DEF ReqTyped
<1>3. CASE Goto(r, "children")
    BY <1>0, <1>3, GotoType DEF ReqTyped, Steps, Statements, Writing, UpdateProject
<1>4. ASSUME NEW p, p = req[r].head, Seeds(r),
             req' = [req EXCEPT ![r].pc = "commit", ![r].own[p] = [primary |-> TRUE, source |-> Draft]]
      PROVE  ReqTyped'
    <2> DEFINE row == [primary |-> TRUE, source |-> Draft]
    <2>a. row \in Row /\ p \in Projects
        BY <1>0, <1>4 DEF Row, Sources, Seeds, Request
    <2>b. req' = [req EXCEPT ![r] = [req[r] EXCEPT !.pc = "commit", !.own[p] = row]]
        BY <1>0, <1>4 DEF Typed, TypeOK
    <2> HIDE DEF row
    <2> DEFINE x == [req[r] EXCEPT !.pc = "commit", !.own[p] = row]
    <2>1. req' = [req EXCEPT ![r] = x]
        BY <2>b
    <2>2. x \in Request
        BY <1>0, <2>a DEF Request, Statements
    <2>3. x.child = req[r].child /\ x.parent = req[r].parent /\ x.pc = "commit"
        BY <1>0 DEF Request
    <2>4. Ready(x)
        BY <1>1, <2>3 DEF Ready, Writing
    <2> HIDE DEF x
    <2> QED
        BY <2>1, <2>2, <2>4, MoveType DEF ReqTyped
<1> QED
    BY <1>2, <1>3, <1>4 DEF UpdateProject

LEMMA ListChildrenType ==
    ASSUME Typed, NEW r \in Requests, ListChildren(r)
    PROVE  ReqTyped'
<1>0. req[r] \in Request /\ Ready(req[r]) /\ req[r].pc # "idle"
    BY DEF ListChildren, Typed, TypeOK
<1>1. req[r].child \in Projects /\ req[r].parent \in Projects
    BY <1>0 DEF Ready
<1> DEFINE Others == Linked(r) \ PrimaryOf(r)
<1>2. PICK cs \in SUBSET Projects, wanted \in SUBSET Projects :
        req' = [req EXCEPT ![r].pc = "next", ![r].tx = "sync",
                  ![r].todo = ({"delete"} \X ((Others \cap cs) \ wanted)) \cup ({"insert"} \X (wanted \ Others))]
    BY DEF ListChildren
<1>3. Others \subseteq Projects
    BY DEF Linked
<1> DEFINE todo == ({"delete"} \X ((Others \cap cs) \ wanted)) \cup ({"insert"} \X (wanted \ Others))
<1>4. todo \in SUBSET ({"insert", "delete", "move"} \X Projects)
    BY <1>3
<1>5. req' = [req EXCEPT ![r] = [req[r] EXCEPT !.pc = "next", !.tx = "sync", !.todo = todo]]
    BY <1>0, <1>2 DEF Typed, TypeOK
<1> HIDE DEF todo
<1> DEFINE x == [req[r] EXCEPT !.pc = "next", !.tx = "sync", !.todo = todo]
<1>6. x \in Request
    BY <1>0, <1>4 DEF Request, Steps
<1>7. x.child = req[r].child /\ x.parent = req[r].parent /\ x.own = req[r].own /\ req[r].pc \notin Writing
    BY <1>0 DEF Request, ListChildren, Writing
<1>8. Ready(x)
    BY <1>0, <1>1, <1>7 DEF Ready
<1> HIDE DEF x
<1> QED
    BY <1>5, <1>6, <1>8, MoveType DEF ReqTyped, x

LEMMA NextChildType ==
    ASSUME Typed, NEW r \in Requests, NextChild(r)
    PROVE  ReqTyped'
<1>0. req[r] \in Request /\ Ready(req[r]) /\ req[r].pc # "idle"
    BY DEF NextChild, Typed, TypeOK
<1>1. req[r].child \in Projects /\ req[r].parent \in Projects
    BY <1>0 DEF Ready
<1>2. CASE \E o \in {"ok", "refused", "error"} : Done(r, o)
    BY <1>0, <1>2, DoneType DEF ReqTyped
<1>3. ASSUME NEW t \in req[r].todo,
             req' = [req EXCEPT ![r].pc = t[1], ![r].parent = t[2], ![r].todo = @ \ {t}]
      PROVE  ReqTyped'
    <2>a. t[1] \in {"insert", "delete", "move"} /\ t[2] \in Projects
        BY <1>0 DEF Request
    <2> DEFINE x == [req[r] EXCEPT !.pc = t[1], !.parent = t[2], !.todo = @ \ {t}]
    <2>1. req' = [req EXCEPT ![r] = x]
        BY <1>0, <1>3 DEF Typed, TypeOK
    <2>2. x \in Request
        BY <1>0, <2>a DEF Request, Statements
    <2>3. x.child = req[r].child /\ x.parent \in Projects /\ x.own = req[r].own /\ req[r].pc \notin Writing
        BY <1>0, <2>a DEF Request, Writing, NextChild
    <2>4. Ready(x)
        BY <1>0, <1>1, <2>3 DEF Ready, Writing
    <2> HIDE DEF x
    <2> QED
        BY <2>1, <2>2, <2>4, MoveType DEF ReqTyped
<1> QED
    BY <1>2, <1>3 DEF NextChild

LEMMA ClassifyType ==
    ASSUME Typed, NEW r \in Requests, Classify(r)
    PROVE  ReqTyped'
<1>0. req[r] \in Request /\ Ready(req[r]) /\ req[r].pc # "idle"
    BY DEF Classify, Typed, TypeOK
<1>1. req[r].child \in Projects /\ req[r].parent \in Projects
    BY <1>0 DEF Ready
<1>2. PICK ms \in SUBSET Projects, d \in BOOLEAN :
        req' = [req EXCEPT ![r].pc = "move", ![r].primary = d, ![r].todo = {"move"} \X ms]
    BY DEF Classify
<1> DEFINE todo == {"move"} \X ms
           includeDraft == d
<1>b. includeDraft \in BOOLEAN
    BY <1>2
<1>a. todo \in SUBSET ({"insert", "delete", "move"} \X Projects)
    OBVIOUS
<1> DEFINE x == [req[r] EXCEPT !.pc = "move", !.primary = includeDraft, !.todo = todo]
<1>3. req' = [req EXCEPT ![r] = x]
    BY <1>0, <1>2 DEF Typed, TypeOK
<1> HIDE DEF todo, includeDraft
<1>4. x \in Request
    <2> DEFINE y == [req[r] EXCEPT !.pc = "move", !.primary = includeDraft]
    <2>1. y \in Request
        BY <1>0, <1>b DEF Request, Statements
    <2>2. x = [y EXCEPT !.todo = todo]
        OBVIOUS
    <2> HIDE DEF y
    <2>3. [y EXCEPT !.todo = todo] \in Request
        BY <2>1, <1>a DEF Request
    <2> QED
        BY <2>2, <2>3
<1>5. x.child = req[r].child /\ x.parent = req[r].parent /\ x.own = req[r].own /\ req[r].pc \notin Writing
    BY <1>0 DEF Request, Classify, Writing
<1>6. Ready(x)
    BY <1>0, <1>1, <1>5 DEF Ready
<1> HIDE DEF x
<1> QED
    BY <1>3, <1>4, <1>6, MoveType DEF ReqTyped

LEMMA VictimWaits ==
    ASSUME NEW r \in Requests, NEW q \in Requests, WaitsFor(r, q)
    PROVE  req[r].pc \in {"insert", "delete", "settle", "clear"}
BY DEF WaitsFor, Needs, WantsPrimary

\* The links and the scalar parents keep their types.
LEMMA CommitLinks ==
    ASSUME Typed, NEW r \in Requests, Commit(r)
    PROVE  /\ link' \in [Pairs -> Row \cup {NoLink}]
           /\ scalar' \in [Projects -> Projects \cup {None}]
<1>1. req[r] \in Request /\ req[r].child \in Projects
    BY DEF Commit, Typed, TypeOK, Ready
<1>2. \A e \in Pairs : Seen(r, e[2]) \in Row \cup {NoLink}
    BY <1>1, SeenType DEF Pairs
<1>3. link' \in [Pairs -> Row \cup {NoLink}]
    BY <1>2 DEF Commit, Typed, TypeOK
<1>4. scalar' \in [Projects -> Projects \cup {None}]
    BY <1>1 DEF Commit, Typed, TypeOK, Request
<1> QED
    BY <1>3, <1>4

LEMMA UpdateProjectLinks ==
    ASSUME Typed, NEW r \in Requests, UpdateProject(r)
    PROVE  /\ link' \in [Pairs -> Row \cup {NoLink}]
           /\ scalar' \in [Projects -> Projects \cup {None}]
<1>1. req[r] \in Request /\ req[r].child \in Projects
    BY DEF UpdateProject, Typed, TypeOK, Ready
<1> QED
    BY <1>1 DEF UpdateProject, Typed, TypeOK, Request

\* What is in missed are pairs of links.
LEMMA MissedType ==
    ASSUME Typed, NEW r \in Requests, Start(r) \/ Step(r) \/ CopyFails(r) \/ StatementFails(r)
    PROVE  missed' \subseteq Pairs \X Pairs
<1>1. \A e : Checked(e) => missed' \subseteq missed
    BY DEF Checked
<1>2. CASE Insert(r) \/ UpdateProject(r)
    BY <1>1, <1>2 DEF Insert, UpdateProject, Typed, TypeOK
<1>3. CASE Commit(r)
    <2>1. \A q \in Requests : Adds(q) \subseteq Pairs
        BY DEF Adds, Inserted
    <2>2. AddedBeside(r) \subseteq Pairs
        BY <2>1 DEF AddedBeside
    <2> QED
        BY <1>3, <2>1, <2>2 DEF Commit, Typed, TypeOK
<1>4. CASE missed' = missed
    BY <1>4 DEF Typed, TypeOK
<1> QED
    BY <1>2, <1>3, <1>4
    DEF Start, Step, Transaction, Handler, Delete, Settle, LookUp, ClearAndSet, ReadHead,
        DeadlockVictim, CheckGraph, ReadLink, CheckReceipts, CopyCategories, CheckChain, LoadProject,
        ListChildren, NextChild, Classify, ApplyRepins, CopyFails, StatementFails

LEMMA ApplyRepinsLinks ==
    ASSUME Typed, NEW r \in Requests, ApplyRepins(r)
    PROVE  /\ link' \in [Pairs -> Row \cup {NoLink}]
           /\ \A e \in Pairs : link'[e] = NoLink <=> link[e] = NoLink
<1>1. req[r].source \in Sources
    BY DEF Typed, TypeOK, Request
<1>2. NoLink \notin Row
    BY InheritanceAssumption DEF Row, Sources
<1>3. \A e \in Pairs : link[e] # NoLink => [link[e] EXCEPT !.source = req[r].source] \in Row
    BY <1>1 DEF Typed, TypeOK, Row
<1> QED
    BY <1>2, <1>3 DEF ApplyRepins, Typed, TypeOK

\* Types are kept by every step.
LEMMA TypedStep ==
    ASSUME Typed, [Next]_vars
    PROVE  Typed'
<1>1. CASE UNCHANGED vars
    BY <1>1 DEF vars, Typed, TypeOK
<1>2. ASSUME NEW r \in Requests, Start(r) \/ Step(r) \/ CopyFails(r) \/ StatementFails(r)
      PROVE  Typed'
    <2>1. faults' \in 0..MaxFaults
        <3>1. CASE CopyFails(r) \/ StatementFails(r)
            BY <3>1, InheritanceAssumption DEF CopyFails, StatementFails, Typed, TypeOK
        <3>2. CASE faults' = faults
            BY <3>2 DEF Typed, TypeOK
        <3> QED
            BY <1>2, <3>1, <3>2
            DEF Start, Step, Transaction, Handler, Insert, Delete, Settle, LookUp, ClearAndSet,
                ReadHead, Commit, DeadlockVictim, CheckGraph, ReadLink, CheckReceipts,
                CopyCategories, CheckChain, LoadProject, UpdateProject, ListChildren,
                NextChild, Classify, ApplyRepins
    <2>2. /\ link' \in [Pairs -> Row \cup {NoLink}]
          /\ scalar' \in [Projects -> Projects \cup {None}]
        <3>1. CASE Commit(r) \/ UpdateProject(r)
            BY <3>1, CommitLinks, UpdateProjectLinks
        <3>2. CASE ApplyRepins(r)
            BY <3>2, ApplyRepinsLinks DEF ApplyRepins, Typed, TypeOK
        <3>3. CASE UNCHANGED <<link, scalar>>
            BY <3>3 DEF Typed, TypeOK
        <3> QED
            BY <1>2, <3>1, <3>2, <3>3
            DEF Start, Step, Transaction, Handler, CopyFails, StatementFails,
                Insert, Delete, Settle, LookUp, ClearAndSet, ReadHead, DeadlockVictim,
                CheckGraph, ReadLink, CheckReceipts, CopyCategories, CheckChain, LoadProject,
                ListChildren, NextChild, Classify
    <2>3. ReqTyped'
        <3>1. CASE CopyCategories(r) \/ ApplyRepins(r)
            BY <3>1, DoneType DEF CopyCategories, ApplyRepins, ReqTyped
        <3>2. CASE StatementFails(r) \/ DeadlockVictim(r)
            <4>1. Abort(r) /\ req[r].pc # "idle"
                BY <3>2, VictimWaits DEF StatementFails, DeadlockVictim, Statements
            <4> QED
                BY <4>1, AbortType DEF ReqTyped
        <3> QED
            BY <1>2, <3>1, <3>2, StartType, InsertType, DeleteType, SettleType, LookUpType,
               ClearAndSetType, ReadHeadType, CommitType, CheckGraphType, ReadLinkType,
               CheckReceiptsType, CheckChainType, LoadProjectType, UpdateProjectType,
               ListChildrenType, NextChildType, ClassifyType, CopyFailsType
            DEF Step, Transaction, Handler
    <2> QED
        BY <1>2, <2>1, <2>2, <2>3, MissedType DEF Typed, TypeOK, ReqTyped
<1> QED
    BY <1>1, <1>2 DEF Next

LEMMA TypedInit ==
    ASSUME Init
    PROVE  Typed
<1>1. PICK start \in InitialLinks :
        /\ link = [e \in Pairs |->
                      IF \E t \in start : t[1] = e[1] /\ t[2] = e[2]
                      THEN LET t == CHOOSE t \in start : t[1] = e[1] /\ t[2] = e[2]
                           IN  [primary |-> t[3], source |-> t[4]]
                      ELSE NoLink]
        /\ scalar = [c \in Projects |->
                        IF \E t \in start : t[1] = c /\ t[3]
                        THEN (CHOOSE t \in start : t[1] = c /\ t[3])[2] ELSE None]
    BY DEF Init
<1>2. start \subseteq Projects \X Projects \X BOOLEAN \X Sources
    BY InheritanceAssumption DEF Sources
<1>3. link \in [Pairs -> Row \cup {NoLink}]
    <2> DEFINE Row4(e) == CHOOSE t \in start : t[1] = e[1] /\ t[2] = e[2]
    <2>1. ASSUME NEW e \in Pairs, \E t \in start : t[1] = e[1] /\ t[2] = e[2]
          PROVE  [primary |-> Row4(e)[3], source |-> Row4(e)[4]] \in Row
        <3>1. Row4(e) \in start
            BY <2>1
        <3> HIDE DEF Row4
        <3> QED
            BY <1>2, <3>1 DEF Row
    <2> QED
        BY <1>1, <2>1
<1>4. scalar \in [Projects -> Projects \cup {None}]
    <2> DEFINE Primary(c) == CHOOSE t \in start : t[1] = c /\ t[3]
    <2>1. ASSUME NEW c \in Projects, \E t \in start : t[1] = c /\ t[3]
          PROVE  Primary(c)[2] \in Projects
        <3>1. Primary(c) \in start
            BY <2>1
        <3> HIDE DEF Primary
        <3> QED
            BY <1>2, <3>1
    <2> QED
        BY <1>1, <2>1
<1>5. req = [r \in Requests |-> Idle] /\ faults = 0 /\ missed = {}
    BY DEF Init
<1>6. faults \in 0..MaxFaults
    BY <1>5, InheritanceAssumption
<1> QED
    BY <1>3, <1>4, <1>5, <1>6, IdleType DEF Typed, TypeOK

\* Every variable keeps its type; requests that are under way name their
\* projects, and only a transaction that writes has uncommitted rows.
THEOREM TypeCorrect == Spec => []TypeOK
<1>1. Init => Typed
    BY TypedInit
<1>2. Typed /\ [Next]_vars => Typed'
    BY TypedStep
<1>3. Typed => TypeOK
    BY DEF Typed
<1> QED
    BY <1>1, <1>2, <1>3, PTL DEF Spec

-----------------------------------------------------------------------------
(* Cycles.  What a transaction is about to add closes no loop in the        *)
(* committed links, those apart that its check has missed.  No request has   *)
(* a row that another request of the same child is writing: a commit of one  *)
(* request takes no link away that another has counted on.                   *)

Exclusive ==
    \A r, q \in Requests : \A p \in Projects :
        r # q /\ req[r].child = req[q].child => ~(LockedBy(r, p) /\ LockedBy(q, p))
OneAdded == \A r \in Requests : \A e, f \in Adds(r) : e = f
MissedBy(e) == {f \in Pairs : <<e, f>> \in missed}
Checks == \A r \in Requests : \A e \in Adds(r) : NoLoop(Edges(link) \ MissedBy(e), e[1], e[2])
InOrder(F) == \A e, f \in F : <<e, f>> \notin missed
OrderedAcyclic == \A F \in SUBSET Edges(link) : InOrder(F) => IsAcyclic(F)
Graph == Exclusive /\ OneAdded /\ Checks /\ OrderedAcyclic

\* Without uncommitted rows there are no uncommitted links.
LEMMA NothingInserted ==
    ASSUME NEW r \in Requests, req[r].own = NoRows
    PROVE  Inserted(r) = {}
BY DEF Inserted, NoRows, Pairs

\* The request r writes rows that nobody else has, and inserts no new link.
LEMMA GraphStep ==
    ASSUME Graph, NEW r \in Requests,
           \A q \in Requests \ {r} : req'[q] = req[q],
           \A p \in Projects : req'[r].own[p] # Untouched =>
               /\ req'[r].child = req[r].child
               /\ LockedBy(r, p) \/ Free(r, {p}),
           Edges(link)' = Edges(link), missed' = missed,
           Inserted(r)' \subseteq Edges(link) \cup Inserted(r)
    PROVE  Graph'
<1>1. \A q \in Requests \ {r} : Inserted(q)' = Inserted(q)
    BY DEF Inserted
<1>2. Exclusive'
    BY DEF Graph, Exclusive, LockedBy, Free, Siblings
<1>3. \A q \in Requests : Adds(q)' \subseteq Adds(q)
    BY <1>1 DEF Adds
<1>4. OneAdded'
    BY <1>3 DEF Graph, OneAdded
<1>5. Checks'
    <2>1. \A e : MissedBy(e)' = MissedBy(e)
        BY DEF MissedBy
    <2>2. ASSUME NEW q \in Requests, NEW e \in Adds(q)'
          PROVE  NoLoop(Edges(link) \ MissedBy(e), e[1], e[2])
        BY <1>3, <2>2 DEF Graph, Checks
    <2>3. \A q \in Requests : \A e \in Adds(q)' : NoLoop((Edges(link) \ MissedBy(e))', e[1], e[2])
        BY <2>1, <2>2
    <2> QED
        BY <2>3 DEF Checks, NoLoop
<1>6. OrderedAcyclic'
    BY DEF Graph, OrderedAcyclic, InOrder, IsAcyclic
<1> QED
    BY <1>2, <1>4, <1>5, <1>6 DEF Graph

\* A request that ends or is rolled back.
LEMMA GraphEnd ==
    ASSUME Graph, Typed, NEW r \in Requests,
           \A q \in Requests \ {r} : req'[q] = req[q],
           req'[r].own = NoRows, Edges(link)' = Edges(link), missed' = missed
    PROVE  Graph'
<1>1. Inserted(r)' = {}
    BY NothingInserted DEF Inserted, NoRows, Pairs
<1>2. \A p \in Projects : req'[r].own[p] = Untouched
    BY DEF NoRows
<1> QED
    BY <1>1, <1>2, GraphStep

\* A request that goes on without writing.
LEMMA GraphSame ==
    ASSUME Graph, NEW r \in Requests,
           \A q \in Requests \ {r} : req'[q] = req[q],
           req'[r].own = req[r].own, req'[r].child = req[r].child, Edges(link)' = Edges(link),
           missed' = missed
    PROVE  Graph'
<1>1. Inserted(r)' = Inserted(r)
    BY DEF Inserted
<1>2. \A p \in Projects : req'[r].own[p] # Untouched => LockedBy(r, p)
    BY DEF LockedBy
<1> QED
    BY <1>1, <1>2, GraphStep

LEMMA DoneGraph ==
    ASSUME Graph, Typed, NEW r \in Requests, NEW o, Done(r, o), Edges(link)' = Edges(link),
           missed' = missed
    PROVE  Graph'
<1>1. req'[r].own = NoRows /\ \A q \in Requests \ {r} : req'[q] = req[q]
    BY DEF Done, Idle, Typed, TypeOK
<1> QED
    BY <1>1, GraphEnd

LEMMA AbortGraph ==
    ASSUME Graph, Typed, NEW r \in Requests, Abort(r), UNCHANGED <<link, missed>>
    PROVE  Graph'
<1>1. Edges(link)' = Edges(link)
    BY DEF Edges
<1>2. CASE req[r].tx = "sync"
    <2>1. req'[r].own = NoRows /\ \A q \in Requests \ {r} : req'[q] = req[q]
        BY <1>2 DEF Abort, Typed, TypeOK, Request
    <2> QED
        BY <1>1, <2>1, GraphEnd
<1>3. CASE req[r].tx # "sync"
    BY <1>1, <1>3, DoneGraph DEF Abort
<1> QED
    BY <1>2, <1>3

\* The statements that write all links of a child insert none.
LEMMA WriteAllGraph ==
    ASSUME Graph, Typed, NEW r \in Requests, NEW f, UNCHANGED <<link, missed>>, Free(r, Linked(r)),
           req' = [req EXCEPT ![r].pc = "head",
             ![r].own = [p \in Projects |-> IF p \in Linked(r)
                                            THEN [Seen(r, p) EXCEPT !.primary = (p = f)]
                                            ELSE req[r].own[p]]]
    PROVE  Graph'
<1>1. /\ \A q \in Requests \ {r} : req'[q] = req[q]
      /\ req'[r].child = req[r].child
      /\ \A p \in Projects : p \notin Linked(r) => req'[r].own[p] = req[r].own[p]
    BY DEF Typed, TypeOK, Request
<1>2. Edges(link)' = Edges(link)
    BY DEF Edges
<1>3. \A p \in Projects : req'[r].own[p] # Untouched => LockedBy(r, p) \/ Free(r, {p})
    BY <1>1 DEF LockedBy, Free
<1>4. \A e \in Pairs : e[1] = req[r].child /\ e[2] \in Linked(r) => e \in Edges(link) \cup Inserted(r)
    BY DEF Linked, Seen, Edges, Inserted, Pairs
<1>5. Inserted(r)' \subseteq Edges(link) \cup Inserted(r)
    BY <1>1, <1>4 DEF Inserted, Pairs
<1> QED
    BY <1>1, <1>2, <1>3, <1>5, GraphStep

LEMMA DeleteGraph ==
    ASSUME Graph, Typed, NEW r \in Requests, Delete(r)
    PROVE  Graph'
<1>1. /\ \A q \in Requests \ {r} : req'[q] = req[q]
      /\ req'[r].child = req[r].child
      /\ \A p \in Projects : p # req[r].parent => req'[r].own[p] = req[r].own[p]
      /\ req'[r].own[req[r].parent] \in {Untouched, NoLink} \/ req[r].parent \notin Projects
    BY DEF Delete, Typed, TypeOK, Request
<1>2. Edges(link)' = Edges(link)
    BY DEF Edges, Delete
<1>2a. missed' = missed
    BY DEF Delete
<1>3. \A p \in Projects : req'[r].own[p] # Untouched => LockedBy(r, p) \/ Free(r, {p})
    BY <1>1 DEF LockedBy, Delete
<1>4. Inserted(r)' \subseteq Inserted(r)
    BY <1>1 DEF Inserted, Pairs
<1> QED
    BY <1>1, <1>2, <1>2a, <1>3, <1>4, GraphStep

\* A new link: the trigger has seen the committed graph, and has missed
\* nothing yet.
LEMMA NewLinkGraph ==
    ASSUME Graph, Typed, NEW r \in Requests, NEW c \in Projects, NEW p \in Projects, NEW row,
           req[r].child = c, req[r].own = NoRows, Free(r, {p}), NoLoop(Edges(link), c, p),
           \A q \in Requests \ {r} : req'[q] = req[q],
           req'[r].child = c, req'[r].own = [NoRows EXCEPT ![p] = row],
           link' = link, Checked(<<c, p>>)
    PROVE  Graph'
<1> DEFINE e == <<c, p>>
<1>1. Edges(link)' = Edges(link) /\ e \in Pairs
    BY DEF Edges, Pairs
<1>2. Inserted(r)' \subseteq {e}
    BY DEF Inserted, NoRows, Pairs
<1>3. \A q \in Requests \ {r} : Inserted(q)' = Inserted(q) /\ Adds(q)' = Adds(q)
    BY <1>1 DEF Inserted, Adds
<1>4. Exclusive'
    <2>1. \A x \in Projects : req'[r].own[x] # Untouched => x = p
        BY DEF NoRows
    <2>2. \A q \in Requests \ {r} : req[q].child = c => req[q].own[p] = Untouched
        BY DEF LockedBy, Free, Siblings
    <2>3. \A q \in Requests \ {r} : req'[q].child = req'[r].child => req'[q].own[p] = Untouched
        BY <2>2
    <2>4. \A a, b \in Requests \ {r} : \A x \in Projects :
            a # b /\ req'[a].child = req'[b].child =>
              ~(req'[a].own[x] # Untouched /\ req'[b].own[x] # Untouched)
        BY DEF Graph, Exclusive, LockedBy
    <2> SUFFICES ASSUME NEW a \in Requests, NEW b \in Requests, NEW x \in Projects,
                        a # b, req'[a].child = req'[b].child
                 PROVE  ~(req'[a].own[x] # Untouched /\ req'[b].own[x] # Untouched)
        BY DEF Exclusive, LockedBy
    <2>5. CASE a = r
        BY <2>1, <2>3, <2>5
    <2>6. CASE b = r
        BY <2>1, <2>3, <2>6
    <2>7. CASE a # r /\ b # r
        BY <2>4, <2>7
    <2> QED
        BY <2>5, <2>6, <2>7
<1>5. OneAdded'
    <2>1. \A x, y \in Adds(r)' : x = y
        BY <1>2 DEF Adds
    <2>2. \A q \in Requests \ {r} : \A x, y \in Adds(q)' : x = y
        BY <1>3 DEF Graph, OneAdded
    <2> QED
        BY <2>1, <2>2 DEF OneAdded
<1>6. \A F \in SUBSET Edges(link) : InOrder(F)' => InOrder(F)
    BY DEF InOrder, Checked
<1>7. OrderedAcyclic'
    <2>1. \A F \in SUBSET Edges(link) : InOrder(F)' => IsAcyclic(F)
        BY <1>6 DEF Graph, OrderedAcyclic
    <2> QED
        BY <1>1, <2>1 DEF OrderedAcyclic, IsAcyclic, InOrder
<1>8. \A g : Edges(link) \ MissedBy(g)' \subseteq Edges(link) \ MissedBy(g) \/ g = e
    BY DEF MissedBy, Checked
<1>9. e \notin Edges(link) => MissedBy(e)' = {}
    BY DEF MissedBy, Checked
<1>10. \A g \in Adds(r)' : NoLoop((Edges(link) \ MissedBy(g))', g[1], g[2])
    <2> SUFFICES ASSUME NEW g \in Adds(r)'
                 PROVE  NoLoop((Edges(link) \ MissedBy(g))', g[1], g[2])
        OBVIOUS
    <2>1. g = e /\ e \notin Edges(link)
        BY <1>1, <1>2 DEF Adds
    <2>2. (Edges(link) \ MissedBy(g))' \subseteq Edges(link) /\ g[1] = c /\ g[2] = p
        BY <1>1, <2>1
    <2> QED
        BY <2>2, NoLoopIn
<1>11. ASSUME NEW q \in Requests \ {r}, NEW g \in Adds(q)
       PROVE  g # e
    <2>1. g \in Pairs /\ g[1] = req[q].child /\ LockedBy(q, g[2])
        BY <1>11 DEF Adds, Inserted, LockedBy
    <2>2. req[q].child = c => ~LockedBy(q, p)
        BY DEF Free, Siblings
    <2> QED
        BY <2>1, <2>2
<1>12. \A q \in Requests \ {r} : \A g \in Adds(q)' : NoLoop((Edges(link) \ MissedBy(g))', g[1], g[2])
    <2> SUFFICES ASSUME NEW q \in Requests \ {r}, NEW g \in Adds(q)'
                 PROVE  NoLoop((Edges(link) \ MissedBy(g))', g[1], g[2])
        OBVIOUS
    <2>1. g \in Adds(q) /\ g # e
        BY <1>3, <1>11
    <2>2. (Edges(link) \ MissedBy(g))' \subseteq Edges(link) \ MissedBy(g)
        BY <1>1, <1>8, <2>1
    <2>3. NoLoop(Edges(link) \ MissedBy(g), g[1], g[2])
        BY <2>1 DEF Graph, Checks
    <2> QED
        BY <2>2, <2>3, NoLoopIn
<1>13. Checks'
    BY <1>10, <1>12 DEF Checks, NoLoop
<1> QED
    BY <1>4, <1>5, <1>7, <1>13 DEF Graph

LEMMA InsertGraph ==
    ASSUME Graph, Typed, NEW r \in Requests, Insert(r)
    PROVE  Graph'
<1> DEFINE c == req[r].child
           p == req[r].parent
<1>1. CASE Abort(r) /\ UNCHANGED missed
    BY <1>1, AbortGraph DEF Insert
<1>2. CASE ~(Abort(r) /\ UNCHANGED missed)
    <2>1. /\ c \in Projects /\ p \in Projects /\ req[r].own = NoRows
          /\ Free(r, {p}) /\ NoLoop(Edges(link), c, p)
          /\ link' = link /\ Checked(<<c, p>>)
        BY <1>2 DEF Insert, Typed, Ready, Writing
    <2> DEFINE row == [primary |-> req[r].primary, source |-> req[r].source]
    <2>2. req' = [req EXCEPT ![r].pc = "settle", ![r].own[p] = row]
        BY <1>2 DEF Insert
    <2>3. req[r] \in Request /\ req \in [Requests -> Request]
        BY DEF Typed, TypeOK
    <2> HIDE DEF row
    <2>4. /\ \A q \in Requests \ {r} : req'[q] = req[q]
          /\ req'[r].child = c
          /\ req'[r].own = [NoRows EXCEPT ![p] = row]
        BY <2>1, <2>2, <2>3 DEF Request
    <2> HIDE DEF c, p
    <2> QED
        BY <2>1, <2>4, NewLinkGraph DEF c
<1> QED
    BY <1>1, <1>2

\* A commit makes of the committed links what the request has seen: a part of
\* the committed and its own, and the checks of the others have missed these.
LEMMA CommitGraph ==
    ASSUME Graph, Typed, NEW r \in Requests, Commit(r)
    PROVE  Graph'
<1> DEFINE c == req[r].child
<1>1. /\ c \in Projects
      /\ \A q \in Requests \ {r} : req'[q] = req[q]
      /\ req'[r].own = NoRows
    <2>1. c \in Projects
        BY DEF Commit, Typed, TypeOK, Ready
    <2>2. CASE NextStep(r) = "done"
        BY <2>1, <2>2 DEF Commit, Done, Idle, Typed, TypeOK
    <2>3. CASE NextStep(r) # "done"
        <3>1. req[r] \in Request /\ req \in [Requests -> Request]
            BY DEF Typed, TypeOK
        <3> HIDE DEF c
        <3> QED
            BY <2>1, <2>3, <3>1 DEF Commit, Request
    <2> QED
        BY <2>2, <2>3
<1>2. link' = [e \in Pairs |-> IF e[1] = c THEN Seen(r, e[2]) ELSE link[e]]
    BY DEF Commit
<1>2a. missed' = missed \cup (AddedBeside(r) \X Adds(r))
    BY DEF Commit
<1>3. Edges(link)' \subseteq Edges(link) \cup Adds(r)
    BY <1>1, <1>2 DEF Edges, Inserted, Seen, Pairs, Adds
<1>4. \A q \in Requests \ {r} : Inserted(q)' = Inserted(q)
    BY <1>1 DEF Inserted
<1>5. Inserted(r)' = {}
    BY <1>1, NothingInserted DEF Inserted, NoRows, Pairs
<1>6. ASSUME NEW q \in Requests \ {r}, NEW e \in Inserted(q)
      PROVE  e \in Edges(link)' <=> e \in Edges(link)
    <2>1. e \in Pairs /\ e[1] = req[q].child /\ LockedBy(q, e[2])
        BY <1>6 DEF Inserted, LockedBy
    <2>2. CASE e[1] # c
        BY <1>2, <2>1, <2>2 DEF Edges
    <2>3. CASE e[1] = c
        <3>1. req[r].own[e[2]] = Untouched
            BY <2>1, <2>3 DEF Graph, Exclusive, LockedBy, Pairs
        <3>2. link'[e] = link[e]
            BY <1>2, <2>1, <2>3, <3>1 DEF Seen, Pairs
        <3> QED
            BY <2>1, <3>2 DEF Edges
    <2> QED
        BY <2>2, <2>3
<1>7. Exclusive'
    BY <1>1 DEF Graph, Exclusive, LockedBy, NoRows
<1>8. Adds(r)' = {} /\ \A q \in Requests \ {r} : Adds(q)' \subseteq Adds(q)
    BY <1>4, <1>5, <1>6 DEF Adds
<1>9. OneAdded'
    BY <1>8 DEF Graph, OneAdded
<1>10. Checks'
    <2> SUFFICES ASSUME NEW q \in Requests, NEW e \in Adds(q)'
                 PROVE  NoLoop((Edges(link) \ MissedBy(e))', e[1], e[2])
        BY DEF Checks, NoLoop
    <2>1. q # r /\ e \in Adds(q)
        BY <1>8
    <2>2. e \in AddedBeside(r)
        BY <2>1 DEF AddedBeside
    <2>3. MissedBy(e) \subseteq MissedBy(e)'
        BY <1>2a DEF MissedBy
    <2>4. Adds(r) \subseteq MissedBy(e)'
        BY <1>2a, <2>2 DEF MissedBy, Adds, Inserted
    <2>5. (Edges(link) \ MissedBy(e))' \subseteq Edges(link) \ MissedBy(e)
        BY <1>3, <2>3, <2>4
    <2>6. NoLoop(Edges(link) \ MissedBy(e), e[1], e[2])
        BY <2>1 DEF Graph, Checks
    <2> QED
        BY <2>5, <2>6, NoLoopIn
<1>11. OrderedAcyclic'
    <2> SUFFICES ASSUME NEW F \in SUBSET Edges(link)', InOrder(F)'
                 PROVE  IsAcyclic(F)
        BY DEF OrderedAcyclic, IsAcyclic, InOrder
    <2>1. InOrder(F)
        BY <1>2a DEF InOrder
    <2>2. CASE F \subseteq Edges(link)
        BY <2>1, <2>2 DEF Graph, OrderedAcyclic
    <2>3. CASE ~(F \subseteq Edges(link))
        <3>1. PICK e \in F : e \in Adds(r)
            BY <1>3, <2>3
        <3>2. F \ {e} \subseteq Edges(link)
            BY <1>3, <3>1 DEF Graph, OneAdded
        <3>3. IsAcyclic(F \ {e})
            BY <2>1, <3>2 DEF Graph, OrderedAcyclic, InOrder
        <3>4. F \ {e} \subseteq Edges(link) \ MissedBy(e)
            BY <2>1, <3>1, <3>2 DEF InOrder, MissedBy
        <3>5. NoLoop(F \ {e}, e[1], e[2])
            BY <3>1, <3>4, NoLoopIn DEF Graph, Checks
        <3>6. PICK x \in Projects, y \in Projects : e = <<x, y>>
            BY <3>1 DEF Adds, Inserted, Pairs
        <3>7. IsAcyclic((F \ {e}) \cup {<<x, y>>})
            BY <3>3, <3>5, <3>6, AddEdge
        <3>8. F = (F \ {e}) \cup {<<x, y>>}
            BY <3>1, <3>6
        <3> QED
            BY <3>7, <3>8
    <2> QED
        BY <2>2, <2>3
<1> QED
    BY <1>7, <1>9, <1>10, <1>11 DEF Graph

\* The project row's own link, when it is the first of the project.
LEMMA UpdateProjectGraph ==
    ASSUME Graph, Typed, NEW r \in Requests, UpdateProject(r)
    PROVE  Graph'
<1>0. /\ req[r].child \in Projects /\ req[r].own = NoRows
      /\ req[r] \in Request /\ req \in [Requests -> Request]
      /\ link' = link
    BY DEF UpdateProject, Typed, TypeOK, Ready, Writing
<1>1. Edges(link)' = Edges(link)
    BY <1>0 DEF Edges
<1>2. CASE (\E o : Done(r, o)) /\ UNCHANGED missed
    BY <1>1, <1>2, DoneGraph
<1>3. CASE Goto(r, "children") /\ UNCHANGED missed
    <2>1. /\ req'[r].own = req[r].own /\ req'[r].child = req[r].child
          /\ \A q \in Requests \ {r} : req'[q] = req[q]
        BY <1>0, <1>3 DEF Goto, Request
    <2> QED
        BY <1>1, <1>3, <2>1, GraphSame
<1>4. ASSUME NEW p, p = req[r].head, Seeds(r), Free(r, {p}), NoLoop(Edges(link), req[r].child, p),
             req' = [req EXCEPT ![r].pc = "commit", ![r].own[p] = [primary |-> TRUE, source |-> Draft]],
             Checked(<<req[r].child, p>>)
      PROVE  Graph'
    <2>1. p \in Projects
        BY <1>0, <1>4 DEF Seeds, Request
    <2> DEFINE row == [primary |-> TRUE, source |-> Draft]
    <2>2. req' = [req EXCEPT ![r].pc = "commit", ![r].own[p] = row]
        BY <1>4
    <2> HIDE DEF row
    <2>3. /\ \A q \in Requests \ {r} : req'[q] = req[q]
          /\ req'[r].child = req[r].child
          /\ req'[r].own = [NoRows EXCEPT ![p] = row]
        BY <1>0, <2>2 DEF Request
    <2>4. PICK c \in Projects : req[r].child = c
        BY <1>0
    <2>5. Free(r, {p}) /\ NoLoop(Edges(link), c, p) /\ Checked(<<c, p>>) /\ req'[r].child = c
        BY <1>4, <2>3, <2>4
    <2> QED
        BY <1>0, <2>1, <2>3, <2>4, <2>5, NewLinkGraph
<1>5. CASE Seeds(r) /\ NoLoop(Edges(link), req[r].child, req[r].head)
    <2>1. /\ Free(r, {req[r].head})
          /\ req' = [req EXCEPT ![r].pc = "commit",
                                ![r].own[req[r].head] = [primary |-> TRUE, source |-> Draft]]
          /\ Checked(<<req[r].child, req[r].head>>)
        BY <1>5 DEF UpdateProject
    <2> QED
        BY <1>4, <1>5, <2>1
<1> QED
    BY <1>2, <1>3, <1>5 DEF UpdateProject

\* The steps between the statements.
LEMMA HandlerGraph ==
    ASSUME Graph, Typed, NEW r \in Requests, UNCHANGED <<link, missed>>,
           \/ Start(r) \/ CheckGraph(r) \/ ReadLink(r) \/ CheckReceipts(r) \/ CheckChain(r)
           \/ LoadProject(r) \/ ListChildren(r) \/ NextChild(r) \/ Classify(r)
           \/ LookUp(r) \/ ReadHead(r) \/ CopyCategories(r) \/ CopyFails(r)
    PROVE  Graph'
<1>1. Edges(link)' = Edges(link)
    BY DEF Edges
<1>2. req[r] \in Request /\ req \in [Requests -> Request]
    BY DEF Typed, TypeOK
<1>3. CASE Start(r)
    <2>1. req'[r].own = NoRows /\ \A q \in Requests \ {r} : req'[q] = req[q]
        <3>1. PICK x : req' = [req EXCEPT ![r] = x] /\ x.own = NoRows
            <4>1. PICK op \in Ops, c \in Projects, p \in Projects, primary \in BOOLEAN, s \in Sources :
                    req' = [req EXCEPT ![r] = [Idle EXCEPT !.op = op, !.pc = FirstStep(op), !.tx = op, !.child = c,
                                                           !.parent = p, !.primary = primary, !.source = s]]
                BY Zenon, <1>3, Started
            <4>2. [Idle EXCEPT !.op = op, !.pc = FirstStep(op), !.tx = op, !.child = c,
                               !.parent = p, !.primary = primary, !.source = s].own = NoRows
                BY DEF Idle
            <4> QED
                BY <4>1, <4>2
        <3> QED
            BY <1>2, <3>1
    <2> QED
        BY <1>1, <2>1, GraphEnd
<1>4. CASE LookUp(r)
    <2>1. CASE Abort(r)
        BY <1>4, <2>1, AbortGraph
    <2>2. CASE Goto(r, "clear")
        <3>1. /\ req'[r].own = req[r].own /\ req'[r].child = req[r].child
              /\ \A q \in Requests \ {r} : req'[q] = req[q]
            BY <1>2, <2>2 DEF Goto, Request
        <3> QED
            BY <1>1, <3>1, GraphSame
    <2> QED
        BY <1>4, <2>1, <2>2 DEF LookUp
<1>5. CASE \E o : Done(r, o)
    BY <1>1, <1>5, DoneGraph
<1>6. CASE /\ req'[r].own = req[r].own /\ req'[r].child = req[r].child
           /\ \A q \in Requests \ {r} : req'[q] = req[q]
    BY <1>1, <1>6, GraphSame
<1>7. ASSUME CheckGraph(r) \/ ReadLink(r) \/ CheckReceipts(r) \/ CheckChain(r) \/ LoadProject(r)
      PROVE  Graph'
    BY <1>2, <1>5, <1>6, <1>7
    DEF CheckGraph, ReadLink, CheckReceipts, CheckChain, LoadProject, Goto, Request
<1>8. ASSUME ListChildren(r) \/ NextChild(r) \/ Classify(r)
      PROVE  Graph'
    <2>1. CASE ListChildren(r)
        <3>1. PICK todo : req' = [req EXCEPT ![r].pc = "next", ![r].tx = "sync", ![r].todo = todo]
            BY Zenon, <2>1 DEF ListChildren
        <3> QED
            BY <1>2, <1>6, <3>1 DEF Request
    <2>2. CASE NextChild(r)
        <3>1. ASSUME NEW t, req' = [req EXCEPT ![r].pc = t[1], ![r].parent = t[2], ![r].todo = @ \ {t}]
              PROVE  Graph'
            BY <1>2, <1>6, <3>1 DEF Request
        <3> QED
            BY <1>5, <2>2, <3>1 DEF NextChild
    <2>3. CASE Classify(r)
        <3>1. PICK d, todo : req' = [req EXCEPT ![r].pc = "move", ![r].primary = d, ![r].todo = todo]
            BY Zenon, <2>3 DEF Classify
        <3> QED
            BY <1>2, <1>6, <3>1 DEF Request
    <2> QED
        BY <1>8, <2>1, <2>2, <2>3
<1>9. ASSUME ReadHead(r) \/ CopyCategories(r) \/ CopyFails(r)
      PROVE  Graph'
    BY <1>2, <1>5, <1>6, <1>9 DEF ReadHead, CopyCategories, CopyFails, Request
<1> QED
    BY <1>3, <1>4, <1>7, <1>8, <1>9

LEMMA GraphNext ==
    ASSUME Graph, Typed, [Next]_vars
    PROVE  Graph'
<1>1. CASE UNCHANGED vars
    <2>1. UNCHANGED <<link, req, missed>>
        BY <1>1 DEF vars
    <2>2. Exclusive' /\ OneAdded'
        BY <2>1 DEF Graph, Exclusive, OneAdded, LockedBy, Adds, Inserted, Edges
    <2>3. /\ Edges(link)' = Edges(link)
          /\ \A r \in Requests : Adds(r)' = Adds(r)
          /\ \A e : MissedBy(e)' = MissedBy(e)
        BY <2>1 DEF Adds, Inserted, Edges, MissedBy
    <2>4. Checks'
        BY <2>3 DEF Graph, Checks, NoLoop
    <2>5. OrderedAcyclic'
        BY <2>1, <2>3 DEF Graph, OrderedAcyclic, InOrder, IsAcyclic
    <2> QED
        BY <2>2, <2>4, <2>5 DEF Graph
<1>2. ASSUME NEW r \in Requests, Start(r) \/ Step(r) \/ CopyFails(r) \/ StatementFails(r)
      PROVE  Graph'
    <2>1. CASE Insert(r) \/ Delete(r) \/ Commit(r) \/ UpdateProject(r)
        BY <2>1, InsertGraph, DeleteGraph, CommitGraph, UpdateProjectGraph
    <2>2. CASE Settle(r)
        <3>1. CASE Goto(r, "head")
            <4>1. Edges(link)' = Edges(link)
                BY <2>2 DEF Edges, Settle
            <4>2. /\ req'[r].own = req[r].own /\ req'[r].child = req[r].child
                  /\ \A q \in Requests \ {r} : req'[q] = req[q]
                BY <3>1 DEF Goto, Typed, TypeOK, Request
            <4>3. missed' = missed
                BY <2>2 DEF Settle
            <4> QED
                BY <4>1, <4>2, <4>3, GraphSame
        <3>2. CASE ~Goto(r, "head")
            BY <2>2, <3>2, WriteAllGraph DEF Settle
        <3> QED
            BY <3>1, <3>2
    <2>3. CASE ClearAndSet(r)
        BY <2>3, WriteAllGraph DEF ClearAndSet
    <2>4. CASE ApplyRepins(r)
        <3>1. Edges(link)' = Edges(link)
            BY <2>4, ApplyRepinsLinks DEF Edges
        <3> QED
            BY <2>4, <3>1, DoneGraph DEF ApplyRepins
    <2>5. CASE StatementFails(r) \/ DeadlockVictim(r)
        BY <2>5, AbortGraph DEF StatementFails, DeadlockVictim
    <2>6. CASE \/ Start(r) \/ CheckGraph(r) \/ ReadLink(r) \/ CheckReceipts(r) \/ CheckChain(r)
               \/ LoadProject(r) \/ ListChildren(r) \/ NextChild(r) \/ Classify(r)
               \/ LookUp(r) \/ ReadHead(r) \/ CopyCategories(r) \/ CopyFails(r)
        <3>1. UNCHANGED <<link, missed>>
            BY <2>6 DEF Start, CheckGraph, ReadLink, CheckReceipts, CheckChain, LoadProject,
                        ListChildren, NextChild, Classify, LookUp, ReadHead, CopyCategories, CopyFails
        <3> QED
            BY <2>6, <3>1, HandlerGraph
    <2> QED
        BY <1>2, <2>1, <2>2, <2>3, <2>4, <2>5, <2>6 DEF Step, Transaction, Handler
<1> QED
    BY <1>1, <1>2 DEF Next

LEMMA GraphInit ==
    ASSUME Init
    PROVE  Graph
<1>1. PICK start \in InitialLinks :
        link = [e \in Pairs |->
                  IF \E t \in start : t[1] = e[1] /\ t[2] = e[2]
                  THEN LET t == CHOOSE t \in start : t[1] = e[1] /\ t[2] = e[2]
                       IN  [primary |-> t[3], source |-> t[4]]
                  ELSE NoLink]
    BY DEF Init
<1>2. Edges(link) \subseteq LinksOf(start)
    BY <1>1 DEF Edges, LinksOf
<1>3. IsAcyclic(Edges(link))
    BY <1>2, Subgraph, InitialAcyclic
<1>4. \A r \in Requests : req[r].own = NoRows
    BY DEF Init, Idle
<1>5. \A r \in Requests : Adds(r) = {}
    BY <1>4, NothingInserted DEF Adds
<1>6. OrderedAcyclic
    BY <1>3, Subgraph DEF OrderedAcyclic
<1>7. Exclusive /\ OneAdded /\ Checks
    BY <1>4, <1>5 DEF OneAdded, Checks, Exclusive, LockedBy, NoRows
<1> QED
    BY <1>6, <1>7 DEF Graph

\* If the graph of parents has a cycle, two of its links were inserted in
\* transactions that overlapped: the trigger of migration 004 had let one pass,
\* and the other was committed before that one was.
THEOREM CycleOfOverlaps == Spec => []CyclesOverlap
<1>1. Init => Typed /\ Graph
    BY TypedInit, GraphInit
<1>2. Typed /\ Graph /\ [Next]_vars => Typed' /\ Graph'
    BY TypedStep, GraphNext
<1>3. Typed /\ Graph => CyclesOverlap
    BY DEF Graph, OrderedAcyclic, InOrder, CyclesOverlap
<1> QED
    BY <1>1, <1>2, <1>3, PTL DEF Spec

-----------------------------------------------------------------------------
(* Rows and locks.  A request is described by its record and by the rows it *)
(* has written; what it relies on is either there, or somebody has removed  *)
(* the link it works on.                                                    *)

IsRow(row) == row \notin {NoLink, Untouched}

\* The rows of a child that a request has written or sees.
Own(r, p) == req[r].own[p]
Base(r, p) == link[<<req[r].child, p>>]
Blind(r) == req[r].own = NoRows
Wrote(r) == req[r].pc \in {"head", "commit"} /\ ~Blind(r)

\* Operation, transaction and place of a request go together.
Shape(x) ==
    /\ x.pc = "idle" => x.child = None
    /\ x.pc # "idle" => x.op \in AllOps
    /\ x.op = "create" => x.tx \in {"create", "add", "addprimary", "undo"}
    /\ x.op = "ontology" => x.tx \in {"ontology", "sync"}
    /\ x.op \notin {"create", "ontology"} => x.tx = x.op
    /\ x.pc = "graph" => x.op = "create"
    /\ x.pc = "read" => x.op = "source"
    /\ x.pc = "receipts" => x.op = "delete"
    /\ x.pc = "insert" => x.tx \in {"add", "source", "sync"}
    /\ x.pc = "delete" => x.tx \in {"delete", "undo", "sync"}
    /\ x.pc = "settle" => x.tx \in {"add", "source", "sync", "delete", "undo", "reorder"}
    /\ x.pc \in {"exists", "clear"} => x.tx \in {"primary", "addprimary"}
    /\ x.pc = "copy" => x.tx \in {"add", "addprimary"}
    /\ x.pc \in {"chain", "children", "next"} => x.op = "ontology"
    /\ x.pc \in {"chain", "load", "update", "children"} => x.tx = x.op
    /\ x.pc = "next" => x.tx = "sync"
    /\ x.pc \in {"load", "update"} => x.op \in {"ontology", "general"}
    /\ x.pc = "head" =>
         x.tx \in {"add", "source", "sync", "delete", "undo", "reorder", "primary", "addprimary"}
    /\ x.pc = "commit" =>
         \/ x.tx \in {"add", "source", "sync", "delete", "undo", "reorder", "primary", "addprimary"}
         \/ x.tx \in {"ontology", "general"} /\ x.head \in Projects /\ IsRow(x.own[x.head])
    /\ x.pc \in Writing /\ x.tx \in {"add", "source"} => IsRow(x.own[x.parent])
    /\ x.pc = "settle" => \A p \in Projects : p # x.parent => x.own[p] = Untouched

\* The link that a request of its child works on was removed.
Shaken(r) == \E c \in Projects : c = req[r].child /\ Undercut(c)

\* Only a removal deletes rows, and only rows that are there.
Deletes(r) ==
    \A p \in Projects : Own(r, p) = NoLink => Base(r, p) # NoLink /\ Removes(r, p)

\* These go by a link that was there when they began, or that they have added.
Relies(r) ==
    /\ req[r].pc \notin Finished
    /\ \/ req[r].op \in {"delete", "primary", "reorder"}
       \/ req[r].tx \in {"addprimary", "undo"}
       \/ req[r].pc = "copy"
Grounded(r) ==
    Relies(r) /\ Base(r, req[r].parent) = NoLink => Shaken(r)

\* A transaction that has found nothing to write.
EmptyHanded(r) ==
    /\ Blind(r) /\ req[r].op # "ontology"
    /\ \/ req[r].pc \in {"head", "commit"}
       \/ req[r].pc = "settle" /\ req[r].tx \in {"delete", "undo"}
Excused(r) == EmptyHanded(r) => Shaken(r)

\* A transaction that has settled the rows of a child has them all, with one
\* primary row; it holds the lock of a committed row, or its row is primary.
Settled(r) ==
    Wrote(r) =>
      /\ \A p \in Linked(r) : LockedBy(r, p)
      /\ \A p, q \in Projects :
           IsRow(Own(r, p)) /\ IsRow(Own(r, q)) /\ Own(r, p).primary /\ Own(r, q).primary => p = q
      /\ Linked(r) = {} \/ Shaken(r) \/ \E p \in Linked(r) : Own(r, p).primary
      /\ \E p \in Projects :
           LockedBy(r, p) /\ (Base(r, p) # NoLink \/ (IsRow(Own(r, p)) /\ Own(r, p).primary))

\* What it will write into the scalar column.
HeadRead(r) ==
    Wrote(r) /\ req[r].pc = "commit" =>
      \/ Linked(r) = {} /\ req[r].head = None
      \/ req[r].head \in Linked(r) /\ (Shaken(r) \/ Own(r, req[r].head).primary)

\* A row it demotes.
Demotes(r, p) ==
    /\ req[r].pc \in Writing
    /\ IsRow(Own(r, p)) /\ ~Own(r, p).primary
    /\ Base(r, p) # NoLink /\ Base(r, p).primary
Keeps(r) == \A p \in Projects : Demotes(r, p) => MakesPrimary(r) \/ MayBeStale(r, p)

\* A new primary row is the only one.
Alone(r) ==
    req[r].pc = "settle" => \A f, p \in Projects :
      IsRow(Own(r, f)) /\ Own(r, f).primary /\ Base(r, p) # NoLink /\ Base(r, p).primary => p = f

\* As long as nobody else is about, the row read is the row there is.
Fresh(r) ==
    req[r].pc = "insert" /\ Siblings(r) = {} =>
      /\ req[r].op = "create" => Base(r, req[r].parent) = NoLink
      /\ req[r].op = "source" /\ Base(r, req[r].parent) # NoLink =>
           Base(r, req[r].parent).primary = req[r].primary

ReqOK(r) ==
    /\ Shape(req[r]) /\ Deletes(r) /\ Grounded(r) /\ Excused(r) /\ Settled(r)
    /\ HeadRead(r) /\ Keeps(r) /\ Alone(r) /\ Fresh(r)

\* Two transactions of a child write different rows, and one at most a primary.
OneIndex ==
    \A r, q \in Requests : r # q /\ req[r].child = req[q].child =>
      \A p, s \in Projects :
        ~(IsRow(Own(r, p)) /\ Own(r, p).primary /\ IsRow(Own(q, s)) /\ Own(q, s).primary)

\* The unique index on primary rows.
OneCommitted ==
    \A c, p, q \in Projects :
      /\ link[<<c, p>>] # NoLink /\ link[<<c, p>>].primary
      /\ link[<<c, q>>] # NoLink /\ link[<<c, q>>].primary
      => p = q

RowsInv ==
    /\ \A r \in Requests : ReqOK(r)
    /\ Exclusive /\ OneIndex /\ OneCommitted /\ ParentsAgree

-----------------------------------------------------------------------------
(* What a step does to the requests that do not take it.                   *)

LEMMA Distinct == NoLink \notin Row /\ Untouched \notin Row /\ Untouched # NoLink
BY InheritanceAssumption DEF Row, Sources

Others(r) == \A q \in Requests \ {r} : req'[q] = req[q]

\* What a request is about does not change while it runs.
Holds(r) ==
    /\ req'[r].op = req[r].op /\ req'[r].child = req[r].child
    /\ req[r].op # "ontology" => req'[r].parent = req[r].parent
    /\ req[r].tx = "undo" => req'[r].tx = "undo"
Proceeds(r) == Others(r) /\ (req[r].pc = "idle" \/ Holds(r))

AllShape == \A r \in Requests : Shape(req[r])

LEMMA DoneFields ==
    ASSUME Typed, NEW r \in Requests, NEW o, Done(r, o)
    PROVE  /\ Others(r) /\ Holds(r)
           /\ req'[r].pc = "done" /\ req'[r].own = NoRows /\ req'[r].parent = req[r].parent
           /\ req'[r].tx = req[r].tx
BY DEF Done, Idle, Typed, TypeOK, Others, Holds

LEMMA AbortFields ==
    ASSUME Typed, NEW r \in Requests, Abort(r)
    PROVE  /\ Others(r) /\ Holds(r)
           /\ req'[r].own = NoRows /\ req'[r].parent = req[r].parent
           /\ req'[r].tx = req[r].tx
           /\ req'[r].pc = "done" \/ (req'[r].pc = "next" /\ req[r].tx = "sync")
<1>1. CASE req[r].tx = "sync"
    BY <1>1 DEF Abort, Typed, TypeOK, Others, Holds, Request
<1>2. CASE req[r].tx # "sync"
    BY <1>2, DoneFields DEF Abort
<1> QED
    BY <1>1, <1>2

LEMMA GotoFields ==
    ASSUME Typed, NEW r \in Requests, NEW pc, Goto(r, pc)
    PROVE  /\ Others(r) /\ Holds(r)
           /\ req'[r].pc = pc /\ req'[r].own = req[r].own /\ req'[r].parent = req[r].parent
           /\ req'[r].tx = req[r].tx /\ req'[r].primary = req[r].primary
BY DEF Goto, Typed, TypeOK, Others, Holds, Request

\* What has been undercut stays so, and nobody loses a sibling.
LEMMA Monotone ==
    ASSUME Typed, AllShape, NEW r \in Requests, Proceeds(r), NEW c \in Projects
    PROVE  /\ Undercut(c) => Undercut(c)'
           /\ WritesScalar(c) => WritesScalar(c)'
           /\ \A q \in Requests : req[q].child = c /\ req[q].pc # "idle" /\ Siblings(q)' = {} =>
                Siblings(q) = {}
<1>1. \A q \in Requests : req[q].child = c =>
        /\ req'[q].op = req[q].op /\ req'[q].child = c
        /\ req[q].op # "ontology" => req'[q].parent = req[q].parent
        /\ req[q].tx = "undo" => req'[q].tx = "undo"
    <2>1. req[r].child = c => req[r].pc # "idle"
        BY InheritanceAssumption DEF AllShape, Shape
    <2> QED
        BY <2>1 DEF Proceeds, Others, Holds
<1>2. Undercut(c) => Undercut(c)'
    <2> SUFFICES ASSUME NEW a \in Requests, NEW b \in Requests \ {a},
                        req[a].child = c /\ req[b].child = c,
                        req[a].op \in {"create", "delete", "primary", "reorder"},
                        Removes(b, req[a].parent)
                 PROVE  Undercut(c)'
        BY DEF Undercut
    <2>1. req'[a].parent = req[a].parent
        BY <1>1
    <2>2. Removes(b, req[a].parent)'
        BY <1>1, <2>1 DEF Removes
    <2> QED
        BY <1>1, <2>2 DEF Undercut
<1>3. WritesScalar(c) => WritesScalar(c)'
    BY <1>1 DEF WritesScalar
<1>4. ASSUME NEW q \in Requests, req[q].child = c, Siblings(q)' = {}
      PROVE  Siblings(q) = {}
    BY <1>1, <1>4 DEF Siblings
<1> QED
    BY <1>2, <1>3, <1>4

\* The same request sees what it saw, if the primary flags of its links stay.
SameRows(q) ==
    \A p \in Projects :
      /\ Base(q, p)' = NoLink <=> Base(q, p) = NoLink
      /\ Base(q, p) # NoLink => Base(q, p).primary' = Base(q, p).primary

LEMMA BystanderOK ==
    ASSUME Typed, AllShape, NEW r \in Requests, Proceeds(r), NEW q \in Requests \ {r},
           ReqOK(q), SameRows(q)
    PROVE  ReqOK(q)'
<1>1. req'[q] = req[q] /\ Ready(req[q])
    BY DEF Proceeds, Others, Typed
<1>2. CASE req[q].pc = "idle"
    BY <1>1, <1>2, Distinct
    DEF ReqOK, Deletes, Grounded, Relies, Finished, Excused, EmptyHanded, Settled, Wrote, HeadRead,
        Keeps, Demotes, Writing, Alone, Fresh, Own, Ready, NoRows
<1>3. CASE req[q].pc # "idle"
    <2>1. PICK c \in Projects : req[q].child = c /\ req'[q].child = c
        BY <1>1, <1>3 DEF Ready
    <2>1a. req[q].parent \in Projects
        BY <1>1, <1>3 DEF Ready
    <2>2. Shaken(q) => Shaken(q)'
        BY <2>1, Monotone DEF Shaken
    <2>3. Siblings(q)' = {} => Siblings(q) = {}
        BY <1>3, <2>1, Monotone
    <2>4. Linked(q)' = Linked(q)
        BY <1>1 DEF Linked, Seen, SameRows, Base
    <2>5. Shape(req[q])' /\ Deletes(q)'
        BY <1>1 DEF ReqOK, Deletes, Own, SameRows, Removes
    <2>6. Grounded(q)' /\ Excused(q)'
        BY <1>1, <2>1a, <2>2
        DEF ReqOK, Grounded, Relies, SameRows, Base, Excused, EmptyHanded, Blind
    <2>7. Settled(q)' /\ HeadRead(q)'
        BY <1>1, <2>1, <2>2, <2>4
        DEF ReqOK, Settled, HeadRead, Wrote, Blind, LockedBy, Own, SameRows
    <2>8. Keeps(q)'
        <3> SUFFICES ASSUME NEW p \in Projects, Demotes(q, p)'
                     PROVE  MakesPrimary(q)' \/ MayBeStale(q, p)'
            BY DEF Keeps
        <3>1. Demotes(q, p)
            BY <1>1 DEF Demotes, Own, SameRows
        <3>2. MakesPrimary(q) \/ MayBeStale(q, p)
            BY <3>1 DEF ReqOK, Keeps
        <3> QED
            BY <1>1, <2>3, <3>2 DEF MakesPrimary, MayBeStale
    <2>9. Alone(q)'
        BY <1>1 DEF ReqOK, Alone, Own, SameRows
    <2>10. Fresh(q)'
        BY <1>1, <2>1a, <2>3 DEF ReqOK, Fresh, SameRows, Base
    <2> QED
        BY <2>5, <2>6, <2>7, <2>8, <2>9, <2>10 DEF ReqOK
<1> QED
    BY <1>2, <1>3

LEMMA InvShape ==
    ASSUME RowsInv
    PROVE  AllShape
BY DEF RowsInv, ReqOK, AllShape

\* A step that leaves the links alone.
LEMMA LinksStay ==
    ASSUME RowsInv, Typed, NEW r \in Requests, Proceeds(r), UNCHANGED <<link, scalar>>,
           ReqOK(r)', Exclusive', OneIndex'
    PROVE  RowsInv'
<1>1. \A q \in Requests : ReqOK(q)'
    <2> SUFFICES ASSUME NEW q \in Requests \ {r}
                 PROVE  ReqOK(q)'
        OBVIOUS
    <2>1. SameRows(q)
        <3>1. req'[q] = req[q]
            BY DEF Proceeds, Others
        <3> QED
            BY <3>1 DEF SameRows, Base
    <2> QED
        BY <2>1, BystanderOK, InvShape DEF RowsInv
<1>2. OneCommitted'
    BY DEF RowsInv, OneCommitted
<1>3. ParentsAgree'
    <2> SUFFICES ASSUME NEW c \in Projects, ~Undercut(c)'
                 PROVE  OnePrimaryOf(c)' /\ (~WritesScalar(c)' => ScalarFollows(c)')
        BY DEF ParentsAgree
    <2>1. ~Undercut(c) /\ (~WritesScalar(c)' => ~WritesScalar(c))
        BY InvShape, Monotone
    <2>2. OnePrimaryOf(c) => OnePrimaryOf(c)'
        BY DEF OnePrimaryOf, ParentsOf
    <2>3. ScalarFollows(c) => ScalarFollows(c)'
        BY DEF ScalarFollows, ParentsOf
    <2> QED
        BY <2>1, <2>2, <2>3 DEF RowsInv, ParentsAgree
<1> QED
    BY <1>1, <1>2, <1>3 DEF RowsInv

\* A step after which a request has written nothing and is not about to commit.
Rests(r) ==
    /\ req'[r].own = NoRows
    /\ req'[r].pc \notin {"head", "commit"}
    /\ req'[r].pc = "settle" => req'[r].tx = "reorder"

LEMMA RestStep ==
    ASSUME RowsInv, Typed, NEW r \in Requests, Proceeds(r), UNCHANGED <<link, scalar>>,
           Rests(r), Shape(req[r])', Grounded(r)', Fresh(r)'
    PROVE  RowsInv'
<1>1. \A p \in Projects : req'[r].own[p] = Untouched
    BY DEF Rests, NoRows
<1>2. ReqOK(r)'
    BY <1>1, Distinct
    DEF ReqOK, Rests, Deletes, Excused, EmptyHanded, Settled, Wrote, HeadRead, Keeps, Demotes, Alone,
        Own, IsRow
<1>3. Exclusive'
    BY <1>1 DEF RowsInv, Exclusive, LockedBy, Proceeds, Others
<1>4. OneIndex'
    BY <1>1 DEF RowsInv, OneIndex, Own, IsRow, Proceeds, Others
<1> QED
    BY <1>2, <1>3, <1>4, LinksStay

\* One that goes by its link no more than before.
LEMMA OnwardStep ==
    ASSUME RowsInv, Typed, NEW r \in Requests, Others(r), Holds(r), UNCHANGED <<link, scalar>>,
           Rests(r), Shape(req[r])', req'[r].pc # "insert", req[r].pc # "idle",
           Relies(r)' => Relies(r)
    PROVE  RowsInv'
<1>1. PICK c \in Projects, p \in Projects : req[r].child = c /\ req[r].parent = p
    BY DEF Typed, Ready
<1>2. Shaken(r) => Shaken(r)'
    <2>1. Undercut(c) => Undercut(c)'
        BY InvShape, Monotone DEF Proceeds
    <2> QED
        BY <1>1, <2>1 DEF Shaken, Holds
<1>3. Grounded(r)'
    <2> SUFFICES ASSUME Relies(r)', Base(r, req[r].parent)' = NoLink
                 PROVE  Shaken(r)'
        BY DEF Grounded
    <2>1. req[r].op # "ontology"
        BY DEF RowsInv, ReqOK, Shape, Relies, Finished
    <2>2. Base(r, req[r].parent) = NoLink
        BY <2>1 DEF Base, Holds
    <2> QED
        BY <1>2, <2>2 DEF RowsInv, ReqOK, Grounded
<1>4. Fresh(r)'
    BY DEF Fresh
<1> QED
    BY <1>3, <1>4, RestStep DEF Proceeds

LEMMA DoneRows ==
    ASSUME RowsInv, Typed, NEW r \in Requests, NEW o, Done(r, o), UNCHANGED <<link, scalar>>,
           req[r].pc # "idle"
    PROVE  RowsInv'
<1>1. /\ Others(r) /\ Holds(r)
      /\ req'[r].pc = "done" /\ req'[r].own = NoRows /\ req'[r].tx = req[r].tx
    BY DoneFields
<1>2. Shape(req[r])'
    BY <1>1 DEF RowsInv, ReqOK, Shape, Holds, Writing
<1>3. ~Relies(r)'
    BY <1>1 DEF Relies, Finished
<1> QED
    BY <1>1, <1>2, <1>3, OnwardStep DEF Rests

LEMMA AbortRows ==
    ASSUME RowsInv, Typed, NEW r \in Requests, Abort(r), UNCHANGED <<link, scalar>>,
           req[r].pc # "idle"
    PROVE  RowsInv'
<1>1. /\ Others(r) /\ Holds(r)
      /\ req'[r].own = NoRows /\ req'[r].tx = req[r].tx
      /\ req'[r].pc = "done" \/ (req'[r].pc = "next" /\ req[r].tx = "sync")
    BY AbortFields
<1>2. Shape(req[r])'
    BY <1>1 DEF RowsInv, ReqOK, Shape, Holds, Writing, AllOps
<1>3. ~Relies(r)'
    BY <1>1 DEF RowsInv, ReqOK, Shape, Relies, Finished, Holds
<1> QED
    BY <1>1, <1>2, <1>3, OnwardStep DEF Rests

-----------------------------------------------------------------------------
(* The steps between the statements.                                       *)

LEMMA StartRows ==
    ASSUME RowsInv, Typed, NEW r \in Requests, Start(r)
    PROVE  RowsInv'
<1>1. PICK op \in Ops, c \in Projects, p \in Projects, primary \in BOOLEAN, s \in Sources :
        /\ c # p
        /\ op \in {"source", "delete", "primary", "reorder"} => link[<<c, p>>] # NoLink
        /\ primary => op = "create"
        /\ s # Draft => op \in {"create", "source", "repin"}
        /\ op = "repin" => s # Draft
        /\ req' = [req EXCEPT ![r] = [Idle EXCEPT !.op = op, !.pc = FirstStep(op), !.tx = op, !.child = c,
                                                  !.parent = p, !.primary = primary, !.source = s]]
    BY Zenon DEF Start
<1>2. op \in AllOps
    BY InheritanceAssumption
<1>3. /\ Others(r) /\ req'[r].op = op /\ req'[r].tx = op /\ req'[r].pc = FirstStep(op)
      /\ req'[r].child = c /\ req'[r].parent = p /\ req'[r].own = NoRows
    BY <1>1 DEF Others, Typed, TypeOK, Idle
<1>4. FirstStep(op) \in {"graph", "read", "receipts", "exists", "settle", "classify", "chain", "load"}
    BY <1>2 DEF FirstStep, AllOps
<1>5. Shape(req[r])'
    BY <1>2, <1>3, Distinct DEF Shape, FirstStep, AllOps, NoRows, Writing
<1>6. Rests(r)
    BY <1>2, <1>3 DEF Rests, FirstStep, AllOps
<1>7. Grounded(r)'
    <2>1. link'[<<c, p>>] = link[<<c, p>>]
        BY DEF Start
    <2> QED
        BY <1>1, <1>2, <1>3, <1>4, <2>1 DEF Grounded, Relies, Base, AllOps
<1>8. Fresh(r)'
    BY <1>3, <1>4 DEF Fresh
<1>9. Proceeds(r) /\ UNCHANGED <<link, scalar>>
    BY <1>3 DEF Proceeds, Start
<1> QED
    BY <1>5, <1>6, <1>7, <1>8, <1>9, RestStep

\* CheckGraph has seen that there is no such link.
LEMMA CheckGraphRows ==
    ASSUME RowsInv, Typed, NEW r \in Requests, CheckGraph(r)
    PROVE  RowsInv'
<1>1. CASE Done(r, "refused")
    BY <1>1, DoneRows DEF CheckGraph
<1>2. CASE ~Done(r, "refused")
    <2>1. /\ Others(r) /\ Holds(r) /\ req'[r].pc = "insert" /\ req'[r].tx = "add"
          /\ req'[r].own = NoRows /\ req'[r].parent = req[r].parent
          /\ Base(r, req[r].parent) = NoLink
        BY <1>2 DEF CheckGraph, Typed, TypeOK, Request, Ready, Writing, Others, Holds, Base, RowsInv, ReqOK, Shape
    <2>2. Shape(req[r])'
        BY <2>1 DEF RowsInv, ReqOK, Shape, Holds, Writing, CheckGraph
    <2>3. ~Relies(r)'
        BY <2>1 DEF RowsInv, ReqOK, Shape, Relies, Holds, CheckGraph
    <2>4. Fresh(r)'
        BY <2>1 DEF Fresh, Base, Holds, CheckGraph, RowsInv, ReqOK, Shape
    <2> QED
        BY <2>1, <2>2, <2>3, <2>4, RestStep DEF Rests, Grounded, Proceeds, CheckGraph
<1> QED
    BY <1>1, <1>2

\* ReadLink copies the row there is.
LEMMA ReadLinkRows ==
    ASSUME RowsInv, Typed, NEW r \in Requests, ReadLink(r)
    PROVE  RowsInv'
<1>1. CASE Done(r, "refused")
    BY <1>1, DoneRows DEF ReadLink
<1>2. CASE ~Done(r, "refused")
    <2>1. /\ Others(r) /\ Holds(r) /\ req'[r].pc = "insert" /\ req'[r].tx = req[r].tx
          /\ req'[r].own = NoRows /\ req'[r].parent = req[r].parent
          /\ req'[r].primary = Base(r, req[r].parent).primary
        BY <1>2 DEF ReadLink, Typed, TypeOK, Request, Ready, Writing, Others, Holds, Base
    <2>2. Shape(req[r])'
        BY <2>1 DEF RowsInv, ReqOK, Shape, Holds, Writing, ReadLink
    <2>3. ~Relies(r)'
        BY <2>1 DEF RowsInv, ReqOK, Shape, Relies, Holds, ReadLink
    <2>4. Fresh(r)'
        BY <2>1 DEF Fresh, Base, Holds, ReadLink, RowsInv, ReqOK, Shape
    <2> QED
        BY <2>1, <2>2, <2>3, <2>4, RestStep DEF Rests, Grounded, Proceeds, ReadLink
<1> QED
    BY <1>1, <1>2

LEMMA CheckReceiptsRows ==
    ASSUME RowsInv, Typed, NEW r \in Requests, CheckReceipts(r)
    PROVE  RowsInv'
<1>1. CASE Done(r, "refused")
    BY <1>1, DoneRows DEF CheckReceipts
<1>2. CASE Goto(r, "delete")
    <2>1. /\ Others(r) /\ Holds(r) /\ req'[r].pc = "delete" /\ req'[r].tx = req[r].tx
          /\ req'[r].own = NoRows
        BY <1>2, GotoFields DEF CheckReceipts, Typed, Ready, Writing
    <2>2. Shape(req[r])'
        BY <2>1 DEF RowsInv, ReqOK, Shape, Holds, Writing, CheckReceipts
    <2>3. Relies(r)' => Relies(r)
        BY <2>1 DEF Relies, Holds, CheckReceipts, Finished
    <2> QED
        BY <2>1, <2>2, <2>3, OnwardStep DEF Rests, CheckReceipts
<1> QED
    BY <1>1, <1>2 DEF CheckReceipts

LEMMA LookUpRows ==
    ASSUME RowsInv, Typed, NEW r \in Requests, LookUp(r)
    PROVE  RowsInv'
<1>1. CASE Abort(r)
    BY <1>1, AbortRows DEF LookUp
<1>2. CASE Goto(r, "clear")
    <2>1. /\ Others(r) /\ Holds(r) /\ req'[r].pc = "clear" /\ req'[r].tx = req[r].tx
          /\ req'[r].own = NoRows
        BY <1>2, GotoFields DEF LookUp, Typed, Ready, Writing
    <2>2. Shape(req[r])'
        BY <2>1 DEF RowsInv, ReqOK, Shape, Holds, Writing, LookUp
    <2>3. Relies(r)' => Relies(r)
        BY <2>1 DEF Relies, Holds, LookUp, Finished
    <2> QED
        BY <2>1, <2>2, <2>3, OnwardStep DEF Rests, LookUp
<1> QED
    BY <1>1, <1>2 DEF LookUp

LEMMA CopyFailsRows ==
    ASSUME RowsInv, Typed, NEW r \in Requests, CopyFails(r)
    PROVE  RowsInv'
<1>1. /\ Others(r) /\ Holds(r) /\ req'[r].pc = "delete" /\ req'[r].tx = "undo"
      /\ req'[r].own = NoRows
    BY DEF CopyFails, Typed, TypeOK, Request, Ready, Writing, Others, Holds
<1>2. Shape(req[r])'
    BY <1>1 DEF RowsInv, ReqOK, Shape, Holds, Writing, CopyFails, AllOps
<1>3. Relies(r)' => Relies(r)
    BY <1>1 DEF Relies, Holds, CopyFails, Finished
<1> QED
    BY <1>1, <1>2, <1>3, OnwardStep DEF Rests, CopyFails

\* The steps of the forms that write the project row, and of a repin.
LEMMA FormRows ==
    ASSUME RowsInv, Typed, NEW r \in Requests, UNCHANGED <<link, scalar>>, Others(r), Holds(r),
           req[r].pc \in {"chain", "load", "children", "next", "classify"},
           req'[r].own = req[r].own,
           \/ req'[r].pc = "update" /\ req'[r].tx = req[r].tx /\ req[r].pc \in {"chain", "load"}
           \/ req'[r].pc = "next" /\ req'[r].tx = "sync" /\ req[r].pc = "children"
           \/ req'[r].pc = "move" /\ req'[r].tx = req[r].tx
           \/ req'[r].pc \in {"insert", "delete"} /\ req'[r].tx = "sync" /\ req[r].pc = "next"
    PROVE  RowsInv'
<1>1. req[r].own = NoRows
    BY DEF Typed, Ready, Writing
<1>2. Shape(req[r])'
    BY <1>1 DEF RowsInv, ReqOK, Shape, Holds, Writing, AllOps
<1>3. Rests(r)
    BY <1>1 DEF Rests
<1>4. CASE req'[r].pc # "insert"
    <2>1. Relies(r)' => Relies(r)
        BY <1>2, <1>4 DEF RowsInv, ReqOK, Shape, Relies, Holds, Finished
    <2> QED
        BY <1>2, <1>3, <1>4, <2>1, OnwardStep
<1>5. CASE req'[r].pc = "insert"
    <2>1. req'[r].op = "ontology"
        BY <1>5 DEF RowsInv, ReqOK, Shape, Holds
    <2> QED
        BY <1>2, <1>3, <1>5, <2>1, RestStep DEF Proceeds, Grounded, Relies, Fresh
<1> QED
    BY <1>4, <1>5

LEMMA HandlerRows ==
    ASSUME RowsInv, Typed, NEW r \in Requests,
           CheckChain(r) \/ LoadProject(r) \/ ListChildren(r) \/ NextChild(r) \/ Classify(r)
    PROVE  RowsInv'
<1>0. /\ req[r] \in Request /\ req \in [Requests -> Request] /\ req[r].pc # "idle"
      /\ UNCHANGED <<link, scalar>>
    BY DEF CheckChain, LoadProject, ListChildren, NextChild, Classify, Typed, TypeOK
<1>1. CASE \E o : Done(r, o)
    BY <1>0, <1>1, DoneRows
<1>2. ASSUME ~(\E o : Done(r, o)), CheckChain(r) \/ LoadProject(r)
      PROVE  RowsInv'
    <2>1. PICK h : req' = [req EXCEPT ![r].pc = "update", ![r].head = h]
        BY <1>2 DEF CheckChain, LoadProject
    <2>2. /\ Others(r) /\ Holds(r) /\ req'[r].pc = "update" /\ req'[r].tx = req[r].tx
          /\ req'[r].own = req[r].own /\ req[r].pc \in {"chain", "load"}
        BY <1>0, <1>2, <2>1 DEF Others, Holds, Request, CheckChain, LoadProject
    <2> QED
        BY <1>0, <2>2, FormRows
<1>3. CASE ListChildren(r)
    <2>1. PICK todo : req' = [req EXCEPT ![r].pc = "next", ![r].tx = "sync", ![r].todo = todo]
        BY Zenon, <1>3 DEF ListChildren
    <2>2. req[r].op = "ontology" /\ req[r].tx \in {"ontology", "sync"}
        BY <1>3 DEF ListChildren, RowsInv, ReqOK, Shape
    <2>3. /\ Others(r) /\ Holds(r) /\ req'[r].pc = "next" /\ req'[r].tx = "sync"
          /\ req'[r].own = req[r].own /\ req[r].pc = "children"
        BY <1>0, <1>3, <2>1, <2>2 DEF Others, Holds, Request, ListChildren
    <2> QED
        BY <1>0, <2>3, FormRows
<1>4. ASSUME ~(\E o : Done(r, o)), NextChild(r)
      PROVE  RowsInv'
    <2>1. PICK t \in req[r].todo :
            req' = [req EXCEPT ![r].pc = t[1], ![r].parent = t[2], ![r].todo = @ \ {t}]
        BY <1>4 DEF NextChild
    <2>2. req[r].op = "ontology" /\ req[r].tx = "sync"
        BY <1>4 DEF NextChild, RowsInv, ReqOK, Shape
    <2>3. t[1] \in {"insert", "delete", "move"}
        BY <1>0 DEF Request
    <2>4. /\ Others(r) /\ Holds(r) /\ req'[r].pc = t[1] /\ req'[r].tx = req[r].tx
          /\ req'[r].own = req[r].own /\ req[r].pc = "next"
        BY <1>0, <1>4, <2>1, <2>2 DEF Others, Holds, Request, NextChild
    <2> QED
        BY <1>0, <2>2, <2>3, <2>4, FormRows
<1>5. CASE Classify(r)
    <2>1. PICK d, todo : req' = [req EXCEPT ![r].pc = "move", ![r].primary = d, ![r].todo = todo]
        BY Zenon, <1>5 DEF Classify
    <2>3. /\ Others(r) /\ Holds(r) /\ req'[r].pc = "move" /\ req'[r].tx = req[r].tx
          /\ req'[r].own = req[r].own /\ req[r].pc = "classify"
        BY <1>0, <1>5, <2>1 DEF Others, Holds, Request, Classify
    <2> QED
        BY <1>0, <2>3, FormRows
<1> QED
    BY <1>1, <1>2, <1>3, <1>4, <1>5

-----------------------------------------------------------------------------
(* The statements of a transaction.                                        *)

\* What its removal has undercut for a request stays undercut.
LEMMA ShakenStays ==
    ASSUME RowsInv, Typed, NEW r \in Requests, Others(r), Holds(r), req[r].pc # "idle"
    PROVE  /\ Shaken(r) => Shaken(r)'
           /\ Siblings(r)' = {} => Siblings(r) = {}
<1>1. PICK c \in Projects : req[r].child = c /\ req'[r].child = c
    BY DEF Typed, Ready, Holds
<1> QED
    BY <1>1, InvShape, Monotone DEF Proceeds, Shaken

LEMMA InsertRows ==
    ASSUME RowsInv, Typed, NEW r \in Requests, Insert(r)
    PROVE  RowsInv'
<1>1. CASE Abort(r)
    BY <1>1, AbortRows DEF Insert
<1>2. CASE ~Abort(r)
    <2>1. PICK p \in Projects : req[r].parent = p
        BY DEF Insert, Typed, Ready
    <2>2. PICK row \in Row : row.primary = req[r].primary /\ row = [primary |-> req[r].primary, source |-> req[r].source]
        BY DEF Typed, TypeOK, Request, Row
    <2>3. /\ Others(r) /\ Holds(r) /\ req'[r].pc = "settle" /\ req'[r].tx = req[r].tx
          /\ req[r].own = NoRows /\ req'[r].parent = p /\ req'[r].primary = req[r].primary
          /\ \A x \in Projects : req'[r].own[x] = IF x = p THEN row ELSE Untouched
        BY <1>2, <2>1, <2>2
        DEF Insert, Typed, TypeOK, Request, Ready, Writing, NoRows, Others, Holds
    <2>4. IsRow(row) /\ row # NoLink
        BY <2>2, Distinct DEF IsRow
    <2>5. /\ Free(r, {p}) /\ req[r].pc = "insert" /\ UNCHANGED <<link, scalar>>
          /\ req[r].primary => IndexFree(r) /\ ~PrimaryTaken(r, p)
        BY <1>2, <2>1 DEF Insert
    <2>6. \/ req[r].tx = "add" /\ req[r].op = "create"
          \/ req[r].tx = "source" /\ req[r].op = "source"
          \/ req[r].tx = "sync" /\ req[r].op = "ontology"
        BY <2>5 DEF RowsInv, ReqOK, Shape, AllOps
    <2>7. Shape(req[r])'
        BY <2>3, <2>4, <2>5, <2>6 DEF RowsInv, ReqOK, Shape, Holds
    <2>8. Deletes(r)' /\ Grounded(r)' /\ Excused(r)' /\ Settled(r)' /\ HeadRead(r)' /\ Fresh(r)'
        BY <2>3, <2>4, <2>6, Distinct
        DEF Deletes, Grounded, Relies, Excused, EmptyHanded, Settled, Wrote, HeadRead, Fresh, Own, Holds
    <2>9. Keeps(r)'
        <3> SUFFICES ASSUME NEW x \in Projects, Demotes(r, x)'
                     PROVE  MakesPrimary(r)' \/ MayBeStale(r, x)'
            BY DEF Keeps
        <3>1. x = p /\ ~req[r].primary /\ Base(r, p) # NoLink /\ Base(r, p).primary
            BY <2>2, <2>3, <2>5 DEF Demotes, Own, IsRow, Base, Holds
        <3>2. CASE Siblings(r)' = {}
            <4>1. Siblings(r) = {}
                BY <2>3, <2>5, <3>2, ShakenStays
            <4>2. req[r].op \notin {"create", "source"}
                BY <2>1, <2>5, <3>1, <4>1 DEF RowsInv, ReqOK, Fresh, Base
            <4> QED
                BY <2>3, <2>6, <4>2 DEF MakesPrimary, Holds
        <3>3. CASE Siblings(r)' # {}
            BY <2>3, <2>6, <3>1, <3>3 DEF MakesPrimary, MayBeStale, Holds
        <3> QED
            BY <3>2, <3>3
    <2>10. Alone(r)'
        <3> SUFFICES ASSUME NEW f \in Projects, NEW x \in Projects,
                            (IsRow(Own(r, f)) /\ Own(r, f).primary)',
                            (Base(r, x) # NoLink /\ Base(r, x).primary)'
                     PROVE  x = f
            BY DEF Alone
        <3>1. f = p /\ req[r].primary
            BY <2>2, <2>3 DEF Own, IsRow
        <3>2. Seen(r, x) = Base(r, x) /\ Base(r, x)' = Base(r, x)
            BY <2>3, <2>5 DEF Seen, Base, NoRows, Holds
        <3> QED
            BY <2>5, <3>1, <3>2 DEF PrimaryTaken
    <2>11. Exclusive'
        BY <2>3, <2>5 DEF RowsInv, Exclusive, LockedBy, Free, Siblings, Others, Holds
    <2>12. OneIndex'
        <3>1. \A q \in Siblings(r) : req[r].primary =>
                \A x \in Projects : ~(IsRow(Own(q, x)) /\ Own(q, x).primary)
            BY <2>5 DEF IndexFree, HoldsPrimary, LockedBy, Own, IsRow
        <3>2. \A x \in Projects : (IsRow(Own(r, x)) /\ Own(r, x).primary)' => req[r].primary
            BY <2>2, <2>3 DEF Own, IsRow
        <3>3. \A q \in Requests \ {r} : req'[q].child = req'[r].child => q \in Siblings(r)
            BY <2>3 DEF Others, Holds, Siblings
        <3>4. \A q \in Requests \ {r} : \A x \in Projects : Own(q, x)' = Own(q, x)
            BY <2>3 DEF Others, Own
        <3>5. \A a, b \in Requests \ {r} : (req'[a].child = req'[b].child) <=> req[a].child = req[b].child
            BY <2>3 DEF Others
        <3> QED
            BY <3>1, <3>2, <3>3, <3>4, <3>5 DEF RowsInv, OneIndex
    <2>13. ReqOK(r)'
        BY <2>7, <2>8, <2>9, <2>10 DEF ReqOK
    <2> QED
        BY <2>3, <2>5, <2>11, <2>12, <2>13, LinksStay DEF Proceeds
<1> QED
    BY <1>1, <1>2

LEMMA DeleteRows ==
    ASSUME RowsInv, Typed, NEW r \in Requests, Delete(r)
    PROVE  RowsInv'
<1>1. PICK p \in Projects : req[r].parent = p
    BY DEF Delete, Typed, Ready
<1>2. /\ Others(r) /\ Holds(r) /\ req'[r].pc = "settle" /\ req'[r].tx = req[r].tx
      /\ req[r].own = NoRows /\ req'[r].parent = p /\ req[r].pc = "delete"
      /\ \A x \in Projects : req'[r].own[x] = IF x = p /\ Base(r, p) # NoLink THEN NoLink ELSE Untouched
    <2>1. req[r].pc = "delete" /\ req[r].own = NoRows /\ req[r] \in Request
        BY DEF Delete, Typed, TypeOK, Ready, Writing
    <2>2. PICK v : /\ v = (IF Base(r, p) = NoLink THEN Untouched ELSE NoLink)
                   /\ req' = [req EXCEPT ![r].pc = "settle", ![r].own[p] = v]
        BY <1>1, <2>1 DEF Delete, Seen, Base, NoRows
    <2>3. Others(r) /\ req'[r].own = [NoRows EXCEPT ![p] = v]
        BY <2>1, <2>2 DEF Others, Request, Typed, TypeOK
    <2>4. /\ req'[r].pc = "settle" /\ req'[r].tx = req[r].tx /\ req'[r].op = req[r].op
          /\ req'[r].child = req[r].child /\ req'[r].parent = req[r].parent
        BY <2>1, <2>2 DEF Request, Typed, TypeOK
    <2>5. Holds(r)
        BY <2>4 DEF Holds
    <2>6. \A x \in Projects : req'[r].own[x] = IF x = p THEN v ELSE Untouched
        BY <2>3 DEF NoRows
    <2> QED
        BY <1>1, <2>1, <2>2, <2>3, <2>4, <2>5, <2>6
<1>3. /\ Free(r, {p}) /\ UNCHANGED <<link, scalar>>
    BY <1>1 DEF Delete
<1>4. \/ req[r].tx = "delete" /\ req[r].op = "delete"
      \/ req[r].tx = "undo" /\ req[r].op = "create"
      \/ req[r].tx = "sync" /\ req[r].op = "ontology"
    BY <1>2 DEF RowsInv, ReqOK, Shape, AllOps
<1>5. Shape(req[r])'
    BY <1>1, <1>2, <1>4 DEF RowsInv, ReqOK, Shape, Holds
<1>6. \A x \in Projects : Base(r, x)' = Base(r, x)
    BY <1>2, <1>3 DEF Base, Holds
<1>7. Deletes(r)'
    BY <1>1, <1>2, <1>4, <1>6, Distinct DEF Deletes, Own, Removes, Holds
<1>8. Shaken(r) => Shaken(r)'
    BY <1>2, ShakenStays
<1>9. Base(r, p) = NoLink /\ req[r].op # "ontology" => Shaken(r)
    BY <1>1, <1>2, <1>4 DEF RowsInv, ReqOK, Grounded, Relies, Finished, Base
<1>10. Grounded(r)'
    BY <1>1, <1>2, <1>4, <1>3, <1>8, <1>9 DEF Grounded, Relies, Base, Holds
<1>11. Excused(r)'
    <2> SUFFICES ASSUME EmptyHanded(r)'
                 PROVE  Shaken(r)'
        BY DEF Excused
    <2>1. req'[r].own[p] = Untouched
        BY DEF EmptyHanded, Blind, NoRows
    <2>2. Base(r, p) = NoLink /\ req[r].op # "ontology"
        BY <1>2, <2>1, Distinct DEF EmptyHanded, Holds
    <2> QED
        BY <1>8, <1>9, <2>2
<1>12. Settled(r)' /\ HeadRead(r)' /\ Keeps(r)' /\ Alone(r)' /\ Fresh(r)'
    BY <1>2 DEF Settled, Wrote, HeadRead, Keeps, Demotes, Alone, Fresh, Own, IsRow
<1>13. Exclusive'
    BY <1>2, <1>3 DEF RowsInv, Exclusive, LockedBy, Free, Siblings, Others, Holds
<1>14. OneIndex'
    <2>1. \A x \in Projects : ~IsRow(Own(r, x))'
        BY <1>2 DEF Own, IsRow
    <2> QED
        BY <1>2, <2>1 DEF RowsInv, OneIndex, Own, Others
<1>15. ReqOK(r)'
    BY <1>5, <1>7, <1>10, <1>11, <1>12 DEF ReqOK
<1> QED
    BY <1>2, <1>3, <1>13, <1>14, <1>15, LinksStay DEF Proceeds

\* A statement that writes all links of a child, f as the primary one.
WritesAll(r, f) ==
    req' = [req EXCEPT ![r].pc = "head",
      ![r].own = [p \in Projects |-> IF p \in Linked(r)
                                     THEN [Seen(r, p) EXCEPT !.primary = (p = f)]
                                     ELSE req[r].own[p]]]

LEMMA WriteAllFields ==
    ASSUME Typed, NEW r \in Requests, NEW f \in Projects, req[r].child \in Projects, UNCHANGED link,
           WritesAll(r, f)
    PROVE  /\ Others(r) /\ Holds(r) /\ req'[r].pc = "head" /\ req'[r].tx = req[r].tx
           /\ req'[r].parent = req[r].parent /\ req'[r].primary = req[r].primary
           /\ \A p \in Linked(r) : IsRow(Own(r, p))' /\ (Own(r, p)').primary = (p = f)
           /\ \A p \in Projects \ Linked(r) : Own(r, p)' = Own(r, p) /\ ~IsRow(Own(r, p))
           /\ Linked(r)' = Linked(r)
<1>1. /\ Others(r) /\ Holds(r) /\ req'[r].pc = "head" /\ req'[r].tx = req[r].tx
      /\ req'[r].parent = req[r].parent /\ req'[r].primary = req[r].primary
      /\ req'[r].own = [p \in Projects |-> IF p \in Linked(r)
                                            THEN [Seen(r, p) EXCEPT !.primary = (p = f)]
                                            ELSE req[r].own[p]]
    BY DEF WritesAll, Typed, TypeOK, Request, Others, Holds
<1>2. ASSUME NEW p \in Linked(r)
      PROVE  Own(r, p)' \in Row /\ (Own(r, p)').primary = (p = f)
    <2>1. p \in Projects /\ Seen(r, p) \in Row
        BY SeenType DEF Linked
    <2>2. Own(r, p)' = [Seen(r, p) EXCEPT !.primary = (p = f)]
        BY <1>1, <2>1 DEF Own
    <2> QED
        BY <2>1, <2>2 DEF Row
<1>3. \A p \in Linked(r) : IsRow(Own(r, p))'
    BY <1>2, Distinct DEF IsRow
<1>4. \A p \in Projects \ Linked(r) : Own(r, p)' = Own(r, p) /\ ~IsRow(Own(r, p))
    BY <1>1 DEF Own, IsRow, Linked, Seen
<1>5. Linked(r)' = Linked(r)
    BY <1>1, <1>3, <1>4, Distinct DEF Linked, Seen, Own, IsRow, Holds
<1> QED
    BY <1>1, <1>2, <1>3, <1>4, <1>5

\* A transaction has settled, or is about to read the head: locks and index.
LEMMA WriteAllLocks ==
    ASSUME RowsInv, Typed, NEW r \in Requests, Others(r), Holds(r),
           Free(r, Linked(r)), Linked(r) # {} => IndexFree(r),
           \A p \in Projects \ Linked(r) : Own(r, p)' = Own(r, p) /\ ~IsRow(Own(r, p))
    PROVE  Exclusive' /\ OneIndex'
<1>1. \A p \in Projects : LockedBy(r, p)' => LockedBy(r, p) \/ Free(r, {p})
    BY DEF LockedBy, Own, Free
<1>2. Exclusive'
    BY <1>1 DEF RowsInv, Exclusive, LockedBy, Free, Siblings, Others, Holds
<1>3. \A q \in Siblings(r) : \A x \in Projects :
        Linked(r) # {} => ~(IsRow(Own(q, x)) /\ Own(q, x).primary)
    BY DEF IndexFree, HoldsPrimary, LockedBy, Own, IsRow
<1>4. \A x \in Projects : IsRow(Own(r, x))' => Linked(r) # {}
    BY DEF IsRow
<1>5. \A q \in Requests \ {r} : req'[q].child = req'[r].child => q \in Siblings(r)
    BY DEF Others, Holds, Siblings
<1>6. \A q \in Requests \ {r} : \A x \in Projects : Own(q, x)' = Own(q, x)
    BY DEF Others, Own
<1>7. \A a, b \in Requests \ {r} : (req'[a].child = req'[b].child) <=> req[a].child = req[b].child
    BY DEF Others
<1>8. OneIndex'
    BY <1>3, <1>4, <1>5, <1>6, <1>7 DEF RowsInv, OneIndex
<1> QED
    BY <1>2, <1>8

\* The shape of a request that goes on to read the head.
LEMMA HeadShape ==
    ASSUME RowsInv, Typed, NEW r \in Requests, Holds(r), req'[r].pc = "head", req'[r].tx = req[r].tx,
           req[r].pc \in {"settle", "clear"}, req'[r].parent = req[r].parent,
           req[r].tx \in {"add", "source"} => IsRow(req'[r].own[req[r].parent])
    PROVE  Shape(req[r])'
BY DEF RowsInv, ReqOK, Shape, Holds, Writing

\* A request that goes by a link goes by it still.
LEMMA GroundedStays ==
    ASSUME RowsInv, Typed, NEW r \in Requests, Others(r), Holds(r), UNCHANGED link,
           req[r].pc # "idle", req'[r].parent = req[r].parent, Relies(r)' => Relies(r)
    PROVE  Grounded(r)'
<1>1. Base(r, req[r].parent)' = Base(r, req[r].parent)
    BY DEF Base, Holds
<1> QED
    BY <1>1, ShakenStays DEF RowsInv, ReqOK, Grounded

LEMMA SettleNothing ==
    ASSUME RowsInv, Typed, NEW r \in Requests, Settle(r), Linked(r) = {}, Goto(r, "head")
    PROVE  RowsInv'
<1>1. /\ Others(r) /\ Holds(r) /\ req'[r].pc = "head" /\ req'[r].own = req[r].own
      /\ req'[r].parent = req[r].parent /\ req'[r].tx = req[r].tx
      /\ req[r].pc = "settle" /\ UNCHANGED <<link, scalar>>
    BY GotoFields DEF Settle
<1>2. PICK s \in Projects : req[r].parent = s
    BY <1>1 DEF Typed, Ready
<1>3. \A p \in Projects : ~IsRow(Own(r, p)) /\ (Own(r, p) = Untouched => Base(r, p) = NoLink)
    BY DEF Linked, Seen, Own, Base, IsRow
<1>4. \A p \in Projects : Own(r, p)' = Own(r, p) /\ Base(r, p)' = Base(r, p)
    BY <1>1 DEF Own, Base, Holds
<1>5. Linked(r)' = Linked(r)
    BY <1>1 DEF Linked, Seen, Holds
<1>6. req[r].tx \notin {"add", "source"}
    BY <1>1, <1>2, <1>3 DEF RowsInv, ReqOK, Shape, Writing, Own
<1>7. Shape(req[r])'
    BY <1>1, <1>6, HeadShape
<1>8. Deletes(r)'
    BY <1>1, <1>4 DEF RowsInv, ReqOK, Deletes, Removes, Holds
<1>9. Grounded(r)'
    BY <1>1, GroundedStays DEF Relies, Holds, Finished
<1>10. Excused(r)'
    <2> SUFFICES ASSUME EmptyHanded(r)'
                 PROVE  Shaken(r)
        BY <1>1, ShakenStays DEF Excused
    <2>1. Blind(r) /\ req[r].op # "ontology"
        BY <1>1 DEF EmptyHanded, Blind, Holds
    <2>2. req[r].tx \in {"delete", "undo", "reorder"}
        BY <1>1, <1>6, <2>1 DEF RowsInv, ReqOK, Shape, AllOps
    <2>3. CASE req[r].tx \in {"delete", "undo"}
        BY <1>1, <2>1, <2>3 DEF RowsInv, ReqOK, Excused, EmptyHanded
    <2>4. CASE req[r].tx = "reorder"
        <3>1. Base(r, req[r].parent) = NoLink
            BY <1>2, <1>3, <2>1 DEF Blind, NoRows, Own
        <3>2. Relies(r)
            BY <1>1, <2>1, <2>4 DEF RowsInv, ReqOK, Shape, Relies, Finished
        <3> QED
            BY <3>1, <3>2 DEF RowsInv, ReqOK, Grounded
    <2> QED
        BY <2>2, <2>3, <2>4
<1>11. Settled(r)'
    <2> SUFFICES ASSUME Wrote(r)'
                 PROVE  \E p \in Projects : LockedBy(r, p)' /\ Base(r, p)' # NoLink
        BY <1>3, <1>4, <1>5 DEF Settled
    <2>1. PICK p \in Projects : Own(r, p) # Untouched
        <3>1. req[r].own # NoRows /\ req[r].own \in [Projects -> Row \cup {NoLink, Untouched}]
            BY <1>1 DEF Wrote, Blind, Typed, TypeOK, Request
        <3> QED
            BY <3>1 DEF NoRows, Own
    <2>2. Own(r, p) = NoLink
        BY <1>3, <2>1 DEF IsRow
    <2> QED
        BY <1>4, <2>1, <2>2 DEF RowsInv, ReqOK, Deletes, LockedBy, Own
<1>12. HeadRead(r)' /\ Keeps(r)' /\ Alone(r)' /\ Fresh(r)'
    BY <1>1, <1>3, <1>4 DEF HeadRead, Keeps, Demotes, Alone, Fresh
<1>13. Exclusive' /\ OneIndex'
    BY <1>1, <1>3, <1>4, WriteAllLocks DEF Settle
<1>14. ReqOK(r)'
    BY <1>7, <1>8, <1>9, <1>10, <1>11, <1>12 DEF ReqOK
<1> QED
    BY <1>1, <1>13, <1>14, LinksStay DEF Proceeds

\* The primary parent that Settle has found is the one there was, unless the
\* transaction has written a row of its own.
LEMMA FirstKeeps ==
    ASSUME RowsInv, Typed, NEW r \in Requests, req[r].pc = "settle", NEW f \in First(r),
           NEW p \in Linked(r), p # f, Base(r, p) # NoLink, Base(r, p).primary
    PROVE  MakesPrimary(r) \/ MayBeStale(r, p)
<1>0. PICK c \in Projects : req[r].child = c
    BY DEF Typed, Ready
<1>1. f \in Projects /\ p \in Projects
    BY DEF First, PrimaryOf, Linked
<1>2. CASE Own(r, p) = Untouched
    <2>1. p \in PrimaryOf(r)
        BY <1>2 DEF PrimaryOf, Seen, Own, Base
    <2>2. f \in Linked(r) /\ Seen(r, f).primary
        BY <2>1 DEF First, PrimaryOf
    <2>3. CASE Own(r, f) = Untouched
        <3>1. Base(r, f) # NoLink /\ Base(r, f).primary
            BY <2>2, <2>3 DEF Seen, Own, Base, Linked
        <3> QED
            BY <1>0, <1>1, <3>1 DEF RowsInv, OneCommitted, Base
    <2>4. CASE Own(r, f) # Untouched
        <3>1. IsRow(Own(r, f)) /\ Own(r, f).primary
            BY <2>2, <2>4 DEF Seen, Own, Linked, IsRow
        <3> QED
            BY <1>1, <3>1 DEF RowsInv, ReqOK, Alone
    <2> QED
        BY <2>3, <2>4
<1>3. CASE Own(r, p) # Untouched
    <2>1. IsRow(Own(r, p))
        BY <1>3 DEF Linked, Seen, Own, IsRow
    <2>2. CASE Own(r, p).primary
        <3>1. p \in PrimaryOf(r)
            BY <1>3, <2>2 DEF PrimaryOf, Seen, Own
        <3>2. f \in Linked(r) /\ Seen(r, f).primary
            BY <3>1 DEF First, PrimaryOf
        <3>3. Own(r, f) = Untouched
            BY <1>1, <1>3 DEF RowsInv, ReqOK, Shape, Own
        <3>4. Base(r, f) # NoLink /\ Base(r, f).primary
            BY <3>2, <3>3 DEF Seen, Own, Base, Linked
        <3> QED
            BY <1>1, <2>1, <2>2, <3>4 DEF RowsInv, ReqOK, Alone
    <2>3. CASE ~Own(r, p).primary
        BY <1>1, <2>1, <2>3 DEF RowsInv, ReqOK, Keeps, Demotes, Writing
    <2> QED
        BY <2>2, <2>3
<1> QED
    BY <1>2, <1>3

LEMMA SettleRows ==
    ASSUME RowsInv, Typed, NEW r \in Requests, Settle(r)
    PROVE  RowsInv'
<1>1. CASE Linked(r) = {} /\ Goto(r, "head")
    BY <1>1, SettleNothing
<1>2. ASSUME NEW f \in First(r), WritesAll(r, f)
      PROVE  RowsInv'
    <2>0. /\ req[r].pc = "settle" /\ UNCHANGED <<link, scalar>>
          /\ Free(r, Linked(r))
          /\ Linked(r) # {} => IndexFree(r)
        BY DEF Settle
    <2>1. f \in Projects /\ f \in Linked(r)
        BY DEF First, PrimaryOf, Linked
    <2>2. /\ Others(r) /\ Holds(r) /\ req'[r].pc = "head" /\ req'[r].tx = req[r].tx
          /\ req'[r].parent = req[r].parent /\ req'[r].primary = req[r].primary
          /\ \A p \in Linked(r) : IsRow(Own(r, p))' /\ (Own(r, p)').primary = (p = f)
          /\ \A p \in Projects \ Linked(r) : Own(r, p)' = Own(r, p) /\ ~IsRow(Own(r, p))
          /\ Linked(r)' = Linked(r)
        BY <1>2, <2>0, <2>1, WriteAllFields DEF Typed, Ready
    <2>3. \A p \in Projects : Base(r, p)' = Base(r, p)
        BY <2>0, <2>2 DEF Base, Holds
    <2>4. Shape(req[r])'
        <3>1. req[r].tx \in {"add", "source"} => req[r].parent \in Projects /\ IsRow(Own(r, req[r].parent))
            BY <2>0 DEF RowsInv, ReqOK, Shape, Writing, Own, Typed, Ready
        <3>2. req[r].tx \in {"add", "source"} => req[r].parent \in Linked(r)
            BY <3>1 DEF Linked, Seen, Own, IsRow
        <3> QED
            BY <2>0, <2>2, <3>2, HeadShape DEF Own
    <2>5. Deletes(r)'
        BY <2>2, <2>3 DEF RowsInv, ReqOK, Deletes, Removes, Holds, IsRow
    <2>6. Grounded(r)'
        BY <2>0, <2>2, GroundedStays DEF Relies, Holds, Finished
    <2>7. \A p \in Linked(r) : LockedBy(r, p)'
        BY <2>2 DEF LockedBy, Own, IsRow
    <2>8. Excused(r)'
        BY <2>1, <2>7 DEF Excused, EmptyHanded, Blind, NoRows, LockedBy
    <2>9. Settled(r)'
        BY <2>1, <2>2, <2>7 DEF Settled
    <2>10. Keeps(r)'
        <3> SUFFICES ASSUME NEW p \in Projects, Demotes(r, p)'
                     PROVE  MakesPrimary(r)' \/ MayBeStale(r, p)'
            BY DEF Keeps
        <3>1. p \in Linked(r) /\ p # f /\ Base(r, p) # NoLink /\ Base(r, p).primary
            BY <2>2, <2>3 DEF Demotes
        <3>2. MakesPrimary(r) \/ MayBeStale(r, p)
            BY <2>0, <3>1, FirstKeeps
        <3>3. Siblings(r)' = {} => Siblings(r) = {}
            BY <2>0, <2>2, ShakenStays
        <3> QED
            BY <2>2, <3>2, <3>3 DEF MakesPrimary, MayBeStale, Holds
    <2>11. HeadRead(r)' /\ Alone(r)' /\ Fresh(r)'
        BY <2>2 DEF HeadRead, Alone, Fresh
    <2>12. Exclusive' /\ OneIndex'
        BY <2>0, <2>2, WriteAllLocks
    <2>13. ReqOK(r)'
        BY <2>4, <2>5, <2>6, <2>8, <2>9, <2>10, <2>11 DEF ReqOK
    <2> QED
        BY <2>0, <2>2, <2>12, <2>13, LinksStay DEF Proceeds
<1> QED
    BY <1>1, <1>2 DEF Settle, WritesAll

LEMMA ClearAndSetRows ==
    ASSUME RowsInv, Typed, NEW r \in Requests, ClearAndSet(r)
    PROVE  RowsInv'
<1>0. /\ req[r].pc = "clear" /\ UNCHANGED <<link, scalar>> /\ req[r].own = NoRows
      /\ Free(r, Linked(r)) /\ IndexFree(r)
    BY DEF ClearAndSet, Typed, Ready, Writing
<1>1. PICK f \in Projects : req[r].parent = f
    BY <1>0 DEF Typed, Ready
<1>2. /\ Others(r) /\ Holds(r) /\ req'[r].pc = "head" /\ req'[r].tx = req[r].tx
      /\ req'[r].parent = req[r].parent
      /\ \A p \in Linked(r) : IsRow(Own(r, p))' /\ (Own(r, p)').primary = (p = f)
      /\ \A p \in Projects \ Linked(r) : Own(r, p)' = Own(r, p) /\ ~IsRow(Own(r, p))
      /\ Linked(r)' = Linked(r)
    <2>1. WritesAll(r, f)
        BY <1>1 DEF ClearAndSet, WritesAll
    <2>2. req[r].child \in Projects /\ UNCHANGED link
        BY <1>0 DEF Typed, Ready
    <2> QED
        BY <2>1, <2>2, WriteAllFields
<1>3. \A p \in Projects : Base(r, p)' = Base(r, p) /\ Own(r, p) = Untouched
    BY <1>0, <1>2 DEF Base, Holds, Own, NoRows
<1>4. req[r].tx \in {"primary", "addprimary"}
    BY <1>0 DEF RowsInv, ReqOK, Shape
<1>5. Shape(req[r])'
    BY <1>0, <1>2, <1>4, HeadShape
<1>6. Deletes(r)'
    BY <1>2, <1>3, Distinct DEF Deletes, IsRow
<1>7. Grounded(r)'
    BY <1>0, <1>2, GroundedStays DEF Relies, Holds, Finished
<1>8. f \notin Linked(r) => Shaken(r)'
    <2>1. Relies(r)
        BY <1>0, <1>4 DEF RowsInv, ReqOK, Shape, Relies, Finished, AllOps
    <2>2. f \notin Linked(r) => Base(r, req[r].parent) = NoLink
        BY <1>1, <1>3 DEF Linked, Seen, Own, Base
    <2> QED
        BY <1>0, <1>2, <2>1, <2>2, ShakenStays DEF RowsInv, ReqOK, Grounded
<1>9. \A p \in Linked(r) : LockedBy(r, p)' /\ Base(r, p) # NoLink /\ p \in Projects
    BY <1>2, <1>3 DEF LockedBy, Own, IsRow, Linked, Seen, Base
<1>10. Excused(r)'
    BY <1>8, <1>9 DEF Excused, EmptyHanded, Blind, NoRows, LockedBy
<1>11. Settled(r)'
    <2> SUFFICES ASSUME Wrote(r)'
                 PROVE  Linked(r) # {}
        BY <1>2, <1>3, <1>8, <1>9 DEF Settled
    <2>1. req'[r].own \in [Projects -> Row \cup {NoLink, Untouched}]
        BY <1>1, ClearAndSetType DEF ReqTyped, Request
    <2>2. PICK p \in Projects : Own(r, p)' # Untouched
        BY <2>1 DEF Wrote, Blind, NoRows, Own
    <2> QED
        BY <1>2, <1>3, <2>2
<1>12. Keeps(r)' /\ HeadRead(r)' /\ Alone(r)' /\ Fresh(r)'
    BY <1>0, <1>2, <1>4
    DEF Keeps, MakesPrimary, HeadRead, Alone, Fresh, RowsInv, ReqOK, Shape, AllOps, Holds
<1>13. Exclusive' /\ OneIndex'
    BY <1>0, <1>2, WriteAllLocks
<1>14. ReqOK(r)'
    BY <1>5, <1>6, <1>7, <1>10, <1>11, <1>12 DEF ReqOK
<1> QED
    BY <1>0, <1>2, <1>13, <1>14, LinksStay DEF Proceeds

LEMMA ReadHeadRows ==
    ASSUME RowsInv, Typed, NEW r \in Requests, ReadHead(r)
    PROVE  RowsInv'
<1>0. req[r].pc = "head" /\ UNCHANGED <<link, scalar>>
    BY DEF ReadHead
<1>1. PICK h : /\ req' = [req EXCEPT ![r].pc = "commit", ![r].head = h]
               /\ (Linked(r) = {} /\ h = None) \/ h \in First(r)
    BY DEF ReadHead
<1>2. /\ Others(r) /\ Holds(r) /\ req'[r].pc = "commit" /\ req'[r].tx = req[r].tx
      /\ req'[r].parent = req[r].parent /\ req'[r].own = req[r].own /\ req'[r].head = h
      /\ req'[r].primary = req[r].primary
    BY <1>1 DEF Others, Holds, Typed, TypeOK, Request
<1>3. \A p \in Projects : Own(r, p)' = Own(r, p) /\ Base(r, p)' = Base(r, p)
    BY <1>0, <1>2 DEF Own, Base, Holds
<1>4. /\ Linked(r)' = Linked(r) /\ (Wrote(r)' <=> Wrote(r))
      /\ \A p \in Projects : LockedBy(r, p)' <=> LockedBy(r, p)
    BY <1>0, <1>2 DEF Linked, Seen, Holds, Wrote, Blind, LockedBy
<1>5. Shape(req[r])'
    BY <1>0, <1>2 DEF RowsInv, ReqOK, Shape, Holds, Writing
<1>6. Deletes(r)'
    BY <1>2, <1>3 DEF RowsInv, ReqOK, Deletes, Removes, Holds
<1>7. Grounded(r)'
    BY <1>0, <1>2, GroundedStays DEF Relies, Holds, Finished
<1>8. /\ Shaken(r) => Shaken(r)'
      /\ Siblings(r)' = {} => Siblings(r) = {}
    BY <1>0, <1>2, ShakenStays
<1>9. Excused(r)'
    BY <1>0, <1>2, <1>8 DEF RowsInv, ReqOK, Excused, EmptyHanded, Blind, Holds
<1>4a. Linked(r) \subseteq Projects
    BY DEF Linked
<1>10. Settled(r)'
    BY <1>3, <1>4, <1>4a, <1>8 DEF RowsInv, ReqOK, Settled, IsRow
<1>11. HeadRead(r)'
    <2> SUFFICES ASSUME Wrote(r), ~Shaken(r), ~(Linked(r) = {} /\ h = None)
                 PROVE  h \in Linked(r) /\ Own(r, h)'.primary
        <3>1. CASE ~Wrote(r)
            BY <1>4, <3>1 DEF HeadRead
        <3>2. CASE Wrote(r) /\ Linked(r) = {} /\ h = None
            BY <1>2, <1>4, <3>2 DEF HeadRead
        <3>3. CASE Wrote(r) /\ Shaken(r) /\ h \in First(r)
            <4>1. h \in Linked(r)
                BY <3>3 DEF First, PrimaryOf
            <4> QED
                BY <1>2, <1>4, <1>8, <3>3, <4>1 DEF HeadRead
        <3>4. CASE Wrote(r) /\ ~Shaken(r) /\ h \in First(r)
            BY <1>2, <1>4, <3>4 DEF HeadRead, Own, First, PrimaryOf
        <3> QED
            BY <1>1, <3>1, <3>2, <3>3, <3>4
    <2>1. h \in First(r) /\ h \in Linked(r) /\ h \in Projects
        BY <1>1 DEF First, PrimaryOf, Linked
    <2>2. PICK p \in Linked(r) : Own(r, p).primary /\ LockedBy(r, p)
        BY <2>1 DEF RowsInv, ReqOK, Settled
    <2>3. p \in PrimaryOf(r)
        BY <2>2 DEF PrimaryOf, Seen, LockedBy, Own
    <2>4. Seen(r, h).primary /\ LockedBy(r, h)
        BY <2>1, <2>3 DEF First, PrimaryOf, RowsInv, ReqOK, Settled
    <2> QED
        BY <1>3, <2>1, <2>4 DEF Seen, LockedBy, Own
<1>12. Keeps(r)'
    <2> SUFFICES ASSUME NEW p \in Projects, Demotes(r, p)'
                 PROVE  MakesPrimary(r)' \/ MayBeStale(r, p)'
        BY DEF Keeps
    <2>1. Demotes(r, p)
        BY <1>0, <1>3 DEF Demotes, Writing
    <2>2. MakesPrimary(r) \/ MayBeStale(r, p)
        BY <2>1 DEF RowsInv, ReqOK, Keeps
    <2> QED
        BY <1>2, <1>8, <2>2 DEF MakesPrimary, MayBeStale, Holds
<1>13. Alone(r)' /\ Fresh(r)'
    BY <1>2 DEF Alone, Fresh
<1>14. Exclusive' /\ OneIndex'
    <2>1. Exclusive'
        BY <1>2, <1>4 DEF RowsInv, Exclusive, LockedBy, Others, Holds
    <2>2. OneIndex'
        BY <1>2, <1>3 DEF RowsInv, OneIndex, Own, Others, Holds
    <2> QED
        BY <2>1, <2>2
<1>15. ReqOK(r)'
    BY <1>5, <1>6, <1>7, <1>9, <1>10, <1>11, <1>12, <1>13 DEF ReqOK
<1> QED
    BY <1>0, <1>2, <1>14, <1>15, LinksStay DEF Proceeds

-----------------------------------------------------------------------------
(* The steps that change committed rows.                                   *)

\* Of two transactions of a child only one has got past its settling: the other
\* would hold a row that this one has locked, or a second primary row.
LEMMA OneWriter ==
    ASSUME RowsInv, Typed, NEW r \in Requests, NEW q \in Requests \ {r}, req[q].child = req[r].child,
           Wrote(r), Wrote(q)
    PROVE  FALSE
<1>1. ASSUME NEW a \in Requests, NEW b \in Requests \ {a}, req[b].child = req[a].child, Wrote(b),
             NEW p \in Projects, LockedBy(a, p), Base(a, p) # NoLink
      PROVE  FALSE
    <2>1. ~LockedBy(b, p)
        BY <1>1 DEF RowsInv, Exclusive
    <2>2. p \in Linked(b)
        BY <1>1, <2>1 DEF Linked, Seen, LockedBy, Base
    <2> QED
        BY <1>1, <2>1, <2>2 DEF RowsInv, ReqOK, Settled
<1>2. PICK p \in Projects : IsRow(Own(r, p)) /\ Own(r, p).primary
    BY <1>1 DEF RowsInv, ReqOK, Settled
<1>3. PICK s \in Projects : IsRow(Own(q, s)) /\ Own(q, s).primary
    BY <1>1 DEF RowsInv, ReqOK, Settled
<1> QED
    BY <1>2, <1>3 DEF RowsInv, OneIndex

\* What the others of the same child rely on.
LEMMA SiblingOK ==
    ASSUME RowsInv, Typed, NEW r \in Requests, Others(r), Holds(r), req[r].pc # "idle",
           NEW q \in Requests \ {r}, req[q].child = req[r].child, ~Wrote(q),
           \A p \in Projects : LockedBy(q, p) => Base(q, p)' = Base(q, p),
           \A p \in Projects : Base(q, p) # NoLink /\ Base(q, p)' = NoLink => Removes(r, p),
           \A f, p \in Projects :
             /\ IsRow(Own(q, f)) /\ Own(q, f).primary
             /\ Base(q, p)' # NoLink /\ (Base(q, p)').primary
             => Base(q, p) # NoLink /\ Base(q, p).primary
    PROVE  ReqOK(q)'
<1>0. PICK c \in Projects : req[r].child = c /\ req[q].child = c /\ req'[r].child = c
    BY DEF Typed, Ready, Holds
<1>1. req'[q] = req[q] /\ req[q].pc # "idle"
    BY <1>0, InheritanceAssumption, InvShape DEF Others, AllShape, Shape
<1>2. req[q].parent \in Projects
    BY <1>1 DEF Typed, Ready
<1>3. Shaken(q) => Shaken(q)'
    BY <1>0, <1>1, InvShape, Monotone DEF Shaken, Proceeds
<1>4. Shape(req[q])'
    BY <1>1 DEF RowsInv, ReqOK
<1>5. Deletes(q)'
    <2> SUFFICES ASSUME NEW p \in Projects, Own(q, p) = NoLink
                 PROVE  Base(q, p)' # NoLink /\ Removes(q, p)'
        BY <1>1 DEF Deletes, Own
    <2>1. LockedBy(q, p)
        BY Distinct DEF LockedBy, Own
    <2> QED
        BY <1>1, <2>1 DEF RowsInv, ReqOK, Deletes, Removes
<1>6. Grounded(q)'
    <2> SUFFICES ASSUME Relies(q), Base(q, req[q].parent)' = NoLink
                 PROVE  Shaken(q)
        BY <1>1, <1>3 DEF Grounded, Relies
    <2>1. PICK p \in Projects : p = req[q].parent
        BY <1>2
    <2>1a. Base(q, p)' = NoLink /\ Base(q, req[q].parent) = Base(q, p)
        BY <1>1, <2>1 DEF Base
    <2>2. CASE Base(q, p) = NoLink
        BY <2>1, <2>1a, <2>2 DEF RowsInv, ReqOK, Grounded
    <2>3. CASE Base(q, p) # NoLink
        <3>1. Removes(r, p)
            BY <2>1a, <2>3
        <3>2. req[q].op \in {"create", "delete", "primary", "reorder"}
            BY <1>1 DEF RowsInv, ReqOK, Shape, Relies, AllOps
        <3> QED
            BY <1>0, <2>1, <3>1, <3>2 DEF Shaken, Undercut
    <2> QED
        BY <2>2, <2>3
<1>7. Excused(q)' /\ Settled(q)' /\ HeadRead(q)'
    BY <1>1, <1>3
    DEF RowsInv, ReqOK, Excused, EmptyHanded, Blind, Settled, HeadRead, Wrote
<1>8. Siblings(q)' # {}
    BY <1>0, <1>1 DEF Siblings
<1>9. Keeps(q)'
    <2> SUFFICES ASSUME NEW p \in Projects, Demotes(q, p)'
                 PROVE  MakesPrimary(q)' \/ MayBeStale(q, p)'
        BY DEF Keeps
    <2>1. LockedBy(q, p)
        BY <1>1 DEF Demotes, IsRow, Own, LockedBy
    <2>2. Demotes(q, p)
        BY <1>1, <2>1 DEF Demotes, Own
    <2>3. MakesPrimary(q) \/ MayBeStale(q, p)
        BY <2>2 DEF RowsInv, ReqOK, Keeps
    <2> QED
        BY <1>1, <1>8, <2>3 DEF MakesPrimary, MayBeStale
<1>10. Alone(q)'
    BY <1>1 DEF RowsInv, ReqOK, Alone, Own
<1>11. Fresh(q)'
    BY <1>8 DEF Fresh
<1> QED
    BY <1>4, <1>5, <1>6, <1>7, <1>9, <1>10, <1>11 DEF ReqOK

\* A step of r that changes committed rows, and leaves r without any of its own.
LEMMA LinksChange ==
    ASSUME RowsInv, Typed, NEW r \in Requests, Others(r), Holds(r), Rests(r), Shape(req[r])',
           req'[r].pc # "insert", Grounded(r)', req[r].pc # "idle",
           \A q \in Requests \ {r} : SameRows(q) \/ ReqOK(q)',
           OneCommitted', ParentsAgree'
    PROVE  RowsInv'
<1>1. \A p \in Projects : req'[r].own[p] = Untouched
    BY DEF Rests, NoRows
<1>2. ReqOK(r)'
    BY <1>1, Distinct
    DEF ReqOK, Rests, Deletes, Excused, EmptyHanded, Settled, Wrote, HeadRead, Keeps, Demotes, Alone,
        Fresh, Own, IsRow
<1>3. Exclusive'
    BY <1>1 DEF RowsInv, Exclusive, LockedBy, Others
<1>4. OneIndex'
    BY <1>1 DEF RowsInv, OneIndex, Own, IsRow, Others
<1>5. \A q \in Requests \ {r} : ReqOK(q)'
    BY BystanderOK, InvShape DEF RowsInv, Proceeds
<1> QED
    BY <1>2, <1>3, <1>4, <1>5 DEF RowsInv

\* What is said of a child whose links and scalar parent stay.
LEMMA ChildStays ==
    ASSUME RowsInv, Typed, NEW r \in Requests, Others(r), Holds(r), NEW c \in Projects,
           \A p \in Projects :
             /\ link'[<<c, p>>] = NoLink <=> link[<<c, p>>] = NoLink
             /\ link[<<c, p>>] # NoLink => link'[<<c, p>>].primary = link[<<c, p>>].primary,
           ~Undercut(c)'
    PROVE  /\ OnePrimaryOf(c)'
           /\ scalar'[c] = scalar[c] /\ ~WritesScalar(c)' => ScalarFollows(c)'
<1>1. ~Undercut(c) /\ (WritesScalar(c) => WritesScalar(c)')
    BY InvShape, Monotone DEF Proceeds
<1>2. OnePrimaryOf(c) /\ (~WritesScalar(c)' => ScalarFollows(c))
    BY <1>1 DEF RowsInv, ParentsAgree
<1>3. ParentsOf(c)' = ParentsOf(c)
    BY DEF ParentsOf
<1>4. OnePrimaryOf(c)'
    BY <1>2, <1>3 DEF OnePrimaryOf, ParentsOf
<1>5. scalar'[c] = scalar[c] /\ ScalarFollows(c) => ScalarFollows(c)'
    BY <1>3 DEF ScalarFollows, ParentsOf
<1> QED
    BY <1>2, <1>4, <1>5

LEMMA ApplyRepinsRows ==
    ASSUME RowsInv, Typed, NEW r \in Requests, ApplyRepins(r)
    PROVE  RowsInv'
<1>1. /\ Others(r) /\ Holds(r) /\ req'[r].pc = "done" /\ req'[r].own = NoRows
      /\ req'[r].tx = req[r].tx /\ req[r].pc = "move" /\ scalar' = scalar
    BY DoneFields DEF ApplyRepins
<1>2. \A e \in Pairs :
        /\ link'[e] = NoLink <=> link[e] = NoLink
        /\ link[e] # NoLink => link'[e].primary = link[e].primary
    <2> SUFFICES ASSUME NEW e \in Pairs
                 PROVE  /\ link'[e] = NoLink <=> link[e] = NoLink
                        /\ link[e] # NoLink => link'[e].primary = link[e].primary
        OBVIOUS
    <2>1. link'[e] = NoLink <=> link[e] = NoLink
        BY ApplyRepinsLinks
    <2>2. link[e] # NoLink => link[e] \in Row
        BY DEF Typed, TypeOK
    <2>3. link'[e] = link[e] \/ link'[e] = [link[e] EXCEPT !.source = req[r].source]
        BY DEF ApplyRepins
    <2> QED
        BY <2>1, <2>2, <2>3 DEF Row
<1>3. \A c, p \in Projects :
        /\ link'[<<c, p>>] = NoLink <=> link[<<c, p>>] = NoLink
        /\ link[<<c, p>>] # NoLink => link'[<<c, p>>].primary = link[<<c, p>>].primary
    BY <1>2 DEF Pairs
<1>4. \A q \in Requests \ {r} : SameRows(q) \/ ReqOK(q)'
    <2> SUFFICES ASSUME NEW q \in Requests \ {r}
                 PROVE  SameRows(q) \/ ReqOK(q)'
        OBVIOUS
    <2>0. req'[q] = req[q]
        BY <1>1 DEF Others
    <2>1. CASE req[q].pc # "idle"
        BY <1>3, <2>0, <2>1 DEF SameRows, Base, Typed, Ready
    <2>2. CASE req[q].pc = "idle"
        BY <2>0, <2>2, Distinct
        DEF ReqOK, Deletes, Grounded, Relies, Finished, Excused, EmptyHanded, Settled, Wrote, HeadRead,
            Keeps, Demotes, Writing, Alone, Fresh, Own, Typed, Ready, NoRows, RowsInv
    <2> QED
        BY <2>1, <2>2
<1>5. OneCommitted'
    BY <1>3 DEF RowsInv, OneCommitted
<1>6. ParentsAgree'
    BY <1>1, <1>3, ChildStays DEF ParentsAgree
<1>7. Shape(req[r])' /\ ~Relies(r)'
    BY <1>1 DEF RowsInv, ReqOK, Shape, Holds, Writing, Relies, Finished
<1> QED
    BY <1>1, <1>4, <1>5, <1>6, <1>7, LinksChange DEF Rests, Grounded

\* What a commit does to the request, and to the rows of its child.
LEMMA CommitFields ==
    ASSUME RowsInv, Typed, NEW r \in Requests, Commit(r)
    PROVE  /\ Others(r) /\ Holds(r) /\ req'[r].own = NoRows /\ req'[r].parent = req[r].parent
           /\ \/ req'[r].pc = "done" /\ req'[r].tx = req[r].tx
              \/ req'[r].pc = "exists" /\ req[r].tx = "add" /\ req'[r].tx = "addprimary"
              \/ req'[r].pc = "copy" /\ req[r].tx \in {"add", "addprimary"} /\ req'[r].tx = req[r].tx
              \/ req'[r].pc = "next" /\ req[r].tx = "sync" /\ req'[r].tx = req[r].tx
              \/ req'[r].pc = "children" /\ req[r].tx = "ontology" /\ req'[r].tx = req[r].tx
           /\ \A p \in Projects : Base(r, p)' = Seen(r, p)
           /\ \A c, p \in Projects : c # req[r].child => link'[<<c, p>>] = link[<<c, p>>]
           /\ scalar' = [scalar EXCEPT ![req[r].child] = req[r].head]
           /\ req[r].pc = "commit" /\ req[r].child \in Projects
<1>0. /\ req[r].pc = "commit" /\ req[r].child \in Projects
      /\ scalar' = [scalar EXCEPT ![req[r].child] = req[r].head]
    BY DEF Commit, Typed, Ready
<1>1. /\ Others(r) /\ Holds(r) /\ req'[r].own = NoRows /\ req'[r].parent = req[r].parent
      /\ \/ req'[r].pc = "done" /\ req'[r].tx = req[r].tx
         \/ req'[r].pc = "exists" /\ req[r].tx = "add" /\ req'[r].tx = "addprimary"
         \/ req'[r].pc = "copy" /\ req[r].tx \in {"add", "addprimary"} /\ req'[r].tx = req[r].tx
         \/ req'[r].pc = "next" /\ req[r].tx = "sync" /\ req'[r].tx = req[r].tx
         \/ req'[r].pc = "children" /\ req[r].tx = "ontology" /\ req'[r].tx = req[r].tx
    <2>1. CASE NextStep(r) = "done"
        BY <2>1, DoneFields DEF Commit
    <2>2. CASE NextStep(r) # "done"
        <3>1. req' = [req EXCEPT ![r].pc = NextStep(r), ![r].own = NoRows,
                                 ![r].head = IF NextStep(r) = "children" THEN @ ELSE None,
                                 ![r].tx = IF NextStep(r) = "exists" THEN "addprimary" ELSE @]
            BY <2>2 DEF Commit
        <3>2. \/ NextStep(r) = "exists" /\ req[r].tx = "add"
              \/ NextStep(r) = "copy" /\ req[r].tx \in {"add", "addprimary"}
              \/ NextStep(r) = "next" /\ req[r].tx = "sync"
              \/ NextStep(r) = "children" /\ req[r].tx = "ontology"
            BY <2>2 DEF NextStep
        <3>3. /\ Others(r) /\ req'[r].op = req[r].op /\ req'[r].child = req[r].child
              /\ req'[r].parent = req[r].parent /\ req'[r].own = NoRows /\ req'[r].pc = NextStep(r)
              /\ req'[r].tx = IF NextStep(r) = "exists" THEN "addprimary" ELSE req[r].tx
            BY <3>1 DEF Typed, TypeOK, Request, Others
        <3> QED
            BY <3>2, <3>3 DEF Holds
    <2> QED
        BY <2>1, <2>2
<1>2. \A c, p \in Projects :
        link'[<<c, p>>] = IF c = req[r].child THEN Seen(r, p) ELSE link[<<c, p>>]
    BY DEF Commit, Pairs
<1>3. \A p \in Projects : Base(r, p)' = Seen(r, p)
    BY <1>0, <1>1, <1>2 DEF Base, Holds
<1> QED
    BY <1>0, <1>1, <1>2, <1>3

\* The other requests after a commit.
LEMMA CommitOthers ==
    ASSUME RowsInv, Typed, NEW r \in Requests, Commit(r), NEW q \in Requests \ {r}
    PROVE  SameRows(q) \/ ReqOK(q)'
<1>0. /\ Others(r) /\ Holds(r) /\ req[r].pc = "commit" /\ req[r].child \in Projects
      /\ \A p \in Projects : link'[<<req[r].child, p>>] = Seen(r, p)
      /\ \A c, p \in Projects : c # req[r].child => link'[<<c, p>>] = link[<<c, p>>]
    BY CommitFields DEF Base, Holds
<1>0a. req'[q] = req[q]
    BY <1>0 DEF Others
<1>1. CASE req[q].child # req[r].child /\ req[q].child \in Projects
    BY <1>0, <1>0a, <1>1 DEF SameRows, Base
<1>2. CASE req[q].child = req[r].child /\ Blind(r)
    <2>1. \A p \in Projects : link'[<<req[q].child, p>>] = link[<<req[q].child, p>>]
        BY <1>0, <1>2 DEF Seen, Blind, NoRows
    <2> QED
        BY <1>0a, <2>1 DEF SameRows, Base
<1>3. CASE req[q].child = req[r].child /\ ~Blind(r)
    <2>1. Wrote(r)
        BY <1>0, <1>3 DEF Wrote
    <2>2. ~Wrote(q)
        BY <1>3, <2>1, OneWriter
    <2>3. \A p \in Projects : Base(q, p)' = Seen(r, p) /\ Base(q, p) = Base(r, p)
        BY <1>0, <1>0a, <1>3 DEF Base
    <2>4. \A p \in Projects : LockedBy(q, p) => Base(q, p)' = Base(q, p)
        <3> SUFFICES ASSUME NEW p \in Projects, LockedBy(q, p)
                     PROVE  Seen(r, p) = Base(r, p)
            BY <2>3
        <3>1. ~LockedBy(r, p)
            BY <1>3 DEF RowsInv, Exclusive
        <3> QED
            BY <3>1 DEF Seen, LockedBy, Base
    <2>5. \A p \in Projects : Base(q, p) # NoLink /\ Base(q, p)' = NoLink => Removes(r, p)
        <3> SUFFICES ASSUME NEW p \in Projects, Base(r, p) # NoLink, Seen(r, p) = NoLink
                     PROVE  Removes(r, p)
            BY <2>3
        <3>1. Own(r, p) = NoLink
            BY DEF Seen, Base, Own
        <3> QED
            BY <3>1 DEF RowsInv, ReqOK, Deletes
    <2>6. \A f, p \in Projects :
             /\ IsRow(Own(q, f)) /\ Own(q, f).primary
             /\ Base(q, p)' # NoLink /\ (Base(q, p)').primary
             => Base(q, p) # NoLink /\ Base(q, p).primary
        <3> SUFFICES ASSUME NEW f \in Projects, NEW p \in Projects,
                            IsRow(Own(q, f)), Own(q, f).primary,
                            Seen(r, p) # NoLink, Seen(r, p).primary
                     PROVE  Base(r, p) # NoLink /\ Base(r, p).primary
            BY <2>3
        <3>1. CASE LockedBy(r, p)
            <4>1. IsRow(Own(r, p)) /\ Own(r, p).primary
                BY <3>1 DEF Seen, LockedBy, Own, IsRow
            <4> QED
                BY <1>3, <4>1 DEF RowsInv, OneIndex
        <3>2. CASE ~LockedBy(r, p)
            BY <3>2 DEF Seen, LockedBy, Base
        <3> QED
            BY <3>1, <3>2
    <2> QED
        BY <1>0, <1>3, <2>2, <2>4, <2>5, <2>6, SiblingOK
<1>4. CASE req[q].pc = "idle"
    BY <1>0a, <1>4, Distinct
    DEF ReqOK, Deletes, Grounded, Relies, Finished, Excused, EmptyHanded, Settled, Wrote, HeadRead,
        Keeps, Demotes, Writing, Alone, Fresh, Own, Typed, Ready, NoRows, RowsInv
<1> QED
    BY <1>1, <1>2, <1>3, <1>4 DEF Typed, Ready

\* What a commit leaves: one primary row, and the scalar column beside it.
LEMMA CommitAgrees ==
    ASSUME RowsInv, Typed, NEW r \in Requests, Commit(r)
    PROVE  OneCommitted' /\ ParentsAgree'
<1>0. /\ Others(r) /\ Holds(r) /\ req[r].pc = "commit"
      /\ \A p \in Projects : link'[<<req[r].child, p>>] = Seen(r, p)
      /\ \A c, p \in Projects : c # req[r].child => link'[<<c, p>>] = link[<<c, p>>]
      /\ scalar' = [scalar EXCEPT ![req[r].child] = req[r].head]
    BY CommitFields DEF Base, Holds
<1>1. PICK d \in Projects : req[r].child = d
    BY CommitFields
<1>2. Blind(r) => \A p \in Projects : link'[<<d, p>>] = link[<<d, p>>]
    BY <1>0, <1>1 DEF Seen, Blind, NoRows
<1>3. ~Blind(r) => Wrote(r)
    BY <1>0 DEF Wrote
<1>4. ~Blind(r) => \A p \in Projects :
        /\ link'[<<d, p>>] # NoLink <=> p \in Linked(r)
        /\ p \in Linked(r) => IsRow(Own(r, p)) /\ link'[<<d, p>>] = Own(r, p)
    <2>1. \A p \in Projects : link'[<<d, p>>] # NoLink <=> p \in Linked(r)
        BY <1>0, <1>1 DEF Linked
    <2>2. ASSUME ~Blind(r), NEW p \in Projects, p \in Linked(r)
          PROVE  IsRow(Own(r, p)) /\ link'[<<d, p>>] = Own(r, p)
        <3>1. LockedBy(r, p) /\ Seen(r, p) # NoLink
            BY <1>3, <2>2 DEF RowsInv, ReqOK, Settled, Linked
        <3> QED
            BY <1>0, <1>1, <3>1 DEF LockedBy, Seen, Own, IsRow
    <2> QED
        BY <2>1, <2>2
<1>5. OneCommitted'
    <2> SUFFICES ASSUME NEW c \in Projects, NEW p \in Projects, NEW q \in Projects,
                        link'[<<c, p>>] # NoLink, link'[<<c, p>>].primary,
                        link'[<<c, q>>] # NoLink, link'[<<c, q>>].primary
                 PROVE  p = q
        BY DEF OneCommitted
    <2>1. CASE c # d \/ Blind(r)
        BY <1>0, <1>1, <1>2, <2>1 DEF RowsInv, OneCommitted
    <2>2. CASE c = d /\ ~Blind(r)
        BY <1>3, <1>4, <2>2 DEF RowsInv, ReqOK, Settled
    <2> QED
        BY <2>1, <2>2
<1>6. ASSUME NEW c \in Projects, ~Undercut(c)'
      PROVE  OnePrimaryOf(c)' /\ (~WritesScalar(c)' => ScalarFollows(c)')
    <2>1. ~Undercut(c)
        BY <1>0, <1>6, InvShape, Monotone DEF Proceeds
    <2>2. CASE c # d
        <3>1. scalar'[c] = scalar[c]
            BY <1>0, <1>1, <2>2 DEF Typed, TypeOK
        <3> QED
            BY <1>0, <1>1, <1>6, <2>2, <3>1, ChildStays
    <2>3. CASE c = d /\ Blind(r)
        <3>1. OnePrimaryOf(c)'
            BY <1>0, <1>2, <1>6, <2>3, ChildStays
        <3>2. ~Shaken(r)
            BY <1>1, <2>1, <2>3 DEF Shaken
        <3>3. req[r].op = "ontology"
            BY <1>0, <2>3, <3>2 DEF RowsInv, ReqOK, Excused, EmptyHanded
        <3>4. WritesScalar(c)'
            BY <1>0, <1>1, <2>3, <3>3 DEF WritesScalar, Holds
        <3> QED
            BY <3>1, <3>4
    <2>4. CASE c = d /\ ~Blind(r)
        <3>1. ~Shaken(r)
            BY <1>1, <2>1, <2>4 DEF Shaken
        <3>2. ParentsOf(c)' = Linked(r)
            BY <1>4, <2>4 DEF ParentsOf, Linked
        <3>3. OnePrimaryOf(c)'
            <4> SUFFICES ASSUME Linked(r) # {}
                         PROVE  \E p \in Linked(r) : \A q \in Linked(r) : link'[<<c, q>>].primary <=> q = p
                BY <3>2 DEF OnePrimaryOf
            <4>1. PICK p \in Linked(r) : Own(r, p).primary
                BY <1>3, <2>4, <3>1 DEF RowsInv, ReqOK, Settled
            <4>2. Linked(r) \subseteq Projects
                BY DEF Linked
            <4>3. \A q \in Linked(r) : Own(r, q).primary => q = p
                BY <1>3, <1>4, <2>4, <4>1, <4>2 DEF RowsInv, ReqOK, Settled
            <4> QED
                BY <1>4, <2>4, <4>1, <4>2, <4>3
        <3>4. ScalarFollows(c)'
            <4>1. scalar'[c] = req[r].head
                BY <1>0, <1>1, <2>4 DEF Typed, TypeOK
            <4>2. CASE Linked(r) = {} /\ req[r].head = None
                BY <3>2, <4>1, <4>2 DEF ScalarFollows
            <4>3. CASE req[r].head \in Linked(r) /\ Own(r, req[r].head).primary
                <5>1. req[r].head \in Projects
                    BY <4>3 DEF Linked
                <5>2. link'[<<c, req[r].head>>].primary
                    BY <1>4, <2>4, <4>3, <5>1
                <5> QED
                    BY <3>2, <4>1, <4>3, <5>2 DEF ScalarFollows
            <4> QED
                BY <1>0, <1>3, <2>4, <3>1, <4>2, <4>3 DEF RowsInv, ReqOK, HeadRead
        <3> QED
            BY <3>3, <3>4
    <2> QED
        BY <2>2, <2>3, <2>4
<1> QED
    BY <1>5, <1>6 DEF ParentsAgree

LEMMA CommitRows ==
    ASSUME RowsInv, Typed, NEW r \in Requests, Commit(r)
    PROVE  RowsInv'
<1>0. /\ Others(r) /\ Holds(r) /\ req'[r].own = NoRows /\ req'[r].parent = req[r].parent
      /\ \/ req'[r].pc = "done" /\ req'[r].tx = req[r].tx
         \/ req'[r].pc = "exists" /\ req[r].tx = "add" /\ req'[r].tx = "addprimary"
         \/ req'[r].pc = "copy" /\ req[r].tx \in {"add", "addprimary"} /\ req'[r].tx = req[r].tx
         \/ req'[r].pc = "next" /\ req[r].tx = "sync" /\ req'[r].tx = req[r].tx
         \/ req'[r].pc = "children" /\ req[r].tx = "ontology" /\ req'[r].tx = req[r].tx
      /\ \A p \in Projects : Base(r, p)' = Seen(r, p)
      /\ req[r].pc = "commit"
    BY CommitFields
<1>1. req[r].op \in AllOps /\ Shape(req[r])
    BY <1>0 DEF RowsInv, ReqOK, Shape
<1>2. Shape(req[r])'
    BY <1>0, <1>1 DEF Shape, Holds, Writing, AllOps
<1>3. Rests(r) /\ req'[r].pc # "insert"
    BY <1>0 DEF Rests
<1>4. Grounded(r)'
    <2> SUFFICES ASSUME Relies(r)', Base(r, req[r].parent)' = NoLink
                 PROVE  Shaken(r)'
        BY DEF Grounded
    <2>1. PICK p \in Projects : req[r].parent = p
        BY <1>0 DEF Typed, Ready
    <2>2. Seen(r, p) = NoLink
        BY <1>0, <2>1 DEF Base
    <2>3. req[r].tx \in {"add", "addprimary"} /\ req[r].op = "create"
        BY <1>0, <1>1 DEF Relies, Shape, Holds, AllOps, Finished
    <2>4. req[r].tx = "addprimary" /\ Own(r, p) # NoLink
        <3>1. Own(r, p) = NoLink => Removes(r, p)
            BY DEF RowsInv, ReqOK, Deletes
        <3>2. Own(r, p) # NoLink
            BY <2>3, <3>1 DEF Removes
        <3>3. req[r].tx # "add"
            BY <1>0, <1>1, <2>1, <2>2 DEF Shape, Writing, Seen, Own, IsRow
        <3> QED
            BY <2>3, <3>2, <3>3
    <2>5. Base(r, p) = NoLink
        BY <2>2, <2>4 DEF Seen, Own, Base
    <2>6. Shaken(r)
        BY <1>0, <2>1, <2>4, <2>5 DEF RowsInv, ReqOK, Grounded, Relies, Finished
    <2> QED
        BY <1>0, <2>6, InvShape, Monotone DEF Shaken, Holds, Proceeds
<1>5. \A q \in Requests \ {r} : SameRows(q) \/ ReqOK(q)'
    BY CommitOthers
<1> QED
    BY <1>0, <1>2, <1>3, <1>4, <1>5, CommitAgrees, LinksChange

LEMMA NewRow == [primary |-> TRUE, source |-> Draft] \in Row
BY DEF Row, Sources

\* syncProjectPrimaryInheritance writes a row only where there is none, and
\* waits for whoever has a primary row of the same child.
LEMMA SeedRows ==
    ASSUME RowsInv, Typed, NEW r \in Requests, req[r].pc = "update", NEW p \in Projects,
           Seeds(r), Free(r, {p}), IndexFree(r), UNCHANGED <<link, scalar>>,
           NEW row \in Row, IsRow(row), row.primary,
           Others(r), Holds(r), req'[r].pc = "commit", req'[r].tx = req[r].tx,
           req'[r].head = p, req'[r].own = [NoRows EXCEPT ![p] = row]
    PROVE  RowsInv'
<1>3. req[r].own = NoRows
    BY DEF Typed, Ready, Writing
<1>4. /\ Others(r) /\ Holds(r) /\ req'[r].pc = "commit" /\ req'[r].tx = req[r].tx
      /\ req'[r].op = req[r].op /\ req'[r].head = p
      /\ \A x \in Projects : req'[r].own[x] = IF x = p THEN row ELSE Untouched
    BY DEF NoRows, Holds
<1>5. \A x \in Projects : Base(r, x) = NoLink /\ Base(r, x)' = NoLink
    <2>1. \A x \in Projects : link[<<req[r].child, x>>] = NoLink
        BY <1>3 DEF Seeds, Linked, Seen, NoRows
    <2> QED
        BY <1>4, <2>1 DEF Base, Holds
<1>6. \A x \in Projects : Own(r, x)' = IF x = p THEN row ELSE Untouched
    BY <1>4 DEF Own
<1>7. Linked(r)' = {p}
    <2>1. \A x \in Projects : Seen(r, x)' = IF x = p THEN row ELSE NoLink
        BY <1>5, <1>6, Distinct DEF Seen, Own, Base
    <2> QED
        BY <2>1, Distinct DEF Linked
<1>8. /\ req[r].op \in {"ontology", "general"} /\ req[r].tx = req[r].op
      /\ req'[r].op \in AllOps
    BY <1>4 DEF RowsInv, ReqOK, Shape, AllOps, Typed, TypeOK, Request
<1>9. Shape(req[r])'
    BY <1>4, <1>8 DEF Shape, Writing
<1>10. Deletes(r)' /\ Grounded(r)' /\ Excused(r)'
    BY <1>4, <1>6, <1>8, Distinct
    DEF Deletes, Grounded, Relies, Excused, EmptyHanded, Blind, NoRows, Own, IsRow
<1>11. Settled(r)' /\ HeadRead(r)'
    BY <1>4, <1>6, <1>7, Distinct DEF Settled, HeadRead, Wrote, LockedBy, Own, IsRow
<1>12. Keeps(r)' /\ Alone(r)' /\ Fresh(r)'
    <2>1. Keeps(r)'
        BY <1>5 DEF Keeps, Demotes
    <2> QED
        BY <1>4, <2>1 DEF Alone, Fresh
<1>13. Exclusive'
    <2>1. \A q \in Requests \ {r} : req'[q].child = req'[r].child => ~LockedBy(q, p)
        BY <1>4 DEF Free, Siblings, Others, Holds
    <2>2. \A x \in Projects : LockedBy(r, x)' => x = p
        BY <1>4 DEF LockedBy
    <2>3. \A q \in Requests \ {r} : \A x \in Projects : LockedBy(q, x)' = LockedBy(q, x)
        BY <1>4 DEF LockedBy, Others
    <2>4. \A a, b \in Requests \ {r} : (req'[a].child = req'[b].child) <=> req[a].child = req[b].child
        BY <1>4 DEF Others
    <2> QED
        BY <2>1, <2>2, <2>3, <2>4 DEF RowsInv, Exclusive
<1>14. OneIndex'
    <2>1. \A q \in Siblings(r) : \A x \in Projects : ~(IsRow(Own(q, x)) /\ Own(q, x).primary)
        BY DEF IndexFree, HoldsPrimary, LockedBy, Own, IsRow
    <2>2. \A q \in Requests \ {r} : req'[q].child = req'[r].child => q \in Siblings(r)
        BY <1>4 DEF Others, Holds, Siblings
    <2>3. \A q \in Requests \ {r} : \A x \in Projects : Own(q, x)' = Own(q, x)
        BY <1>4 DEF Others, Own
    <2>4. \A a, b \in Requests \ {r} : (req'[a].child = req'[b].child) <=> req[a].child = req[b].child
        BY <1>4 DEF Others
    <2> QED
        BY <2>1, <2>2, <2>3, <2>4 DEF RowsInv, OneIndex
<1>15. ReqOK(r)'
    BY <1>9, <1>10, <1>11, <1>12 DEF ReqOK
<1> QED
    BY <1>4, <1>13, <1>14, <1>15, LinksStay DEF Proceeds

LEMMA UpdateProjectRows ==
    ASSUME RowsInv, Typed, NEW r \in Requests, UpdateProject(r)
    PROVE  RowsInv'
<1>0. req[r].pc = "update"
    BY DEF UpdateProject
<1>0a. PICK d \in Projects : req[r].child = d
    BY <1>0 DEF Typed, Ready
<1>0b. req[r].op \in {"ontology", "general"} /\ req[r].own = NoRows
    BY <1>0 DEF RowsInv, ReqOK, Shape, Typed, Ready, Writing
<1>0c. req[r] \in Request /\ req \in [Requests -> Request]
    BY DEF Typed, TypeOK
<1>1. CASE Done(r, "error") /\ UNCHANGED <<link, scalar>>
    BY <1>0, <1>1, DoneRows
<1>2. CASE ~Seeds(r)
    <2>1. /\ scalar' = [scalar EXCEPT ![d] = req[r].head] /\ link' = link
          /\ \/ req[r].op = "ontology" /\ Goto(r, "children")
             \/ Done(r, "ok")
        BY <1>0a, <1>2 DEF UpdateProject
    <2>2. /\ Others(r) /\ Holds(r) /\ req'[r].own = NoRows /\ req'[r].tx = req[r].tx
          /\ req'[r].pc = "done" \/ (req'[r].pc = "children" /\ req[r].op = "ontology")
        <3>1. CASE req[r].op = "ontology" /\ Goto(r, "children")
            BY <1>0b, <3>1, GotoFields
        <3>2. CASE Done(r, "ok")
            BY <3>2, DoneFields
        <3> QED
            BY <2>1, <3>1, <3>2
    <2>3. Shape(req[r])'
        BY <1>0, <1>0b, <2>2 DEF RowsInv, ReqOK, Shape, Holds, Writing
    <2>4. ~Relies(r)'
        BY <1>0b, <2>2, <2>3 DEF Relies, Holds, Finished, Shape
    <2>5. \A c \in Projects \ {d} : scalar'[c] = scalar[c]
        BY <2>1 DEF Typed, TypeOK
    <2>6. WritesScalar(d)'
        BY <1>0a, <1>0b, <2>2 DEF WritesScalar, Holds
    <2>7. \A q \in Requests \ {r} : SameRows(q)
        BY <2>1, <2>2 DEF SameRows, Base, Others
    <2>8. OneCommitted'
        BY <2>1 DEF RowsInv, OneCommitted
    <2>9. ParentsAgree'
        <3> SUFFICES ASSUME NEW c \in Projects, ~Undercut(c)'
                     PROVE  OnePrimaryOf(c)' /\ (~WritesScalar(c)' => ScalarFollows(c)')
            BY DEF ParentsAgree
        <3> QED
            BY <2>1, <2>2, <2>5, <2>6, ChildStays
    <2> QED
        BY <1>0, <2>2, <2>3, <2>4, <2>7, <2>8, <2>9, LinksChange DEF Rests, Grounded
<1>3. CASE Seeds(r) /\ ~Done(r, "error")
    <2>1. PICK p \in Projects : req[r].head = p
        BY <1>3 DEF Seeds, Typed, TypeOK, Request
    <2>2. /\ Free(r, {p}) /\ IndexFree(r) /\ UNCHANGED <<link, scalar>>
          /\ req' = [req EXCEPT ![r].pc = "commit", ![r].own[p] = [primary |-> TRUE, source |-> Draft]]
        BY <1>3, <2>1 DEF UpdateProject
    <2> DEFINE row == [primary |-> TRUE, source |-> Draft]
    <2>3. row \in Row /\ IsRow(row) /\ row.primary
        BY NewRow, Distinct DEF IsRow
    <2>4. req' = [req EXCEPT ![r].pc = "commit", ![r].own[p] = row]
        BY <2>2
    <2> HIDE DEF row
    <2>5. /\ \A q \in Requests \ {r} : req'[q] = req[q]
          /\ req'[r].own = [NoRows EXCEPT ![p] = row]
        BY <1>0b, <1>0c, <2>4 DEF Request
    <2>6. /\ req'[r].pc = "commit" /\ req'[r].tx = req[r].tx /\ req'[r].op = req[r].op
          /\ req'[r].child = req[r].child
          /\ req'[r].parent = req[r].parent /\ req'[r].head = req[r].head
        BY <1>0c, <2>4 DEF Request
    <2>7. Others(r) /\ Holds(r)
        BY <2>5, <2>6 DEF Others, Holds
    <2> QED
        BY <1>0, <1>3, <2>1, <2>2, <2>3, <2>5, <2>6, <2>7, SeedRows
<1> QED
    BY <1>1, <1>2, <1>3 DEF UpdateProject

-----------------------------------------------------------------------------
LEMMA RowsNext ==
    ASSUME RowsInv, Typed, [Next]_vars
    PROVE  RowsInv'
<1>1. CASE UNCHANGED vars
    <2>0. UNCHANGED <<link, scalar, req>>
        BY <1>1 DEF vars
    <2>1. ASSUME NEW r \in Requests
          PROVE  ReqOK(r)'
        <3>0. ReqOK(r)
            BY DEF RowsInv
        <3>1. /\ Linked(r)' = Linked(r) /\ Siblings(r)' = Siblings(r) /\ (Shaken(r) <=> Shaken(r)')
              /\ \A p \in Projects : Own(r, p)' = Own(r, p) /\ Base(r, p)' = Base(r, p)
            BY <2>0 DEF Linked, Seen, Siblings, Shaken, Undercut, Removes, Own, Base
        <3>2. Shape(req[r])' /\ Deletes(r)' /\ Grounded(r)' /\ Excused(r)'
            BY <2>0, <3>0, <3>1 DEF ReqOK, Deletes, Removes, Grounded, Relies, Base, Excused, EmptyHanded, Blind
        <3>3. Settled(r)' /\ HeadRead(r)'
            BY <2>0, <3>0, <3>1 DEF ReqOK, Settled, HeadRead, Wrote, Blind, LockedBy, Own
        <3>4. Keeps(r)' /\ Alone(r)' /\ Fresh(r)'
            BY <2>0, <3>0, <3>1 DEF ReqOK, Keeps, Demotes, MakesPrimary, MayBeStale, Alone, Fresh, Base
        <3> QED
            BY <3>2, <3>3, <3>4 DEF ReqOK
    <2>2. Exclusive' /\ OneIndex' /\ OneCommitted'
        BY <2>0 DEF RowsInv, Exclusive, LockedBy, OneIndex, Own, OneCommitted
    <2>3. ASSUME NEW c \in Projects
          PROVE  /\ Undercut(c) <=> Undercut(c)'
                 /\ OnePrimaryOf(c) => OnePrimaryOf(c)'
                 /\ WritesScalar(c) <=> WritesScalar(c)'
                 /\ ScalarFollows(c) => ScalarFollows(c)'
        <3>1. Undercut(c) <=> Undercut(c)'
            BY <2>0 DEF Undercut, Removes
        <3>2. WritesScalar(c) <=> WritesScalar(c)'
            BY <2>0 DEF WritesScalar
        <3>3. ParentsOf(c)' = ParentsOf(c)
            BY <2>0 DEF ParentsOf
        <3>4. OnePrimaryOf(c) => OnePrimaryOf(c)'
            BY <2>0, <3>3 DEF OnePrimaryOf
        <3>5. ScalarFollows(c) => ScalarFollows(c)'
            BY <2>0, <3>3 DEF ScalarFollows
        <3> QED
            BY <3>1, <3>2, <3>4, <3>5
    <2>4. ParentsAgree'
        BY <2>3 DEF RowsInv, ParentsAgree
    <2> QED
        BY <2>1, <2>2, <2>4 DEF RowsInv
<1>2. ASSUME NEW r \in Requests, Transaction(r)
      PROVE  RowsInv'
    <2>1. CASE DeadlockVictim(r)
        <3>1. req[r].pc # "idle"
            BY <2>1 DEF DeadlockVictim, WaitsFor, Needs, WantsPrimary
        <3> QED
            BY <2>1, <3>1, AbortRows DEF DeadlockVictim
    <2> QED
        BY <1>2, <2>1, InsertRows, DeleteRows, SettleRows, LookUpRows, ClearAndSetRows, ReadHeadRows, CommitRows
        DEF Transaction
<1>3. ASSUME NEW r \in Requests, Handler(r)
      PROVE  RowsInv'
    <2>1. CASE CopyCategories(r)
        BY <2>1, DoneRows DEF CopyCategories
    <2> QED
        BY <1>3, <2>1, CheckGraphRows, ReadLinkRows, CheckReceiptsRows, FormRows, HandlerRows,
           UpdateProjectRows, ApplyRepinsRows
        DEF Handler
<1>4. ASSUME NEW r \in Requests, StatementFails(r)
      PROVE  RowsInv'
    BY <1>4, AbortRows DEF StatementFails, Statements
<1> QED
    BY <1>1, <1>2, <1>3, <1>4, StartRows, CopyFailsRows DEF Next, Step

LEMMA RowsInit ==
    ASSUME Init
    PROVE  RowsInv
<1>0. \A r \in Requests : /\ req[r].op = None /\ req[r].pc = "idle" /\ req[r].tx = None /\ req[r].child = None
                          /\ \A p \in Projects : req[r].own[p] = Untouched
    BY DEF Init, Idle, NoRows
<1>1. \A r \in Requests : ReqOK(r)
    BY <1>0, Distinct, InheritanceAssumption
    DEF ReqOK, Shape, Writing, Deletes, Grounded, Relies, Finished, Excused, EmptyHanded, Settled, Wrote,
        HeadRead, Keeps, Demotes, Alone, Fresh, Own
<1>2. Exclusive /\ OneIndex
    BY <1>0 DEF Exclusive, LockedBy, OneIndex, IsRow, Own
<1>3. PICK start \in InitialLinks :
         /\ link = [e \in Pairs |->
                      IF \E t \in start : t[1] = e[1] /\ t[2] = e[2]
                      THEN LET t == CHOOSE t \in start : t[1] = e[1] /\ t[2] = e[2]
                           IN  [primary |-> t[3], source |-> t[4]]
                      ELSE NoLink]
         /\ scalar = [c \in Projects |->
                        IF \E t \in start : t[1] = c /\ t[3]
                        THEN (CHOOSE t \in start : t[1] = c /\ t[3])[2] ELSE None]
    BY DEF Init
<1>4. /\ start \subseteq Projects \X Projects \X BOOLEAN \X Sources
      /\ \A t, u \in start : t[1] = u[1] /\ t[2] = u[2] => t = u
      /\ \A t \in start : \E u \in start :
              u[1] = t[1] /\ u[3] /\ \A v \in start : v[1] = t[1] /\ v[3] => v = u
    BY <1>3, InheritanceAssumption, InitialPrimary DEF Sources
<1>5. \A t \in start : t[1] \in Projects /\ t[2] \in Projects /\ t[3] \in BOOLEAN /\ t[4] \in Sources
    BY <1>4
<1>6. ASSUME NEW c \in Projects, NEW p \in Projects, NEW t \in start, t[1] = c, t[2] = p
      PROVE  link[<<c, p>>] # NoLink /\ (link[<<c, p>>].primary <=> t[3])
    <2>1. <<c, p>> \in Pairs /\ <<c, p>>[1] = c /\ <<c, p>>[2] = p
        BY DEF Pairs
    <2>2. (CHOOSE u \in start : u[1] = c /\ u[2] = p) = t
        BY <1>4, <1>6
    <2>3. link[<<c, p>>] = IF \E u \in start : u[1] = c /\ u[2] = p
                           THEN LET u == CHOOSE u \in start : u[1] = c /\ u[2] = p
                                IN  [primary |-> u[3], source |-> u[4]]
                           ELSE NoLink
        BY <1>3, <2>1
    <2>4. link[<<c, p>>] = [primary |-> t[3], source |-> t[4]]
        BY <1>6, <2>2, <2>3
    <2>5. [primary |-> t[3], source |-> t[4]] \in Row
        BY <1>5 DEF Row
    <2> QED
        BY <2>4, <2>5, Distinct
<1>7. \A c, p \in Projects : link[<<c, p>>] # NoLink => \E t \in start : t[1] = c /\ t[2] = p
    BY <1>3 DEF Pairs
<1>8. OneCommitted
    <2> SUFFICES ASSUME NEW c \in Projects, NEW p \in Projects, NEW q \in Projects,
                        link[<<c, p>>] # NoLink, link[<<c, p>>].primary,
                        link[<<c, q>>] # NoLink, link[<<c, q>>].primary
                 PROVE  p = q
        BY DEF OneCommitted
    <2>1. PICK t \in start : t[1] = c /\ t[2] = p
        BY <1>7
    <2>2. PICK u \in start : u[1] = c /\ u[2] = q
        BY <1>7
    <2>3. t[3] /\ u[3]
        BY <1>6, <2>1, <2>2
    <2> QED
        BY <1>4, <2>1, <2>2, <2>3
<1>9. ASSUME NEW c \in Projects
      PROVE  OnePrimaryOf(c) /\ ScalarFollows(c)
    <2>1. CASE ParentsOf(c) = {}
        <3>1. ASSUME NEW t \in start, t[1] = c
              PROVE  FALSE
            <4>1. link[<<c, t[2]>>] # NoLink /\ t[2] \in Projects
                BY <1>5, <1>6, <3>1
            <4> QED
                BY <2>1, <4>1 DEF ParentsOf
        <3>2. scalar[c] = None
            BY <1>3, <3>1
        <3> QED
            BY <2>1, <3>2 DEF OnePrimaryOf, ScalarFollows
    <2>2. CASE ParentsOf(c) # {}
        <3>1. PICK t \in start : t[1] = c
            BY <1>7, <2>2 DEF ParentsOf
        <3>2. PICK u \in start : u[1] = c /\ u[3] /\ \A v \in start : v[1] = c /\ v[3] => v = u
            BY <1>4, <3>1
        <3>3. PICK p \in Projects : p = u[2]
            BY <1>5, <3>2
        <3>4. link[<<c, p>>] # NoLink /\ link[<<c, p>>].primary
            BY <1>6, <3>2, <3>3
        <3>5. \A q \in ParentsOf(c) : link[<<c, q>>].primary <=> q = p
            BY <1>8, <3>4 DEF OneCommitted, ParentsOf
        <3>6. (CHOOSE v \in start : v[1] = c /\ v[3]) = u
            BY <3>2
        <3>7. scalar[c] = p
            BY <1>3, <3>2, <3>3, <3>6
        <3> QED
            BY <3>4, <3>5, <3>7 DEF OnePrimaryOf, ParentsOf, ScalarFollows
    <2> QED
        BY <2>1, <2>2
<1> QED
    BY <1>1, <1>2, <1>8, <1>9 DEF RowsInv, ParentsAgree

LEMMA RowsAlways == Spec => [](Typed /\ RowsInv)
<1>1. Init => Typed /\ RowsInv
    BY RowsInit, TypedInit
<1>2. Typed /\ RowsInv /\ [Next]_vars => (Typed /\ RowsInv)'
    BY RowsNext, TypedStep
<1> QED
    BY <1>1, <1>2, PTL DEF Spec

\* A project with parents has exactly one primary parent, and its scalar column
\* names that one, whatever requests run side by side: unless a link is removed
\* under another request that works on it.
THEOREM ParentsFollow == Spec => []ParentsAgree
<1>1. Typed /\ RowsInv => ParentsAgree
    BY DEF RowsInv
<1> QED
    BY <1>1, RowsAlways, PTL

\* Only a commit takes the primary flag away from a parent that stays.
LEMMA OnlyCommitsDemote ==
    ASSUME Typed, NEW r \in Requests, Start(r) \/ Step(r) \/ CopyFails(r) \/ StatementFails(r),
           NEW c \in Projects, NEW p \in Projects, link[<<c, p>>] # NoLink, link'[<<c, p>>] # NoLink,
           link[<<c, p>>].primary, ~link'[<<c, p>>].primary
    PROVE  Commit(r)
<1>0. <<c, p>> \in Pairs /\ link[<<c, p>>] \in Row
    BY DEF Pairs, Typed, TypeOK
<1>1. link' # link
    OBVIOUS
<1>2. ~ApplyRepins(r)
    <2> SUFFICES ASSUME ApplyRepins(r)
                 PROVE  FALSE
        OBVIOUS
    <2>1. \/ link'[<<c, p>>] = link[<<c, p>>]
          \/ link'[<<c, p>>] = [link[<<c, p>>] EXCEPT !.source = req[r].source]
        BY <1>0 DEF ApplyRepins
    <2> QED
        BY <1>0, <2>1 DEF Row
<1> QED
    BY <1>1, <1>2
    DEF Start, Step, Transaction, Handler, Insert, Delete, Settle, LookUp, ClearAndSet, ReadHead,
        DeadlockVictim, CheckGraph, ReadLink, CheckReceipts, CopyCategories, CheckChain, LoadProject,
        UpdateProject, ListChildren, NextChild, Classify, CopyFails, StatementFails

LEMMA PrimaryStep ==
    ASSUME RowsInv, Typed, [Next]_vars,
           NEW c \in Projects, NEW p \in Projects, link[<<c, p>>] # NoLink, link'[<<c, p>>] # NoLink,
           link[<<c, p>>].primary, ~link'[<<c, p>>].primary
    PROVE  \E r \in Requests :
             req'[r] # req[r] /\ req[r].child = c /\ (MakesPrimary(r) \/ MayBeStale(r, p))
<1>1. link' # link
    OBVIOUS
<1>2. PICK r \in Requests : Commit(r)
    BY <1>1, OnlyCommitsDemote DEF Next, vars
<1>3. /\ req[r].pc = "commit" /\ req'[r].pc # "commit" /\ req[r].child = c
      /\ link'[<<c, p>>] = Seen(r, p)
    <2>1. /\ req[r].pc = "commit" /\ req'[r].pc # "commit" /\ Holds(r)
          /\ Base(r, p)' = Seen(r, p)
          /\ c # req[r].child => link'[<<c, p>>] = link[<<c, p>>]
        BY <1>2, CommitFields
    <2>2. req[r].child = c
        BY <2>1
    <2> QED
        BY <2>1, <2>2 DEF Base, Holds
<1>4. Demotes(r, p)
    BY <1>3 DEF Demotes, Writing, Own, IsRow, Base, Seen
<1>5. MakesPrimary(r) \/ MayBeStale(r, p)
    BY <1>4 DEF RowsInv, ReqOK, Keeps
<1> QED
    BY <1>2, <1>3, <1>5

\* A parent that stays linked stays the primary one: only SetPrimary and the
\* ontology form make another one primary, or a request that goes by an earlier
\* reading of the parent's row while others of the same child run.
THEOREM PrimaryStays == Spec => PrimaryKept
<1>1. Typed /\ RowsInv /\ [Next]_vars =>
        [\A c, p \in Projects :
           LET before == link[<<c, p>>]
               after == link'[<<c, p>>]
           IN  before # NoLink /\ after # NoLink /\ before.primary /\ ~after.primary =>
                 \E r \in Requests :
                   req'[r] # req[r] /\ req[r].child = c /\ (MakesPrimary(r) \/ MayBeStale(r, p))]_vars
    BY PrimaryStep
<1> QED
    BY <1>1, RowsAlways, PTL DEF Spec, PrimaryKept
=============================================================================
