-------------------------- MODULE MaterializerProofs --------------------------
(***************************************************************************)
(* The outbox, for any number of entities, requests, drainers, sweeps,     *)
(* failures and crashes:                                                   *)
(*   TypeCorrect     TypeOK                                                *)
(*   NothingLost     NoLostChange                                          *)
(*   DeletedForGood  DeletedStaysDeleted                                   *)
(* A file that is not what the database holds is owed by some request, or  *)
(* a sweep has taken it away.  While a drainer works on a change set, each *)
(* file is right, or owed by another change set, or swept away, or still   *)
(* among those the drainer will write: so the change set owes nothing when *)
(* it is marked.  A sweep that gets to its commit has written every file,  *)
(* but for what is owed.  Deletions need the rest: a deleted entity never  *)
(* comes back, and after the lookup of a row nothing but that row's own    *)
(* content is written.                                                     *)
(***************************************************************************)
EXTENDS Materializer, WellFoundedInduction, TLAPS

\* What a drainer lists has been closed, and what it works on can be routed.
Shape ==
    /\ \A s \in Saves : save[s].state # "new" => \E i \in DOMAIN begun : begun[i] = s
    /\ \A d \in Drainers :
          /\ queue[d] \subseteq {s \in Saves : save[s].state = "closed"}
          /\ at[d] \in Busy => queue[d] # {} /\ save[Current(d)].routed
    /\ \A w \in Sweepers : at[w] \notin {"next", "read", "mark"}
    /\ \A d \in Drainers : at[d] # "reset"

Owes(s, e) ==
    /\ save[s].entity = e
    /\ \/ save[s].state \in {"written", "unlogged"}
       \/ save[s].state = "closed" /\ s \notin processed
       \/ save[s].state = "closed" /\ ~save[s].routed
Owed(e) == \E s \in Saves : Owes(s, e)
OwedByAnother(d, e) == \E s \in Saves \ {Current(d)} : Owes(s, e)

SweptAway(e, files) == e \in swept /\ files[e] = Absent
FilesOK ==
    \A e \in Entities : /\ wt[e] # File(e) => Owed(e) \/ SweptAway(e, wt)
                        /\ head[e] # File(e) => Owed(e) \/ SweptAway(e, head)

Deleted(s) == save[s].op = "delete" /\ save[s].state \in {"written", "closed", "unlogged"}

DeleteOK ==
    /\ \A s \in Saves : Deleted(s) => db[save[s].entity] = Gone
    /\ \A e \in Entities :
          /\ db[e] = Gone => \E s \in Saves : Deleted(s) /\ save[s].entity = e
          /\ db[e] = Absent => wt[e] = Absent /\ head[e] = Absent
    /\ \A s \in processed :
          /\ save[s].state = "closed"
          /\ save[s].op = "delete" /\ save[s].routed =>
                wt[save[s].entity] = Absent /\ head[save[s].entity] = Absent

\* The entity of the change set that d works on, and whether it is deleted.
Own(d) == save[Current(d)].entity
Deletes(d) == save[Current(d)].op = "delete"

RefsOK(d) ==
    /\ \A r \in refs[d] : (r.delete <=> r.entity = Own(d) /\ Deletes(d))
    /\ Deletes(d) => (\E r \in refs[d] : r.entity = Own(d)) \/ wt[Own(d)] = Absent

GotOK(d) ==
    /\ at[d] \in {"read", "write"} /\ got[d][1] = Own(d) => ~Deletes(d)
    /\ at[d] = "write" =>
          /\ db[got[d][1]] # Absent
          /\ got[d][2] = File(got[d][1]) \/ OwedByAnother(d, got[d][1])
          /\ \A s \in processed :
                save[s].op = "delete" /\ save[s].routed => save[s].entity # got[d][1]
    /\ at[d] = "mark" => refs[d] = {} /\ head = wt

Settled(d, e) ==
    \/ wt[e] = File(e)
    \/ OwedByAnother(d, e)
    \/ SweptAway(e, wt)
    \/ \E r \in refs[d] : r.entity = e
    \/ at[d] \in {"read", "write"} /\ got[d][1] = e

DrainOK(d) ==
    at[d] \in Busy => RefsOK(d) /\ GotOK(d) /\ (\A e \in Entities : Settled(d, e))

\* What a sweep has read is the row's content, or its change is owed; what it
\* has not written yet is on its list.
SweepGotOK(w) ==
    at[w] = "write" =>
        /\ db[got[w][1]] # Absent
        /\ got[w][2] = File(got[w][1]) \/ Owed(got[w][1])
        /\ \A s \in processed :
              save[s].op = "delete" /\ save[s].routed => save[s].entity # got[w][1]

Rebuilt(w, e) ==
    \/ wt[e] = File(e)
    \/ Owed(e)
    \/ \E r \in refs[w] : r.entity = e
    \/ at[w] = "write" /\ got[w][1] = e

SweepOK(w) ==
    at[w] \in {"rewrite", "write"} => SweepGotOK(w) /\ (\A e \in Entities : Rebuilt(w, e))

IInv ==
    /\ TypeOK /\ Shape /\ FilesOK /\ DeleteOK
    /\ \A d \in Drainers : DrainOK(d)
    /\ \A w \in Sweepers : SweepOK(w)

-----------------------------------------------------------------------------
(* The list of a drainer.                                                  *)

\* The least element of a set of numbers is one of them.
LEMMA MinIn == ASSUME NEW S \in SUBSET Nat, S # {} PROVE Min(S) \in S
<1>1. PICK x \in S : \A y \in S : ~ (<<y, x>> \in OpToRel(<, Nat))
    BY NatLessThanWellFounded, WFMin
<1>2. \A y \in S : x <= y
  <2> TAKE y \in S
  <2>1. ~ (y < x)
    BY <1>1 DEF OpToRel
  <2> QED
    BY <2>1
<1> QED
    BY <1>2 DEF Min

\* The requests, in the order in which they began, are a sequence of saves.
LEMMA BegunIs ==
    ASSUME TypeOK
    PROVE  /\ DOMAIN begun = 1..Len(begun) /\ Len(begun) \in Nat
           /\ \A i \in DOMAIN begun : begun[i] \in Saves
BY DEF TypeOK

Listed(d) == {i \in DOMAIN begun : begun[i] \in queue[d]}

LEMMA ListedIs ==
    ASSUME TypeOK, Shape, NEW d \in Drainers, queue[d] # {}
    PROVE  Min(Listed(d)) \in Listed(d)
<1>1. queue[d] \subseteq {s \in Saves : save[s].state = "closed"}
    BY DEF Shape
<1>2. \A s \in queue[d] : \E i \in DOMAIN begun : begun[i] = s
    BY <1>1 DEF Shape
<1>3. Listed(d) # {} /\ Listed(d) \in SUBSET Nat
    BY <1>2, BegunIs DEF Listed
<1> QED
    BY <1>3, MinIn

\* What a drainer works on is a closed change set of its list.
LEMMA CurrentIn ==
    ASSUME TypeOK, Shape, NEW d \in Drainers, queue[d] # {}
    PROVE  /\ Current(d) \in queue[d] /\ Current(d) \in Saves
           /\ save[Current(d)].state = "closed"
           /\ Own(d) \in Entities /\ save[Current(d)].op \in Ops
<1>1. queue[d] \subseteq {s \in Saves : save[s].state = "closed"}
    BY DEF Shape
<1>2. Current(d) \in queue[d]
    BY ListedIs DEF Current, Listed
<1> QED
    BY <1>1, <1>2 DEF Own, TypeOK

\* A request that begins is behind those that are listed.
LEMMA CurrentStays ==
    ASSUME TypeOK, Shape, NEW d \in Drainers, queue[d] # {}, queue' = queue,
           NEW s \in Saves \ queue[d], begun' = begun \/ begun' = Append(begun, s)
    PROVE  Current(d)' = Current(d)
<1>1. CASE begun' = begun
    BY <1>1 DEF Current
<1>2. CASE begun' = Append(begun, s)
  <2>1. /\ DOMAIN begun' = DOMAIN begun \cup {Len(begun) + 1}
        /\ \A i \in DOMAIN begun : begun'[i] = begun[i]
        /\ begun'[Len(begun) + 1] = s
    BY <1>2, BegunIs DEF TypeOK
  <2>2. Listed(d)' = Listed(d)
    BY <2>1 DEF Listed
  <2>3. Min(Listed(d)) \in DOMAIN begun
    BY ListedIs DEF Listed
  <2> QED
    BY <2>1, <2>2, <2>3 DEF Current, Listed
<1> QED
    BY <1>1, <1>2

-----------------------------------------------------------------------------
(* Types.                                                                  *)

LEMMA InitOK == MaterializerAssumption /\ Init => IInv
<1> SUFFICES ASSUME MaterializerAssumption, Init PROVE IInv
    OBVIOUS
<1>1. TypeOK
    BY DEF MaterializerAssumption, Init, TypeOK, NoSave, States, Busy, Content, Tree, File, Exists, Workers
<1>2. Shape
    BY DEF MaterializerAssumption, Init, Shape, NoSave, Busy, Workers
<1>3. FilesOK
    BY DEF Init, FilesOK, Tree
<1>4. DeleteOK
    BY DEF MaterializerAssumption, Init, DeleteOK, Deleted, NoSave, Tree, File, Exists
<1>5. \A d \in Drainers : DrainOK(d)
    BY DEF Init, DrainOK, Busy, Workers
<1>6. \A w \in Sweepers : SweepOK(w)
    BY DEF Init, SweepOK, Workers
<1> QED
    BY <1>1, <1>2, <1>3, <1>4, <1>5, <1>6 DEF IInv

\* A request changes its own record, and the workers stay as they are.
LEMMA RequestType == ASSUME TypeOK, Shape, NEW s \in Saves, Request(s) PROVE TypeOK' /\ Shape'
<1>1. UNCHANGED <<processed, withSha, repo, wt, head, authored, flock, at, queue, refs, got, faults, swept>>
    BY DEF Request, Begin, WriteEntity, Refuse, CloseChangeSet, FlushFails, marks, git, workers, requests
<1>2. /\ save' \in [Saves -> [state : States, entity : Entities \cup {NoOne},
                              op : Ops \cup {"none"}, routed : BOOLEAN]]
      /\ save'[s].state # "new" /\ save'[s].entity \in Entities /\ save'[s].op \in Ops
      /\ save[s].state # "closed"
      /\ \A t \in Saves \ {s} : save'[t] = save[t]
  <2>1. CASE Begin(s)
    <3>1. PICK e \in Entities, op \in Ops :
            save' = [save EXCEPT ![s] = [state |-> "open", entity |-> e, op |-> op, routed |-> TRUE]]
      BY <2>1 DEF Begin
    <3> QED
      BY <2>1, <3>1 DEF Begin, TypeOK, States
  <2>2. CASE WriteEntity(s)
    BY <2>2 DEF WriteEntity, TypeOK, States
  <2>3. CASE Refuse(s)
    BY <2>3 DEF Refuse, TypeOK, States
  <2>4. CASE CloseChangeSet(s)
    <3>1. Routed \subseteq BOOLEAN
      BY MaterializerAssumption DEF MaterializerAssumption
    <3>2. PICK known \in Routed :
            save' = [save EXCEPT ![s] = [state |-> "closed", entity |-> @.entity, op |-> @.op, routed |-> known]]
      BY <2>4 DEF CloseChangeSet
    <3> QED
      BY <2>4, <3>1, <3>2 DEF CloseChangeSet, TypeOK, States
  <2>5. CASE FlushFails(s)
    BY <2>5 DEF FlushFails, TypeOK, States
  <2> QED
    BY <2>1, <2>2, <2>3, <2>4, <2>5 DEF Request
<1>3. db' \in [Entities -> Content]
    BY DEF Request, Begin, WriteEntity, Refuse, CloseChangeSet, FlushFails, TypeOK, Content
<1>4. (begun' = begun /\ save[s].state # "new") \/ begun' = Append(begun, s)
    BY DEF Request, Begin, WriteEntity, Refuse, CloseChangeSet, FlushFails, requests
<1>5. TypeOK'
  <2>1. begun' \in Seq(Saves)
    <3>1. begun \in Seq(Saves)
      BY DEF TypeOK
    <3>2. Append(begun, s) \in Seq(Saves)
      BY <3>1
    <3> QED
      BY <1>4, <3>1, <3>2
  <2>2. \A t \in Saves : save'[t].state # "new" => save'[t].entity \in Entities /\ save'[t].op \in Ops
    BY <1>2 DEF TypeOK
  <2> QED
    BY <1>1, <1>2, <1>3, <2>1, <2>2 DEF TypeOK
<1>6. Shape'
  <2>1. \A t \in Saves : save'[t].state # "new" => \E i \in DOMAIN begun' : begun'[i] = t
    <3>1. CASE begun' = begun /\ save[s].state # "new"
      BY <1>2, <3>1 DEF Shape
    <3>2. CASE begun' = Append(begun, s)
      <4>1. /\ DOMAIN begun' = DOMAIN begun \cup {Len(begun) + 1}
            /\ \A i \in DOMAIN begun : begun'[i] = begun[i]
            /\ begun'[Len(begun) + 1] = s
        BY <3>2, BegunIs DEF TypeOK
      <4> QED
        BY <1>2, <4>1 DEF Shape
    <3> QED
      BY <1>4, <3>1, <3>2
  <2>2. ASSUME NEW d \in Drainers
        PROVE  /\ queue'[d] \subseteq {t \in Saves : save'[t].state = "closed"}
               /\ at'[d] \in Busy => queue'[d] # {} /\ save'[Current(d)'].routed
    <3>1. s \notin queue[d]
      BY <1>2 DEF Shape
    <3>2. at[d] \in Busy => Current(d)' = Current(d) /\ Current(d) \in queue[d] /\ Current(d) \in Saves
      <4>1. ASSUME queue[d] # {} PROVE Current(d)' = Current(d) /\ Current(d) \in queue[d] /\ Current(d) \in Saves
        BY <1>1, <1>4, <3>1, <4>1, CurrentStays, CurrentIn
      <4> QED
        BY <4>1 DEF Shape
    <3> QED
      BY <1>1, <1>2, <3>1, <3>2 DEF Shape
  <2> QED
    BY <1>1, <2>1, <2>2 DEF Shape
<1> QED
    BY <1>5, <1>6

\* A worker that is busy holds the lock, and no other is busy.
LEMMA OneWorks ==
    ASSUME TypeOK, NEW w \in Workers, at[w] \in Busy \/ flock = NoOne
    PROVE  \A v \in Workers \ {w} : at[v] \notin Busy
BY MaterializerAssumption DEF TypeOK, MaterializerAssumption, Workers

\* Who leaves the work gives the lock back, and nobody has it then.
LEMMA NoOneWorks ==
    ASSUME TypeOK, NEW w \in Workers, at[w] \in Busy, flock' = NoOne,
           at' \in [Workers -> {"idle", "next"} \cup Busy], at'[w] \notin Busy,
           \A v \in Workers \ {w} : at'[v] = at[v]
    PROVE  \A v \in Workers : at'[v] \notin Busy /\ flock' # v
BY OneWorks, MaterializerAssumption DEF TypeOK, MaterializerAssumption, Workers

\* A step of a worker: the change set it works on goes on being the same
\* one, or the worker leaves it.
LEMMA WorkerType ==
    ASSUME TypeOK, Shape, NEW w \in Workers, UNCHANGED <<db, requests>>,
           processed' \subseteq Saves, withSha' \subseteq processed', authored' \subseteq Saves,
           repo' \in BOOLEAN, wt' \in [Entities -> Content], head' \in [Entities -> Content],
           refs' \in [Workers -> SUBSET Ref], DOMAIN got' = Workers, faults' \in 0..MaxFaults,
           swept' \subseteq Entities,
           \A v \in Workers \ {w} : got'[v] = got[v],
           NEW stage \in {"idle", "next"} \cup Busy, at' = [at EXCEPT ![w] = stage],
           w \in Sweepers => stage \notin {"next", "read", "mark"},
           w \in Drainers => stage # "reset",
           \/ stage \in Busy /\ flock' = w /\ queue' = queue /\ (at[w] \in Busy \/ flock = NoOne)
              /\ (w \in Drainers => queue[w] # {} /\ save[Current(w)].routed)
           \/ stage \notin Busy /\ at[w] \in Busy /\ flock' = NoOne
           \/ stage \notin Busy /\ at[w] \notin Busy /\ flock' = flock,
           stage = "read" => got'[w] \in {<<e>> : e \in Entities},
           stage = "write" => got'[w] \in Entities \X (Content \ {Absent, Gone}),
           queue' = queue \/ \E S \in SUBSET {s \in Saves : save[s].state = "closed"} :
                                queue' = [queue EXCEPT ![w] = S]
    PROVE  TypeOK' /\ Shape'
<1>1. /\ UNCHANGED <<db, save, begun>> /\ flock' \in Workers \cup {NoOne}
      /\ at' \in [Workers -> {"idle", "next"} \cup Busy]
      /\ queue' \in [Workers -> SUBSET Saves]
      /\ \A v \in Workers \ {w} : at'[v] = at[v] /\ queue'[v] = queue[v]
      /\ at'[w] = stage
  <2>1. UNCHANGED <<db, save, begun>> /\ flock' \in Workers \cup {NoOne}
    BY DEF TypeOK, requests
  <2>2. /\ at' \in [Workers -> {"idle", "next"} \cup Busy] /\ at'[w] = stage
        /\ \A v \in Workers \ {w} : at'[v] = at[v]
    BY DEF TypeOK
  <2>3. queue' \in [Workers -> SUBSET Saves] /\ \A v \in Workers \ {w} : queue'[v] = queue[v]
    BY DEF TypeOK
  <2> QED
    BY <2>1, <2>2, <2>3
<1>2. \A v \in Workers : at'[v] \in Busy <=> flock' = v
  <2>1. CASE stage \in Busy /\ flock' = w /\ (at[w] \in Busy \/ flock = NoOne)
    BY <1>1, <2>1, OneWorks
  <2>2. CASE stage \notin Busy /\ at[w] \in Busy /\ flock' = NoOne
    BY <1>1, <2>2, NoOneWorks
  <2>3. CASE stage \notin Busy /\ at[w] \notin Busy /\ flock' = flock
    BY <1>1, <2>3 DEF TypeOK
  <2> QED
    BY <2>1, <2>2, <2>3
<1>4. TypeOK'
  <2>1. \A v \in Workers : /\ at'[v] = "read" => got'[v] \in {<<e>> : e \in Entities}
                           /\ at'[v] = "write" => got'[v] \in Entities \X (Content \ {Absent, Gone})
    BY <1>1 DEF TypeOK
  <2> QED
    BY <1>1, <1>2, <2>1 DEF TypeOK, Content
<1>5. Shape'
  <2>1. ASSUME NEW d \in Drainers
        PROVE  /\ queue'[d] \subseteq {s \in Saves : save'[s].state = "closed"}
               /\ at'[d] \in Busy => queue'[d] # {} /\ save'[Current(d)'].routed
               /\ at'[d] # "reset"
    <3>1. d \in Workers
      BY DEF Workers
    <3>2. queue'[d] \subseteq {s \in Saves : save[s].state = "closed"}
      BY <1>1, <3>1 DEF Shape, TypeOK
    <3>3. CASE at'[d] \in Busy
      <4>1. queue'[d] = queue[d]
        BY <1>1, <3>1, <3>3
      <4>2. Current(d)' = Current(d)
        BY <1>1, <4>1 DEF Current
      <4>3. CASE d = w
        <5>1. stage \in Busy
          BY <1>1, <3>3, <4>3
        <5>2. queue[d] # {} /\ save[Current(d)].routed /\ queue'[d] = queue[d]
          BY <4>1, <4>3, <5>1
        <5>3. save'[Current(d)'].routed
          BY <1>1, <4>2, <5>2
        <5> QED
          BY <1>1, <3>2, <4>3, <5>2, <5>3
      <4>4. CASE d # w
        <5>1. at'[d] = at[d]
          BY <1>1, <3>1, <4>4
        <5>2. queue[d] # {} /\ save[Current(d)].routed /\ at[d] # "reset"
          BY <3>3, <5>1 DEF Shape
        <5>3. save'[Current(d)'].routed
          BY <1>1, <4>2, <5>2
        <5> QED
          BY <1>1, <3>2, <4>1, <5>1, <5>2, <5>3
      <4> QED
        BY <4>3, <4>4
    <3>4. CASE at'[d] \notin Busy
      BY <1>1, <3>2, <3>4 DEF Busy
    <3> QED
      BY <3>3, <3>4
  <2>2. ASSUME NEW v \in Sweepers PROVE at'[v] \notin {"next", "read", "mark"}
    BY <1>1 DEF Shape, Workers
  <2> QED
    BY <1>1, <2>1, <2>2 DEF Shape
<1> QED
    BY <1>4, <1>5

\* What a change set covers are references to entities.
LEMMA ClosureType ==
    ASSUME NEW s \in Saves, save[s].entity \in Entities
    PROVE  closure(s) \subseteq Ref
<1>1. placingOwners(save[s].entity) \subseteq Entities /\ (save[s].op = "delete") \in BOOLEAN
    BY DEF placingOwners
<1>2. [entity |-> save[s].entity, delete |-> save[s].op = "delete"] \in Ref
    BY <1>1 DEF Ref
<1>3. [entity : placingOwners(save[s].entity), delete : {FALSE}] \subseteq Ref
  <2> DEFINE O == placingOwners(save[s].entity)
  <2> HIDE DEF O
  <2>1. O \subseteq Entities
    BY <1>1 DEF O
  <2>2. [entity : O, delete : {FALSE}] \subseteq Ref
    BY <2>1 DEF Ref
  <2> QED
    BY <2>2 DEF O
<1> QED
    BY <1>2, <1>3 DEF closure

LEMMA DrainType ==
    ASSUME TypeOK, Shape, NEW d \in Drainers, List(d) \/ Lock(d) \/ DrainStep(d) \/ Fault(d)
    PROVE  TypeOK' /\ Shape'
<1>0. /\ d \in Workers /\ d \notin Sweepers /\ MaxFaults \in Nat
      /\ queue[d] # {} => /\ Current(d) \in Saves /\ Current(d) \in queue[d]
                          /\ Own(d) \in Entities
      /\ queue[d] \subseteq {s \in Saves : save[s].state = "closed"}
      /\ at[d] \in Busy => queue[d] # {} /\ save[Current(d)].routed
    BY CurrentIn, MaterializerAssumption DEF Shape, MaterializerAssumption, Workers
<1>1. CASE List(d)
  <2>1. \A S \in SUBSET Saves : \A n : FirstOf(S, n) \subseteq S
    BY DEF FirstOf
  <2>2. Unprocessed \subseteq {s \in Saves : save[s].state = "closed"}
    BY DEF Unprocessed
  <2>3. \E S \in SUBSET {s \in Saves : save[s].state = "closed"} : queue' = [queue EXCEPT ![d] = S]
    BY <1>1, <2>1, <2>2 DEF List
  <2> QED
    BY <1>0, <1>1, <2>3, WorkerType DEF List, TypeOK, requests, marks, git, Busy
<1>2. CASE EndPass(d)
    BY <1>0, <1>2, WorkerType DEF EndPass, TypeOK, requests, marks, git, Busy
<1>3. CASE Orphaned(d)
  <2>1. at' = [at EXCEPT ![d] = "next"]
    BY <1>3 DEF Orphaned, TypeOK
  <2>2. processed' \subseteq Saves /\ withSha' \subseteq processed'
    BY <1>0, <1>3 DEF Orphaned, Mark, TypeOK
  <2>3. \E S \in SUBSET {s \in Saves : save[s].state = "closed"} : queue' = [queue EXCEPT ![d] = S]
    BY <1>0, <1>3 DEF Orphaned
  <2> QED
    BY <1>0, <1>3, <2>1, <2>2, <2>3, WorkerType DEF Orphaned, TypeOK, requests, git, Busy
<1>4. CASE Lock(d)
  <2>1. closure(Current(d)) \subseteq Ref
    BY <1>0, <1>4, ClosureType DEF Lock, Own
  <2> QED
    BY <1>0, <1>4, <2>1, WorkerType DEF Lock, TypeOK, requests, marks, Busy
<1>5. CASE RemoveFile(d)
  <2>1. /\ wt' \in [Entities -> Content] /\ refs' \in [Workers -> SUBSET Ref]
        /\ at' = [at EXCEPT ![d] = "rewrite"] /\ flock = d
    BY <1>0, <1>5 DEF RemoveFile, TypeOK, Content, Ref, Busy
  <2> QED
    BY <1>0, <1>5, <2>1, WorkerType DEF RemoveFile, TypeOK, requests, marks, git, Busy
<1>6. CASE Lookup(d)
  <2>1. PICK r \in refs[d] :
          /\ refs' = [refs EXCEPT ![d] = @ \ {r}]
          /\ IF r.entity \in Fields \/ Exists(r.entity)
               THEN /\ got' = [got EXCEPT ![d] = <<r.entity>>]
                    /\ at' = [at EXCEPT ![d] = "read"]
               ELSE UNCHANGED <<got, at>>
    BY <1>6 DEF Lookup
  <2>2. r.entity \in Entities /\ refs' \in [Workers -> SUBSET Ref] /\ flock = d
    BY <1>0, <1>6, <2>1 DEF Lookup, TypeOK, Ref, Busy
  <2>3. CASE r.entity \in Fields \/ Exists(r.entity)
    <3>1. got' = [got EXCEPT ![d] = <<r.entity>>] /\ at' = [at EXCEPT ![d] = "read"]
      BY <2>1, <2>3
    <3>2. DOMAIN got' = Workers /\ got'[d] \in {<<e>> : e \in Entities}
          /\ \A v \in Workers \ {d} : got'[v] = got[v]
      BY <1>0, <2>2, <3>1 DEF TypeOK
    <3> QED
      BY <1>0, <1>6, <2>2, <3>1, <3>2, WorkerType DEF Lookup, TypeOK, requests, marks, git, Busy
  <2>4. CASE ~(r.entity \in Fields \/ Exists(r.entity))
    <3>1. at' = [at EXCEPT ![d] = "rewrite"] /\ UNCHANGED got
      BY <1>6, <2>1, <2>4 DEF Lookup, TypeOK
    <3> QED
      BY <1>0, <1>6, <2>1, <2>2, <3>1, WorkerType DEF Lookup, TypeOK, requests, marks, git, Busy
  <2> QED
    BY <2>3, <2>4
<1>7. ASSUME at[d] \in Busy, Fail(d), UNCHANGED <<db, requests, marks, git, wt, swept, faults>>
      PROVE  TypeOK' /\ Shape'
  <2>1. refs' \in [Workers -> SUBSET Ref]
    BY <1>0, <1>7 DEF Fail, TypeOK
  <2>2. \E S \in SUBSET {s \in Saves : save[s].state = "closed"} : queue' = [queue EXCEPT ![d] = S]
    BY <1>0, <1>7 DEF Fail
  <2>3. /\ flock' = NoOne /\ at' = [at EXCEPT ![d] = "next"] /\ got' = [got EXCEPT ![d] = NoOne]
        /\ DOMAIN got = Workers
    BY <1>7 DEF Fail, TypeOK
  <2>4. /\ processed' \subseteq Saves /\ withSha' \subseteq processed' /\ authored' \subseteq Saves
        /\ repo' \in BOOLEAN /\ wt' \in [Entities -> Content] /\ head' \in [Entities -> Content]
        /\ faults' \in 0..MaxFaults /\ swept' \subseteq Entities /\ UNCHANGED <<db, requests>>
    BY <1>7 DEF TypeOK, marks, git
  <2> QED
    BY <1>0, <1>7, <2>1, <2>2, <2>3, <2>4, WorkerType DEF Busy
<1>8. CASE ReadRow(d)
  <2>1. got[d][1] \in Entities /\ flock = d /\ at[d] \in Busy
    BY <1>0, <1>8 DEF ReadRow, TypeOK, Busy
  <2>2. CASE Exists(got[d][1])
    <3>1. db[got[d][1]] \in Content \ {Absent, Gone}
      BY <2>1, <2>2 DEF TypeOK, Exists
    <3>2. got' = [got EXCEPT ![d] = <<got[d][1], db[got[d][1]]>>] /\ at' = [at EXCEPT ![d] = "write"]
          /\ UNCHANGED <<flock, queue, refs>>
      BY <1>8, <2>2 DEF ReadRow
    <3> QED
      BY <1>0, <1>8, <2>1, <3>1, <3>2, WorkerType DEF ReadRow, TypeOK, requests, marks, git, Busy
  <2>3. CASE ~Exists(got[d][1]) /\ got[d][1] \in Fields
    <3>1. got' = [got EXCEPT ![d] = NoOne] /\ at' = [at EXCEPT ![d] = "rewrite"]
          /\ UNCHANGED <<flock, queue, refs>>
      BY <1>8, <2>3 DEF ReadRow
    <3> QED
      BY <1>0, <1>8, <2>1, <3>1, WorkerType DEF ReadRow, TypeOK, requests, marks, git, Busy
  <2>4. CASE ~Exists(got[d][1]) /\ got[d][1] \notin Fields
    BY <1>7, <1>8, <2>1, <2>4 DEF ReadRow
  <2> QED
    BY <2>2, <2>3, <2>4
<1>9. CASE WriteFile(d)
  <2>1. got[d] \in Entities \X (Content \ {Absent, Gone}) /\ flock = d
    BY <1>0, <1>9 DEF WriteFile, TypeOK, Busy
  <2>2. wt' \in [Entities -> Content]
    BY <1>9, <2>1 DEF WriteFile, TypeOK
  <2> QED
    BY <1>0, <1>9, <2>1, <2>2, WorkerType DEF WriteFile, TypeOK, requests, marks, git, Busy
<1>10. CASE Commit(d)
  <2>1. authored' \subseteq Saves /\ flock = d /\ DOMAIN got' = Workers
        /\ \A v \in Workers \ {d} : got'[v] = got[v]
    BY <1>0, <1>10 DEF Commit, TypeOK, Busy
  <2> QED
    BY <1>0, <1>10, <2>1, WorkerType DEF Commit, TypeOK, requests, marks, git, Busy
<1>11. CASE MarkProcessed(d)
  <2>1. /\ processed' \subseteq Saves /\ withSha' \subseteq processed'
        /\ queue' = [queue EXCEPT ![d] = queue[d] \ {Current(d)}]
    BY <1>0, <1>11 DEF MarkProcessed, Mark, TypeOK, Busy
  <2> QED
    BY <1>0, <1>11, <2>1, WorkerType DEF MarkProcessed, TypeOK, requests, git, Busy
<1>12. CASE AlwaysFails(d)
    BY <1>7, <1>12 DEF AlwaysFails, Busy
<1>13. CASE Fault(d)
  <2>1. faults' \in 0..MaxFaults /\ refs' \in [Workers -> SUBSET Ref] /\ at[d] \in Busy
    BY <1>0, <1>13 DEF Fault, TypeOK, Busy
  <2>2. \E S \in SUBSET {s \in Saves : save[s].state = "closed"} : queue' = [queue EXCEPT ![d] = S]
    BY <1>0, <1>13 DEF Fault
  <2> QED
    BY <1>0, <1>13, <2>1, <2>2, WorkerType DEF Fault, TypeOK, requests, marks, git, Busy
<1> QED
    BY <1>1, <1>2, <1>3, <1>4, <1>5, <1>6, <1>8, <1>9, <1>10, <1>11, <1>12, <1>13 DEF DrainStep

LEMMA SweepType ==
    ASSUME TypeOK, Shape, NEW w \in Sweepers, SweepLock(w) \/ SweepStep(w) \/ SweepFault(w)
    PROVE  TypeOK' /\ Shape'
<1>0. w \in Workers /\ w \notin Drainers /\ MaxFaults \in Nat
    BY MaterializerAssumption DEF MaterializerAssumption, Workers
<1>1. CASE SweepLock(w)
    BY <1>0, <1>1, WorkerType DEF SweepLock, TypeOK, requests, marks, git, Busy
<1>2. CASE SweepReset(w)
  <2>1. /\ wt' \in [Entities -> Content] /\ refs' \in [Workers -> SUBSET Ref] /\ flock = w
    <3>1. wt' \in [Entities -> Content] /\ flock = w
      BY <1>0, <1>2 DEF SweepReset, Empty, TypeOK, Content, Busy
    <3> DEFINE R == {[entity |-> e, delete |-> FALSE] : e \in {x \in Entities : Exists(x)}}
    <3>2. R \in SUBSET Ref
      <4>1. \A e \in Entities : [entity |-> e, delete |-> FALSE] \in Ref
        BY DEF Ref
      <4> QED
        BY <4>1
    <3>3. refs' = [refs EXCEPT ![w] = R]
      BY <1>2 DEF SweepReset
    <3> HIDE DEF R
    <3> QED
      BY <1>0, <3>1, <3>2, <3>3 DEF TypeOK
  <2> QED
    BY <1>0, <1>2, <2>1, WorkerType DEF SweepReset, TypeOK, requests, marks, git, Busy
<1>3. CASE SweepRead(w)
  <2>1. PICK r \in refs[w] :
          \/ /\ Exists(r.entity)
             /\ got' = [got EXCEPT ![w] = <<r.entity, db[r.entity]>>]
             /\ refs' = [refs EXCEPT ![w] = @ \ {r}]
             /\ at' = [at EXCEPT ![w] = "write"]
             /\ UNCHANGED flock
          \/ /\ ~Exists(r.entity)
             /\ SweepStops(w)
    BY <1>3 DEF SweepRead
  <2>2. r.entity \in Entities /\ refs' \in [Workers -> SUBSET Ref] /\ flock = w
    BY <1>0, <1>3, <2>1 DEF SweepRead, SweepStops, TypeOK, Ref, Busy
  <2>3. CASE Exists(r.entity)
    <3>1. db[r.entity] \in Content \ {Absent, Gone}
      BY <2>2, <2>3 DEF TypeOK, Exists
    <3>2. /\ got' = [got EXCEPT ![w] = <<r.entity, db[r.entity]>>]
          /\ at' = [at EXCEPT ![w] = "write"] /\ UNCHANGED flock
      BY <2>1, <2>3 DEF SweepStops
    <3> QED
      BY <1>0, <1>3, <2>2, <3>1, <3>2, WorkerType
      DEF SweepRead, TypeOK, requests, marks, git, Busy
  <2>4. CASE ~Exists(r.entity)
    BY <1>0, <1>3, <2>1, <2>2, <2>4, WorkerType
    DEF SweepRead, SweepStops, TypeOK, requests, marks, git, Busy
  <2> QED
    BY <2>3, <2>4
<1>4. CASE WriteFile(w)
  <2>1. got[w] \in Entities \X (Content \ {Absent, Gone}) /\ flock = w
    BY <1>0, <1>4 DEF WriteFile, TypeOK, Busy
  <2>2. wt' \in [Entities -> Content]
    BY <1>4, <2>1 DEF WriteFile, TypeOK
  <2> QED
    BY <1>0, <1>4, <2>1, <2>2, WorkerType DEF WriteFile, TypeOK, requests, marks, git, Busy
<1>5. CASE SweepCommit(w)
  <2>1. refs' \in [Workers -> SUBSET Ref] /\ at[w] \in Busy
    BY <1>0, <1>5 DEF SweepCommit, SweepStops, TypeOK, Busy
  <2> QED
    BY <1>0, <1>5, <2>1, WorkerType DEF SweepCommit, SweepStops, TypeOK, requests, marks, git, Busy
<1>6. CASE SweepFault(w)
  <2>1. refs' \in [Workers -> SUBSET Ref] /\ at[w] \in Busy /\ faults' \in 0..MaxFaults
    BY <1>0, <1>6 DEF SweepFault, SweepStops, TypeOK, Busy
  <2> QED
    BY <1>0, <1>6, <2>1, WorkerType DEF SweepFault, SweepStops, TypeOK, requests, marks, git, Busy
<1> QED
    BY <1>1, <1>2, <1>3, <1>4, <1>5, <1>6 DEF SweepStep

-----------------------------------------------------------------------------
(* Requests.                                                               *)

\* What is owed stays owed until it is marked; who writes an entity owes it.
LEMMA RequestOwes ==
    ASSUME TypeOK, Shape, DeleteOK, NEW s \in Saves, Request(s)
    PROVE  /\ \A t \in Saves, e \in Entities : Owes(t, e) => Owes(t, e)'
           /\ \A e \in Entities : \/ db'[e] = db[e]
                                  \/ /\ db[e] # Gone /\ db'[e] # Absent
                                     /\ Owes(s, e)'
                                     /\ db'[e] = Gone => save[s].op = "delete"
           /\ \A t \in Saves \ {s} : save'[t] = save[t]
           /\ save'[s].state # "new" /\ save[s].state # "closed" /\ s \notin processed
           /\ save[s].state # "new" => save'[s].entity = save[s].entity /\ save'[s].op = save[s].op
           /\ UNCHANGED <<processed, wt, head, swept, at, queue, refs, got>>
<1>0. s \in processed => save[s].state = "closed"
    BY DEF DeleteOK
<1>1. CASE Begin(s)
  <2>1. PICK e \in Entities, op \in Ops :
          save' = [save EXCEPT ![s] = [state |-> "open", entity |-> e, op |-> op, routed |-> TRUE]]
    BY <1>1 DEF Begin
  <2> QED
    BY <1>0, <1>1, <2>1 DEF Begin, TypeOK, Owes, marks, git, workers
<1>2. CASE WriteEntity(s)
  <2>1. /\ save' = [save EXCEPT ![s].state = "written"]
        /\ db' = [db EXCEPT ![save[s].entity] = IF save[s].op = "delete" THEN Gone ELSE s]
        /\ db[save[s].entity] # Gone /\ save[s].entity \in Entities /\ save[s].state = "open"
    BY <1>2, MaterializerAssumption DEF WriteEntity, TypeOK, Exists, MaterializerAssumption
  <2>2. s # Gone /\ s # Absent /\ Gone # Absent
    BY MaterializerAssumption DEF MaterializerAssumption
  <2>3. /\ \A t \in Saves \ {s} : save'[t] = save[t]
        /\ save'[s].state = "written" /\ save'[s].entity = save[s].entity /\ save'[s].op = save[s].op
    BY <2>1 DEF TypeOK
  <2> QED
    BY <1>0, <1>2, <2>1, <2>2, <2>3 DEF WriteEntity, TypeOK, Owes, marks, git, workers
<1>3. CASE Refuse(s)
    BY <1>0, <1>3 DEF Refuse, TypeOK, Owes, marks, git, workers
<1>4. CASE CloseChangeSet(s)
  <2>1. PICK known \in Routed :
          save' = [save EXCEPT ![s] = [state |-> "closed", entity |-> @.entity, op |-> @.op, routed |-> known]]
    BY <1>4 DEF CloseChangeSet
  <2> QED
    BY <1>0, <1>4, <2>1 DEF CloseChangeSet, TypeOK, Owes, marks, git, workers
<1>5. CASE FlushFails(s)
    BY <1>0, <1>5 DEF FlushFails, TypeOK, Owes, marks, git, workers
<1> QED
    BY <1>1, <1>2, <1>3, <1>4, <1>5 DEF Request

LEMMA RequestDeletes ==
    ASSUME TypeOK, Shape, DeleteOK, NEW s \in Saves, Request(s)
    PROVE  DeleteOK'
<1>1. \A t \in Saves : t # s => save'[t] = save[t]
    BY RequestOwes
<1>2. ASSUME NEW t \in Saves, Deleted(t)'
      PROVE  db'[save'[t].entity] = Gone
  <2>1. CASE Deleted(t) /\ save'[t].entity = save[t].entity /\ save[t].entity \in Entities
    BY <2>1, RequestOwes DEF DeleteOK
  <2>2. CASE t = s /\ WriteEntity(s)
    BY <1>2, <2>2 DEF WriteEntity, TypeOK, Deleted
  <2>3. t # s => Deleted(t) /\ save'[t].entity = save[t].entity /\ save[t].entity \in Entities
    BY <1>1, <1>2 DEF Deleted, TypeOK
  <2>4. t = s /\ ~WriteEntity(s) =>
          Deleted(t) /\ save'[t].entity = save[t].entity /\ save[t].entity \in Entities
    BY <1>2 DEF Request, Begin, Refuse, CloseChangeSet, FlushFails, Deleted, TypeOK
  <2> QED
    BY <2>1, <2>2, <2>3, <2>4
<1>3. \A t \in Saves : Deleted(t) => Deleted(t)' /\ save'[t].entity = save[t].entity
  <2>1. Deleted(s) => Deleted(s)' /\ save'[s].entity = save[s].entity
    BY DEF Request, Begin, WriteEntity, Refuse, CloseChangeSet, FlushFails, Deleted, TypeOK
  <2> QED
    BY <1>1, <2>1 DEF Deleted
<1>4. ASSUME NEW e \in Entities, db'[e] = Gone
      PROVE  \E t \in Saves : Deleted(t)' /\ save'[t].entity = e
  <2>1. CASE db[e] = Gone
    BY <1>3, <2>1 DEF DeleteOK
  <2>2. CASE db[e] # Gone
    <3>1. Owes(s, e)' /\ save[s].op = "delete"
      BY <1>4, <2>2, RequestOwes
    <3>2. save[s].state # "new"
      BY <1>4, <2>2 DEF Request, Begin, WriteEntity, Refuse, CloseChangeSet, FlushFails
    <3> QED
      BY <3>1, <3>2, RequestOwes DEF Owes, Deleted
  <2> QED
    BY <2>1, <2>2
<1>5. \A e \in Entities : db'[e] = Absent => wt'[e] = Absent /\ head'[e] = Absent
    BY RequestOwes DEF DeleteOK
<1>6. \A t \in processed' : save'[t] = save[t]
    BY <1>1, RequestOwes DEF TypeOK
<1>7. \A t \in processed' :
        /\ save'[t].state = "closed"
        /\ save'[t].op = "delete" /\ save'[t].routed =>
              wt'[save'[t].entity] = Absent /\ head'[save'[t].entity] = Absent
    BY <1>6, RequestOwes DEF DeleteOK
<1> QED
    BY <1>2, <1>4, <1>5, <1>7 DEF DeleteOK

LEMMA RequestSafe ==
    ASSUME IInv, NEW s \in Saves, Request(s)
    PROVE  IInv'
<1> USE DEF IInv
<1>1. TypeOK' /\ Shape' /\ DeleteOK'
    BY RequestType, RequestDeletes
<1>2. /\ \A t \in Saves, e \in Entities : Owes(t, e) => Owes(t, e)'
      /\ \A e \in Entities : File(e)' = File(e) \/ Owes(s, e)'
      /\ UNCHANGED <<processed, wt, head, swept, at, queue, refs, got>>
    BY RequestOwes DEF File, Exists
<1>3. FilesOK'
    BY <1>2 DEF FilesOK, Owed, SweptAway
<1>4. ASSUME NEW d \in Drainers, at[d] \in Busy PROVE RefsOK(d)' /\ GotOK(d)' /\ \A e \in Entities : Settled(d, e)'
  <2>1. /\ Current(d) \in Saves \ {s} /\ Current(d)' = Current(d)
        /\ save'[Current(d)] = save[Current(d)]
    <3>1. queue[d] # {} /\ s \notin queue[d]
      BY <1>4, RequestOwes DEF Shape
    <3>2. begun' = begun \/ begun' = Append(begun, s)
      BY DEF Request, Begin, WriteEntity, Refuse, CloseChangeSet, FlushFails, requests
    <3> QED
      BY <1>2, <3>1, <3>2, CurrentIn, CurrentStays, RequestOwes
  <2>2. \A e \in Entities : /\ OwedByAnother(d, e) => OwedByAnother(d, e)'
                            /\ File(e)' = File(e) \/ OwedByAnother(d, e)'
    BY <1>2, <2>1 DEF OwedByAnother
  <2>3. RefsOK(d)'
    BY <1>2, <1>4, <2>1 DEF DrainOK, RefsOK, Own, Deletes
  <2>4. GotOK(d)'
    <3>1. at[d] = "write" => got[d][1] \in Entities
      BY DEF TypeOK, Workers
    <3>2. \A t \in processed : save'[t] = save[t]
      BY RequestOwes DEF TypeOK
    <3>3. at[d] = "write" => db'[got[d][1]] # Absent
      BY <1>4, <3>1, RequestOwes DEF DrainOK, GotOK
    <3> QED
      BY <1>2, <1>4, <2>1, <2>2, <3>1, <3>2, <3>3 DEF DrainOK, GotOK, Own, Deletes
  <2>5. \A e \in Entities : Settled(d, e)'
    BY <1>2, <1>4, <2>2 DEF DrainOK, Settled, SweptAway
  <2> QED
    BY <2>3, <2>4, <2>5
<1>5. ASSUME NEW w \in Sweepers PROVE SweepOK(w)'
  <2>1. \A e \in Entities : (Owed(e) => Owed(e)') /\ (File(e)' = File(e) \/ Owed(e)')
    BY <1>2 DEF Owed
  <2>2. \A e \in Entities : Rebuilt(w, e) => Rebuilt(w, e)'
    BY <1>2, <2>1 DEF Rebuilt
  <2>3. SweepGotOK(w) => SweepGotOK(w)'
    <3>1. at[w] = "write" => got[w][1] \in Entities
      BY DEF TypeOK, Workers
    <3>2. \A t \in processed : save'[t] = save[t]
      BY RequestOwes DEF TypeOK
    <3>3. \A e \in Entities : db[e] # Absent => db'[e] # Absent
      BY RequestOwes
    <3> QED
      BY <1>2, <2>1, <3>1, <3>2, <3>3 DEF SweepGotOK
  <2> QED
    BY <1>2, <2>2, <2>3 DEF SweepOK
<1> QED
    BY <1>1, <1>2, <1>3, <1>4, <1>5 DEF DrainOK

-----------------------------------------------------------------------------
(* Drainers.                                                               *)

\* No worker writes files; at most a change set that cannot be routed is
\* marked, and it is given up.
LEMMA QuietSafe ==
    ASSUME IInv, TypeOK', Shape', UNCHANGED <<db, requests, wt, head, swept>>,
           processed' = processed \/ \E t \in Saves : /\ save[t].state = "closed" /\ ~save[t].routed
                                                      /\ processed' = processed \cup {t},
           \A d \in Drainers : at'[d] \in Busy =>
               at'[d] = at[d] /\ refs'[d] = refs[d] /\ got'[d] = got[d] /\ queue'[d] = queue[d],
           \A w \in Sweepers : at'[w] \in {"rewrite", "write"} =>
               at'[w] = at[w] /\ refs'[w] = refs[w] /\ got'[w] = got[w]
    PROVE  IInv'
<1> USE DEF IInv
<1>1. UNCHANGED <<db, save, begun, wt, head, swept>>
    BY DEF requests
<1>2. /\ \A s \in Saves, e \in Entities : Owes(s, e) => Owes(s, e)'
      /\ \A e \in Entities : File(e)' = File(e)
      /\ \A t \in processed' : t \in processed \/ (save[t].state = "closed" /\ ~save[t].routed)
    BY <1>1 DEF Owes, File, Exists
<1>3. FilesOK'
    BY <1>1, <1>2 DEF FilesOK, Owed, SweptAway
<1>4. DeleteOK'
    BY <1>1, <1>2 DEF DeleteOK, Deleted
<1>5. ASSUME NEW d \in Drainers, at'[d] \in Busy PROVE DrainOK(d)'
  <2>1. Current(d)' = Current(d) /\ UNCHANGED <<at[d], refs[d], got[d], queue[d]>>
    BY <1>1, <1>5 DEF Current
  <2>2. \A e \in Entities : OwedByAnother(d, e) => OwedByAnother(d, e)'
    BY <1>2, <2>1 DEF OwedByAnother
  <2>3. RefsOK(d)'
    BY <1>1, <1>5, <2>1 DEF DrainOK, RefsOK, Own, Deletes
  <2>4. GotOK(d)'
    <3>1. at[d] = "write" => got[d][1] \in Entities
      BY DEF TypeOK, Workers
    <3> QED
      BY <1>1, <1>2, <1>5, <2>1, <2>2, <3>1 DEF DrainOK, GotOK, Own, Deletes
  <2>5. \A e \in Entities : Settled(d, e)'
    BY <1>1, <1>2, <1>5, <2>1, <2>2 DEF DrainOK, Settled, SweptAway
  <2> QED
    BY <2>3, <2>4, <2>5 DEF DrainOK
<1>6. ASSUME NEW w \in Sweepers, at'[w] \in {"rewrite", "write"} PROVE SweepOK(w)'
  <2>1. UNCHANGED <<at[w], refs[w], got[w]>> /\ \A e \in Entities : Owed(e) => Owed(e)'
    BY <1>2, <1>6 DEF Owed
  <2>2. \A e \in Entities : Rebuilt(w, e)'
    BY <1>1, <1>2, <1>6, <2>1 DEF SweepOK, Rebuilt
  <2>3. SweepGotOK(w)'
    <3>1. at[w] = "write" => got[w][1] \in Entities
      BY DEF TypeOK, Workers
    <3> QED
      BY <1>1, <1>2, <1>6, <2>1, <3>1 DEF SweepOK, SweepGotOK
  <2> QED
    BY <2>2, <2>3 DEF SweepOK
<1> QED
    BY <1>3, <1>4, <1>5, <1>6 DEF DrainOK, SweepOK

\* A drainer at work: it alone is busy, and what the others owe is as it was.
LEMMA WorkFrame ==
    ASSUME TypeOK, TypeOK', NEW d \in Drainers, UNCHANGED <<db, requests, queue, processed>>, flock' = d
    PROVE  /\ UNCHANGED <<db, save, begun>> /\ Current(d)' = Current(d)
           /\ \A s, e : Owes(s, e)' <=> Owes(s, e)
           /\ \A e \in Entities : /\ File(e)' = File(e) /\ (Owed(e)' <=> Owed(e))
                                  /\ OwedByAnother(d, e)' <=> OwedByAnother(d, e)
           /\ \A c \in Drainers \ {d} : at'[c] \notin Busy
           /\ \A w \in Sweepers : SweepOK(w)'
<1>1. UNCHANGED <<db, save, begun>> /\ Current(d)' = Current(d)
    BY DEF requests, Current
<1>2. \A s, e : Owes(s, e)' <=> Owes(s, e)
    BY <1>1 DEF Owes
<1>3. \A e \in Entities : /\ File(e)' = File(e) /\ (Owed(e)' <=> Owed(e))
                          /\ OwedByAnother(d, e)' <=> OwedByAnother(d, e)
    BY <1>1, <1>2 DEF File, Exists, Owed, OwedByAnother
<1>4. \A c \in Drainers \ {d} : at'[c] \notin Busy
    BY DEF TypeOK, Workers
<1>5. \A w \in Sweepers : at'[w] \notin Busy
    BY MaterializerAssumption DEF TypeOK, Workers, MaterializerAssumption
<1>6. \A w \in Sweepers : SweepOK(w)'
    BY <1>5 DEF SweepOK, Busy
<1> QED
    BY <1>1, <1>2, <1>3, <1>4, <1>6

\* Deleted for good: a row that is not there is one whose file is not there,
\* or is owed by another change set, unless it is the one d deletes.
LEMMA NotThere ==
    ASSUME IInv, NEW d \in Drainers, at[d] \in Busy, NEW e \in Entities, ~Exists(e),
           e = Own(d) => ~Deletes(d)
    PROVE  wt[e] = File(e) \/ OwedByAnother(d, e)
<1> USE DEF IInv
<1>1. CASE db[e] = Absent
    BY <1>1 DEF DeleteOK, File, Exists
<1>2. CASE db[e] = Gone
  <2>1. PICK s \in Saves : Deleted(s) /\ save[s].entity = e
    BY <1>2 DEF DeleteOK
  <2>2. s # Current(d)
    BY <2>1 DEF Own, Deletes, Deleted
  <2>3. Owes(s, e) \/ (s \in processed /\ save[s].routed)
    BY <2>1 DEF Owes, Deleted
  <2>4. CASE s \in processed /\ save[s].routed
    BY <1>2, <2>1, <2>4 DEF DeleteOK, Deleted, File, Exists
  <2> QED
    BY <2>2, <2>3, <2>4 DEF OwedByAnother
<1> QED
    BY <1>1, <1>2 DEF Exists

LEMMA LockSafe ==
    ASSUME IInv, TypeOK', Shape', NEW d \in Drainers, Lock(d)
    PROVE  IInv'
<1> USE DEF IInv
<1>1. /\ Current(d) \in Saves /\ Own(d) \in Entities /\ at'[d] = "rewrite"
      /\ refs'[d] = closure(Current(d)) /\ UNCHANGED <<wt, head, processed, swept>>
    BY CurrentIn DEF Lock, marks, TypeOK, Workers
<1>2. /\ UNCHANGED <<db, save, begun>> /\ Current(d)' = Current(d)
      /\ \A e \in Entities : /\ File(e)' = File(e) /\ (Owed(e)' <=> Owed(e))
                             /\ OwedByAnother(d, e)' <=> OwedByAnother(d, e)
      /\ \A c \in Drainers \ {d} : at'[c] \notin Busy
      /\ \A w \in Sweepers : SweepOK(w)'
    BY <1>1, WorkFrame DEF Lock, marks
<1>3. FilesOK' /\ DeleteOK'
    BY <1>1, <1>2 DEF FilesOK, DeleteOK, Deleted, SweptAway
<1>4. /\ [entity |-> Own(d), delete |-> Deletes(d)] \in closure(Current(d))
      /\ \A r \in closure(Current(d)) : r.delete <=> r.entity = Own(d) /\ Deletes(d)
  <2>1. \A m \in placingOwners(Own(d)) : m # Own(d)
    BY MaterializerAssumption DEF placingOwners, MaterializerAssumption
  <2>2. \A r \in [entity : placingOwners(Own(d)), delete : {FALSE}] : r.entity # Own(d) /\ r.delete = FALSE
    BY <2>1
  <2> DEFINE x == [entity |-> Own(d), delete |-> Deletes(d)]
             O == [entity : placingOwners(Own(d)), delete : {FALSE}]
  <2>3. closure(Current(d)) = {x} \cup O
    BY DEF closure, Own, Deletes
  <2>4. x.entity = Own(d) /\ x.delete = Deletes(d)
    OBVIOUS
  <2> HIDE DEF x, O
  <2>5. x \in closure(Current(d)) /\ \A r \in closure(Current(d)) : r = x \/ r \in O
    BY <2>3
  <2>6. \A r \in O : r.entity # Own(d) /\ r.delete = FALSE
    BY <2>2 DEF O
  <2> QED
    BY <2>4, <2>5, <2>6 DEF x
<1>5. RefsOK(d)'
    BY <1>1, <1>2, <1>4 DEF RefsOK, Own, Deletes
<1>6. GotOK(d)'
    BY <1>1 DEF GotOK
<1>7. ASSUME NEW e \in Entities PROVE Settled(d, e)'
  <2>1. CASE e = Own(d)
    BY <1>1, <1>4, <2>1 DEF Settled
  <2>2. CASE e # Own(d)
    <3>1. Owed(e) => OwedByAnother(d, e)
      BY <2>2 DEF Owed, OwedByAnother, Owes, Own
    <3> QED
      BY <1>1, <1>2, <3>1 DEF Settled, FilesOK, SweptAway
  <2> QED
    BY <2>1, <2>2
<1> QED
    BY <1>2, <1>3, <1>5, <1>6, <1>7 DEF DrainOK

LEMMA RemoveSafe ==
    ASSUME IInv, TypeOK', Shape', NEW d \in Drainers, RemoveFile(d)
    PROVE  IInv'
<1> USE DEF IInv
<1>0. /\ d \in Workers /\ at[d] \in Busy /\ queue[d] # {} /\ at'[d] = "rewrite" /\ flock' = d
      /\ UNCHANGED <<db, requests, queue, processed, at, got, head, swept>>
    BY DEF RemoveFile, Workers, Busy, Shape, TypeOK, marks, git
<1>1. PICK r \in refs[d] : /\ r.delete
                           /\ wt' = [wt EXCEPT ![r.entity] = Absent]
                           /\ refs' = [refs EXCEPT ![d] = @ \ {r}]
    BY DEF RemoveFile
<1>2. /\ r.entity = Own(d) /\ Deletes(d) /\ db[Own(d)] = Gone /\ File(Own(d)) = Absent
      /\ Own(d) \in Entities
  <2>1. r.entity = Own(d) /\ Deletes(d)
    BY <1>0, <1>1 DEF DrainOK, RefsOK
  <2>2. Deleted(Current(d)) /\ Current(d) \in Saves /\ Own(d) \in Entities
    BY <1>0, <2>1, CurrentIn DEF Deletes, Deleted
  <2> QED
    BY <2>1, <2>2 DEF DeleteOK, Own, File, Exists
<1>3. /\ wt'[Own(d)] = Absent
      /\ \A e \in Entities \ {Own(d)} : wt'[e] = wt[e]
      /\ refs'[d] = refs[d] \ {r}
    BY <1>0, <1>1, <1>2 DEF TypeOK
<1>4. /\ UNCHANGED <<db, save, begun>> /\ Current(d)' = Current(d)
      /\ \A e \in Entities : /\ File(e)' = File(e) /\ (Owed(e)' <=> Owed(e))
                             /\ OwedByAnother(d, e)' <=> OwedByAnother(d, e)
      /\ \A c \in Drainers \ {d} : at'[c] \notin Busy
      /\ \A w \in Sweepers : SweepOK(w)'
    BY <1>0, WorkFrame
<1>5. FilesOK'
    BY <1>0, <1>2, <1>3, <1>4 DEF FilesOK, SweptAway
<1>6. DeleteOK'
  <2>1. \A s \in processed : save[s].entity \in Entities
    BY DEF DeleteOK, TypeOK
  <2> QED
    BY <1>0, <1>2, <1>3, <1>4, <2>1 DEF DeleteOK, Deleted
<1>7. RefsOK(d)'
    BY <1>0, <1>3, <1>4 DEF DrainOK, RefsOK, Own, Deletes
<1>8. GotOK(d)'
    BY <1>0 DEF GotOK
<1>9. ASSUME NEW e \in Entities PROVE Settled(d, e)'
  <2>1. Settled(d, e)
    BY <1>0 DEF DrainOK
  <2>2. at[d] = "rewrite"
    BY DEF RemoveFile
  <2> QED
    BY <1>0, <1>1, <1>2, <1>3, <1>4, <2>1, <2>2 DEF Settled, SweptAway
<1> QED
    BY <1>4, <1>5, <1>6, <1>7, <1>8, <1>9 DEF DrainOK

\* The other steps between the lock and the commit write no file but that of
\* got, and drop no reference but one that got takes up or that needs no file.
LEMMA StepSafe ==
    ASSUME IInv, TypeOK', Shape', NEW d \in Drainers, at[d] \in Busy, at'[d] \in Busy,
           UNCHANGED <<db, requests, queue, processed, wt, head, swept>>, flock' = d,
           refs'[d] \subseteq refs[d], \A r \in refs[d] \ refs'[d] : ~r.delete,
           GotOK(d)', \A e \in Entities : Settled(d, e)'
    PROVE  IInv'
<1> USE DEF IInv
<1>1. /\ UNCHANGED <<db, save, begun, wt, head, swept, processed>> /\ Current(d)' = Current(d)
      /\ \A e \in Entities : /\ File(e)' = File(e) /\ (Owed(e)' <=> Owed(e))
                             /\ OwedByAnother(d, e)' <=> OwedByAnother(d, e)
      /\ \A c \in Drainers \ {d} : at'[c] \notin Busy
      /\ \A w \in Sweepers : SweepOK(w)'
    BY WorkFrame
<1>2. FilesOK' /\ DeleteOK'
    BY <1>1 DEF FilesOK, DeleteOK, Deleted, SweptAway
<1>3. RefsOK(d)'
  <2>1. RefsOK(d)
    BY DEF DrainOK
  <2>2. \A r \in refs[d] : r.entity = Own(d) /\ Deletes(d) => r \in refs'[d]
    BY <2>1 DEF RefsOK
  <2> QED
    BY <1>1, <2>1, <2>2 DEF RefsOK, Own, Deletes
<1> QED
    BY <1>1, <1>2, <1>3 DEF DrainOK

LEMMA LookupSafe ==
    ASSUME IInv, TypeOK', Shape', NEW d \in Drainers, Lookup(d)
    PROVE  IInv'
<1> USE DEF IInv
<1>0. /\ d \in Workers /\ at[d] \in Busy /\ flock' = d /\ at[d] = "rewrite"
      /\ UNCHANGED <<db, requests, queue, processed, wt, head, swept>>
    BY DEF Lookup, Workers, Busy, TypeOK, marks, git
<1>1. PICK r \in refs[d] :
        /\ ~r.delete
        /\ refs' = [refs EXCEPT ![d] = @ \ {r}]
        /\ IF r.entity \in Fields \/ Exists(r.entity)
             THEN /\ got' = [got EXCEPT ![d] = <<r.entity>>]
                  /\ at' = [at EXCEPT ![d] = "read"]
             ELSE UNCHANGED <<got, at>>
    BY DEF Lookup
<1>2. /\ r.entity \in Entities /\ (r.entity = Own(d) => ~Deletes(d))
      /\ refs'[d] = refs[d] \ {r}
  <2>1. r \in Ref
    BY <1>0 DEF TypeOK
  <2>2. r.entity = Own(d) => ~Deletes(d)
    BY <1>0, <1>1 DEF DrainOK, RefsOK
  <2> QED
    BY <1>0, <1>1, <2>1, <2>2 DEF TypeOK, Ref
<1>3. /\ Current(d)' = Current(d) /\ UNCHANGED <<db, save>>
      /\ \A e \in Entities : File(e)' = File(e) /\ (OwedByAnother(d, e)' <=> OwedByAnother(d, e))
    BY <1>0, WorkFrame
<1>4. CASE r.entity \in Fields \/ Exists(r.entity)
  <2>1. at'[d] = "read" /\ got'[d][1] = r.entity
    BY <1>0, <1>1, <1>4 DEF TypeOK
  <2>2. GotOK(d)'
    BY <1>2, <1>3, <2>1 DEF GotOK, Own, Deletes
  <2>3. \A e \in Entities : Settled(d, e)'
    BY <1>0, <1>2, <1>3, <2>1 DEF DrainOK, Settled, SweptAway
  <2> QED
    BY <1>0, <1>1, <1>2, <2>1, <2>2, <2>3, StepSafe DEF Busy
<1>5. CASE ~(r.entity \in Fields \/ Exists(r.entity))
  <2>1. at'[d] = "rewrite"
    BY <1>0, <1>1, <1>5
  <2>2. GotOK(d)'
    BY <2>1 DEF GotOK
  <2>3. wt[r.entity] = File(r.entity) \/ OwedByAnother(d, r.entity)
    BY <1>0, <1>2, <1>5, NotThere
  <2>4. \A e \in Entities : Settled(d, e)'
    BY <1>0, <1>2, <1>3, <2>3 DEF DrainOK, Settled, SweptAway
  <2> QED
    BY <1>0, <1>1, <1>2, <2>1, <2>2, <2>4, StepSafe DEF Busy
<1> QED
    BY <1>4, <1>5

\* A row that is read is one that has not been deleted.
LEMMA ReadSafe ==
    ASSUME IInv, TypeOK', Shape', NEW d \in Drainers, ReadRow(d),
           Exists(got[d][1]) \/ got[d][1] \in Fields
    PROVE  IInv'
<1> USE DEF IInv
<1> DEFINE e == got[d][1]
<1>0. /\ d \in Workers /\ at[d] \in Busy /\ flock = d /\ at[d] = "read" /\ e \in Entities
      /\ UNCHANGED <<db, requests, processed, wt, head, swept>>
      /\ e = Own(d) => ~Deletes(d)
  <2>1. d \in Workers /\ at[d] = "read" /\ at[d] \in Busy
    BY DEF ReadRow, Workers, Busy
  <2> QED
    BY <2>1 DEF ReadRow, TypeOK, marks, git, DrainOK, GotOK
<1>1. UNCHANGED <<flock, queue, refs>>
    BY DEF ReadRow
<1>2. /\ Current(d)' = Current(d) /\ UNCHANGED <<db, save>>
      /\ \A x \in Entities : File(x)' = File(x) /\ (OwedByAnother(d, x)' <=> OwedByAnother(d, x))
    BY <1>0, <1>1, WorkFrame
<1>3. CASE Exists(e)
  <2>1. at'[d] = "write" /\ got'[d] = <<e, db[e]>>
    BY <1>0, <1>3 DEF ReadRow, TypeOK
  <2>2. GotOK(d)'
    <3>1. db[e] # Absent /\ File(e) = db[e] /\ db[e] # Gone
      BY <1>3 DEF Exists, File
    <3>2. \A s \in processed : save[s].op = "delete" /\ save[s].routed => save[s].entity # e
      BY <3>1 DEF DeleteOK, Deleted, TypeOK
    <3> QED
      BY <1>0, <1>2, <2>1, <3>1, <3>2 DEF GotOK, Own, Deletes
  <2>3. \A x \in Entities : Settled(d, x)'
    BY <1>0, <1>1, <1>2, <2>1 DEF DrainOK, Settled, SweptAway
  <2> QED
    BY <1>0, <1>1, <2>1, <2>2, <2>3, StepSafe DEF Busy
<1>4. CASE ~Exists(e)
  <2>1. at'[d] = "rewrite"
    BY <1>0, <1>4 DEF ReadRow, TypeOK
  <2>2. GotOK(d)'
    BY <2>1 DEF GotOK
  <2>3. wt[e] = File(e) \/ OwedByAnother(d, e)
    BY <1>0, <1>4, NotThere
  <2>4. \A x \in Entities : Settled(d, x)'
    BY <1>0, <1>1, <1>2, <2>3 DEF DrainOK, Settled, SweptAway
  <2> QED
    BY <1>0, <1>1, <2>1, <2>2, <2>4, StepSafe DEF Busy
<1> QED
    BY <1>3, <1>4

LEMMA WriteSafe ==
    ASSUME IInv, TypeOK', Shape', NEW d \in Drainers, WriteFile(d)
    PROVE  IInv'
<1> USE DEF IInv
<1> DEFINE e == got[d][1]
           v == got[d][2]
<1>0. /\ d \in Workers /\ at[d] \in Busy /\ flock' = d /\ at[d] = "write" /\ e \in Entities
      /\ UNCHANGED <<db, requests, processed, head, swept, queue, refs>> /\ at'[d] = "rewrite"
  <2>1. d \in Workers /\ at[d] = "write" /\ at[d] \in Busy
    BY DEF WriteFile, Workers, Busy
  <2> QED
    BY <2>1 DEF WriteFile, TypeOK, marks, git
<1>1. wt'[e] = v /\ \A x \in Entities \ {e} : wt'[x] = wt[x]
    BY <1>0 DEF WriteFile, TypeOK
<1>2. /\ Current(d)' = Current(d) /\ UNCHANGED <<db, save>>
      /\ \A x \in Entities : /\ File(x)' = File(x) /\ (Owed(x)' <=> Owed(x))
                             /\ OwedByAnother(d, x)' <=> OwedByAnother(d, x)
      /\ \A c \in Drainers \ {d} : at'[c] \notin Busy
      /\ \A w \in Sweepers : SweepOK(w)'
    BY <1>0, WorkFrame
<1>3. /\ e = Own(d) => ~Deletes(d)
      /\ db[e] # Absent
      /\ v = File(e) \/ OwedByAnother(d, e)
      /\ \A s \in processed : save[s].op = "delete" /\ save[s].routed => save[s].entity # e
    BY <1>0 DEF DrainOK, GotOK
<1>4. FilesOK'
    BY <1>0, <1>1, <1>2, <1>3 DEF FilesOK, Owed, OwedByAnother, SweptAway
<1>5. DeleteOK'
  <2>1. \A s \in processed : save[s].entity \in Entities
    BY DEF DeleteOK, TypeOK
  <2> QED
    BY <1>0, <1>1, <1>2, <1>3, <2>1 DEF DeleteOK, Deleted
<1>6. RefsOK(d)'
  <2>1. Own(d) \in Entities
    BY <1>0, CurrentIn DEF Shape
  <2> QED
    BY <1>0, <1>1, <1>2, <1>3, <2>1 DEF DrainOK, RefsOK, Own, Deletes
<1>7. GotOK(d)'
    BY <1>0 DEF GotOK
<1>8. \A x \in Entities : Settled(d, x)'
    BY <1>0, <1>1, <1>2, <1>3 DEF DrainOK, Settled, SweptAway
<1> QED
    BY <1>2, <1>4, <1>5, <1>6, <1>7, <1>8 DEF DrainOK

LEMMA CommitSafe ==
    ASSUME IInv, TypeOK', Shape', NEW d \in Drainers, Commit(d)
    PROVE  IInv'
<1> USE DEF IInv
<1>0. /\ d \in Workers /\ at[d] \in Busy /\ flock' = d /\ at[d] = "rewrite" /\ at'[d] = "mark"
      /\ UNCHANGED <<db, requests, processed, wt, queue, refs>> /\ head' = wt /\ refs[d] = {}
      /\ swept' = {e \in swept : wt[e] = Absent}
    BY DEF Commit, TypeOK, Workers, Busy, marks
<1>1. /\ Current(d)' = Current(d) /\ UNCHANGED <<db, save>>
      /\ \A x \in Entities : /\ File(x)' = File(x) /\ (Owed(x)' <=> Owed(x))
                             /\ OwedByAnother(d, x)' <=> OwedByAnother(d, x)
      /\ \A c \in Drainers \ {d} : at'[c] \notin Busy
      /\ \A w \in Sweepers : SweepOK(w)'
    BY <1>0, WorkFrame
<1>2. FilesOK' /\ DeleteOK'
    BY <1>0, <1>1 DEF FilesOK, DeleteOK, Deleted, SweptAway
<1>3. RefsOK(d)'
    BY <1>0, <1>1 DEF DrainOK, RefsOK, Own, Deletes
<1>4. GotOK(d)'
    BY <1>0 DEF GotOK
<1>5. \A x \in Entities : Settled(d, x)'
    BY <1>0, <1>1 DEF DrainOK, Settled, SweptAway
<1> QED
    BY <1>1, <1>2, <1>3, <1>4, <1>5 DEF DrainOK

\* When a change set is marked nothing is owed but by others.
LEMMA MarkSafe ==
    ASSUME IInv, TypeOK', Shape', NEW d \in Drainers, MarkProcessed(d)
    PROVE  IInv'
<1> USE DEF IInv
<1>0. /\ d \in Workers /\ at[d] \in Busy /\ at[d] = "mark" /\ refs[d] = {} /\ head = wt
      /\ UNCHANGED <<db, save, wt, head, swept>> /\ processed' = processed \cup {Current(d)}
      /\ Current(d) \in Saves /\ save[Current(d)].state = "closed"
    <2>1. d \in Workers /\ at[d] = "mark" /\ at[d] \in Busy
      BY DEF MarkProcessed, Workers, Busy
    <2>2. Current(d) \in Saves /\ save[Current(d)].state = "closed" /\ refs[d] = {} /\ head = wt
      BY <2>1, CurrentIn DEF Shape, DrainOK, GotOK
    <2> QED
      BY <2>1, <2>2 DEF MarkProcessed, Mark, requests, git
<1>1. \A e \in Entities : /\ File(e)' = File(e)
                          /\ OwedByAnother(d, e) => Owed(e)'
                          /\ e # Own(d) /\ Owed(e) => Owed(e)'
    BY <1>0 DEF File, Exists, Owed, OwedByAnother, Owes, Own
<1>2. FilesOK'
  <2>1. ASSUME NEW e \in Entities, wt[e] # File(e) PROVE Owed(e)' \/ SweptAway(e, wt)
    <3>1. Settled(d, e)
      BY <1>0 DEF DrainOK
    <3> QED
      BY <1>0, <1>1, <2>1, <3>1 DEF Settled
  <2> QED
    BY <1>0, <1>1, <2>1 DEF FilesOK, SweptAway
<1>3. DeleteOK'
  <2>1. Deletes(d) => wt[Own(d)] = Absent /\ head[Own(d)] = Absent
    BY <1>0 DEF DrainOK, RefsOK
  <2>2. \A s \in processed' : s \in processed \/ s = Current(d)
    BY <1>0
  <2> QED
    BY <1>0, <2>1, <2>2 DEF DeleteOK, Deleted, Deletes, Own
<1>4. \A c \in Workers : at'[c] \notin Busy
  <2>1. \A c \in Workers \ {d} : at[c] \notin Busy
    BY <1>0, OneWorks
  <2> QED
    BY <1>0, <2>1 DEF MarkProcessed, TypeOK, Busy
<1> QED
    BY <1>2, <1>3, <1>4 DEF DrainOK, SweepOK, Workers, Busy

-----------------------------------------------------------------------------
LEMMA DrainSafe ==
    ASSUME IInv, NEW d \in Drainers, List(d) \/ Lock(d) \/ DrainStep(d) \/ Fault(d)
    PROVE  IInv'
<1>0. d \in Workers /\ TypeOK /\ Shape
    BY DEF Workers, IInv
<1>1. TypeOK' /\ Shape'
    BY <1>0, DrainType
<1>2. ASSUME List(d) \/ EndPass(d) PROVE IInv'
  <2>1. /\ UNCHANGED <<db, requests, wt, head, swept, processed, refs, got>>
        /\ at'[d] \notin Busy /\ \A c \in Workers \ {d} : at'[c] = at[c] /\ queue'[c] = queue[c]
    BY <1>0, <1>2 DEF List, EndPass, TypeOK, Busy, marks, git
  <2> QED
    BY <1>0, <1>1, <2>1, QuietSafe DEF Workers, Busy
<1>3. ASSUME Orphaned(d) PROVE IInv'
  <2>1. /\ UNCHANGED <<db, requests, wt, head, swept, at, refs, got>> /\ at[d] \notin Busy
        /\ \A c \in Drainers \ {d} : queue'[c] = queue[c]
    BY <1>0, <1>3 DEF Orphaned, TypeOK, Workers, Busy, git
  <2>2. /\ Current(d) \in Saves /\ save[Current(d)].state = "closed" /\ ~save[Current(d)].routed
        /\ processed' = processed \cup {Current(d)}
    BY <1>0, <1>3, CurrentIn DEF Orphaned, Mark
  <2> QED
    BY <1>1, <2>1, <2>2, QuietSafe
<1>4. ASSUME at[d] \in Busy, flock' = NoOne, at' = [at EXCEPT ![d] = "next"],
             UNCHANGED <<db, requests, wt, head, swept, processed>>
      PROVE  IInv'
  <2>1. \A c \in Workers : at'[c] \notin Busy
    BY <1>0, <1>4, OneWorks DEF TypeOK, Busy
  <2> QED
    BY <1>1, <1>4, <2>1, QuietSafe DEF Workers, Busy
<1>5. ASSUME Fault(d) \/ AlwaysFails(d) PROVE IInv'
    BY <1>4, <1>5 DEF Fault, AlwaysFails, Fail, Busy, marks, git
<1>6. ASSUME ReadRow(d) PROVE IInv'
  <2>1. CASE Exists(got[d][1]) \/ got[d][1] \in Fields
    BY <1>1, <1>6, <2>1, ReadSafe
  <2>2. CASE ~(Exists(got[d][1]) \/ got[d][1] \in Fields)
    BY <1>4, <1>6, <2>2 DEF ReadRow, Fail, Busy, marks, git
  <2> QED
    BY <2>1, <2>2
<1> QED
    BY <1>1, <1>2, <1>3, <1>5, <1>6, LockSafe, RemoveSafe, LookupSafe, WriteSafe, CommitSafe, MarkSafe
    DEF DrainStep

-----------------------------------------------------------------------------
(* Sweeps.                                                                 *)

\* A sweep at work: no drainer and no other sweep is busy.
LEMMA SweepFrame ==
    ASSUME TypeOK, TypeOK', NEW w \in Sweepers, UNCHANGED <<db, requests, processed>>, flock' = w
    PROVE  /\ UNCHANGED <<db, save, begun>>
           /\ \A e \in Entities : File(e)' = File(e) /\ (Owed(e)' <=> Owed(e))
           /\ \A d \in Drainers : DrainOK(d)'
           /\ \A v \in Sweepers \ {w} : SweepOK(v)'
<1>1. UNCHANGED <<db, save, begun>>
    BY DEF requests
<1>2. \A e \in Entities : File(e)' = File(e) /\ (Owed(e)' <=> Owed(e))
    BY <1>1 DEF File, Exists, Owed, Owes
<1>3. \A v \in Workers \ {w} : at'[v] \notin Busy
    BY DEF TypeOK
<1>4. \A d \in Drainers : DrainOK(d)'
    BY <1>3, MaterializerAssumption DEF DrainOK, Workers, MaterializerAssumption
<1>5. \A v \in Sweepers \ {w} : SweepOK(v)'
    BY <1>3 DEF SweepOK, Workers, Busy
<1> QED
    BY <1>1, <1>2, <1>4, <1>5

\* The work tree is emptied: what was in it is swept away, and on the list.
LEMMA ResetSafe ==
    ASSUME IInv, TypeOK', Shape', NEW w \in Sweepers, SweepReset(w)
    PROVE  IInv'
<1> USE DEF IInv
<1>0. /\ w \in Workers /\ flock' = w /\ at'[w] = "rewrite"
      /\ UNCHANGED <<db, requests, processed, head>>
      /\ swept' = swept \cup {e \in Entities : wt[e] # Absent}
      /\ \A e \in Entities : wt'[e] = Absent
    BY DEF SweepReset, Workers, Busy, TypeOK, marks, git, Empty
<1>1. \A e \in Entities : Exists(e) => \E r \in refs'[w] : r.entity = e
  <2> DEFINE R == {[entity |-> e, delete |-> FALSE] : e \in {x \in Entities : Exists(x)}}
  <2>1. \A e \in Entities : Exists(e) => \E r \in R : r.entity = e
    <3>1. ASSUME NEW e \in Entities, Exists(e) PROVE \E r \in R : r.entity = e
      <4>1. [entity |-> e, delete |-> FALSE] \in R
        BY <3>1
      <4>2. [entity |-> e, delete |-> FALSE].entity = e
        OBVIOUS
      <4> QED
        BY <4>1, <4>2
    <3> QED
      BY <3>1
  <2>2. refs' = [refs EXCEPT ![w] = R]
    BY DEF SweepReset
  <2> HIDE DEF R
  <2>3. refs'[w] = R
    BY <1>0, <2>2 DEF TypeOK
  <2> QED
    BY <2>1, <2>3
<1>2. /\ UNCHANGED <<db, save, begun>>
      /\ \A e \in Entities : File(e)' = File(e) /\ (Owed(e)' <=> Owed(e))
      /\ \A d \in Drainers : DrainOK(d)'
      /\ \A v \in Sweepers \ {w} : SweepOK(v)'
    BY <1>0, SweepFrame
<1>3. FilesOK'
    BY <1>0, <1>2 DEF FilesOK, SweptAway
<1>4. DeleteOK'
  <2>1. \A s \in processed : save[s].entity \in Entities
    BY DEF DeleteOK, TypeOK
  <2> QED
    BY <1>0, <1>2, <2>1 DEF DeleteOK, Deleted
<1>5. SweepOK(w)'
  <2>1. \A e \in Entities : Rebuilt(w, e)'
    BY <1>0, <1>1, <1>2 DEF Rebuilt, File
  <2>2. SweepGotOK(w)'
    BY <1>0 DEF SweepGotOK
  <2> QED
    BY <2>1, <2>2 DEF SweepOK
<1> QED
    BY <1>2, <1>3, <1>4, <1>5

LEMMA SweepReadSafe ==
    ASSUME IInv, TypeOK', Shape', NEW w \in Sweepers, SweepRead(w), at'[w] = "write"
    PROVE  IInv'
<1> USE DEF IInv
<1>0. /\ w \in Workers /\ flock = w /\ at[w] = "rewrite"
      /\ UNCHANGED <<db, requests, processed, wt, head, swept>>
  <2>1. w \in Workers /\ at[w] = "rewrite" /\ at[w] \in Busy
    BY DEF SweepRead, Workers, Busy
  <2> QED
    BY <2>1 DEF SweepRead, TypeOK, marks, git
<1>1. PICK r \in refs[w] :
        /\ Exists(r.entity)
        /\ got' = [got EXCEPT ![w] = <<r.entity, db[r.entity]>>]
        /\ refs' = [refs EXCEPT ![w] = @ \ {r}]
        /\ UNCHANGED flock
  <2>1. at' = [at EXCEPT ![w] = "idle"] => at'[w] = "idle"
    BY <1>0 DEF TypeOK
  <2> QED
    BY <2>1 DEF SweepRead, SweepStops
<1>2. /\ r.entity \in Entities /\ got'[w] = <<r.entity, db[r.entity]>>
      /\ refs'[w] = refs[w] \ {r}
    BY <1>0, <1>1 DEF TypeOK, Ref
<1>3. /\ UNCHANGED <<db, save, begun>>
      /\ \A e \in Entities : File(e)' = File(e) /\ (Owed(e)' <=> Owed(e))
      /\ \A d \in Drainers : DrainOK(d)'
      /\ \A v \in Sweepers \ {w} : SweepOK(v)'
    BY <1>0, <1>1, SweepFrame
<1>4. FilesOK' /\ DeleteOK'
    BY <1>0, <1>3 DEF FilesOK, DeleteOK, Deleted, SweptAway
<1>5. SweepOK(w)'
  <2>1. \A e \in Entities : Rebuilt(w, e)'
    BY <1>0, <1>2, <1>3 DEF SweepOK, Rebuilt
  <2>2. SweepGotOK(w)'
    <3>1. db[r.entity] # Absent /\ File(r.entity) = db[r.entity] /\ db[r.entity] # Gone
      BY <1>1 DEF Exists, File
    <3>2. \A s \in processed : save[s].op = "delete" /\ save[s].routed => save[s].entity # r.entity
      BY <3>1 DEF DeleteOK, Deleted, TypeOK
    <3> QED
      BY <1>0, <1>2, <1>3, <3>1, <3>2 DEF SweepGotOK
  <2> QED
    BY <2>1, <2>2 DEF SweepOK
<1> QED
    BY <1>3, <1>4, <1>5

LEMMA SweepWriteSafe ==
    ASSUME IInv, TypeOK', Shape', NEW w \in Sweepers, WriteFile(w)
    PROVE  IInv'
<1> USE DEF IInv
<1> DEFINE e == got[w][1]
           v == got[w][2]
<1>0. /\ w \in Workers /\ flock' = w /\ at[w] = "write" /\ e \in Entities
      /\ UNCHANGED <<db, requests, processed, head, swept, refs>> /\ at'[w] = "rewrite"
  <2>1. w \in Workers /\ at[w] = "write" /\ at[w] \in Busy
    BY DEF WriteFile, Workers, Busy
  <2> QED
    BY <2>1 DEF WriteFile, TypeOK, marks, git
<1>1. wt'[e] = v /\ \A x \in Entities \ {e} : wt'[x] = wt[x]
    BY <1>0 DEF WriteFile, TypeOK
<1>2. /\ UNCHANGED <<db, save, begun>>
      /\ \A x \in Entities : File(x)' = File(x) /\ (Owed(x)' <=> Owed(x))
      /\ \A d \in Drainers : DrainOK(d)'
      /\ \A u \in Sweepers \ {w} : SweepOK(u)'
    BY <1>0, SweepFrame
<1>3. /\ db[e] # Absent
      /\ v = File(e) \/ Owed(e)
      /\ \A s \in processed : save[s].op = "delete" /\ save[s].routed => save[s].entity # e
    BY <1>0 DEF SweepOK, SweepGotOK
<1>4. FilesOK'
    BY <1>0, <1>1, <1>2, <1>3 DEF FilesOK, SweptAway
<1>5. DeleteOK'
  <2>1. \A s \in processed : save[s].entity \in Entities
    BY DEF DeleteOK, TypeOK
  <2> QED
    BY <1>0, <1>1, <1>2, <1>3, <2>1 DEF DeleteOK, Deleted
<1>6. SweepOK(w)'
  <2>1. \A x \in Entities : Rebuilt(w, x)'
    BY <1>0, <1>1, <1>2, <1>3 DEF SweepOK, Rebuilt
  <2>2. SweepGotOK(w)'
    BY <1>0 DEF SweepGotOK
  <2> QED
    BY <2>1, <2>2 DEF SweepOK
<1> QED
    BY <1>2, <1>4, <1>5, <1>6

\* A sweep that gets to its commit leaves nothing swept away.
LEMMA SweepCommitSafe ==
    ASSUME IInv, TypeOK', Shape', NEW w \in Sweepers, SweepCommit(w)
    PROVE  IInv'
<1> USE DEF IInv
<1>0. /\ w \in Workers /\ at[w] = "rewrite" /\ refs[w] = {}
      /\ UNCHANGED <<db, save, begun, processed, wt>> /\ head' = wt
    BY DEF SweepCommit, Workers, requests, marks
<1>1. \A v \in Workers : at'[v] \notin Busy
  <2>1. \A v \in Workers \ {w} : at[v] \notin Busy
    BY <1>0, OneWorks DEF Busy
  <2> QED
    BY <1>0, <2>1 DEF SweepCommit, SweepStops, TypeOK, Busy
<1>2. \A e \in Entities : File(e)' = File(e) /\ (Owed(e)' <=> Owed(e))
    BY <1>0 DEF File, Exists, Owed, Owes
<1>3. FilesOK'
  <2>1. \A e \in Entities : wt[e] = File(e) \/ Owed(e)
    BY <1>0 DEF SweepOK, Rebuilt
  <2> QED
    BY <1>0, <1>2, <2>1 DEF FilesOK
<1>4. DeleteOK'
    BY <1>0 DEF DeleteOK, Deleted
<1> QED
    BY <1>1, <1>3, <1>4 DEF DrainOK, SweepOK, Workers, Busy

LEMMA SweepSafe ==
    ASSUME IInv, NEW w \in Sweepers, SweepLock(w) \/ SweepStep(w) \/ SweepFault(w)
    PROVE  IInv'
<1>0. w \in Workers /\ TypeOK /\ Shape
    BY DEF Workers, IInv
<1>1. TypeOK' /\ Shape'
    BY <1>0, SweepType
<1>2. ASSUME SweepLock(w) PROVE IInv'
  <2>1. /\ UNCHANGED <<db, requests, wt, head, swept, processed, refs, got, queue>>
        /\ at'[w] = "reset" /\ \A v \in Workers \ {w} : at'[v] = at[v]
    BY <1>0, <1>2 DEF SweepLock, TypeOK, marks, git
  <2> QED
    BY <1>1, <2>1, QuietSafe, MaterializerAssumption DEF Workers, MaterializerAssumption
<1>3. ASSUME at[w] \in Busy, SweepStops(w), UNCHANGED <<db, requests, wt, head, swept, processed>>
      PROVE  IInv'
  <2>1. \A v \in Workers : at'[v] \notin Busy
    BY <1>0, <1>3, OneWorks DEF SweepStops, TypeOK, Busy
  <2> QED
    BY <1>1, <1>3, <2>1, QuietSafe DEF Workers, Busy
<1>4. ASSUME SweepFault(w) PROVE IInv'
    BY <1>3, <1>4 DEF SweepFault, Busy, marks, git
<1>5. ASSUME SweepRead(w) PROVE IInv'
  <2>1. CASE at'[w] = "write"
    BY <1>1, <1>5, <2>1, SweepReadSafe
  <2>2. CASE at'[w] # "write"
    <3>1. at' = [at EXCEPT ![w] = "write"] => at'[w] = "write"
      BY <1>0 DEF TypeOK
    <3>2. SweepStops(w)
      BY <1>5, <2>2, <3>1 DEF SweepRead
    <3> QED
      BY <1>3, <1>5, <3>2 DEF SweepRead, Busy, marks, git
  <2> QED
    BY <2>1, <2>2
<1> QED
    BY <1>1, <1>2, <1>4, <1>5, ResetSafe, SweepWriteSafe, SweepCommitSafe DEF SweepStep

LEMMA Stutter == IInv /\ UNCHANGED vars => IInv'
<1> SUFFICES ASSUME IInv, UNCHANGED vars PROVE IInv'
    OBVIOUS
<1>1. \A d : /\ Current(d)' = Current(d) /\ Own(d)' = Own(d) /\ Deletes(d)' = Deletes(d)
             /\ \A e : OwedByAnother(d, e)' = OwedByAnother(d, e)
    BY DEF vars, Current, Own, Deletes, OwedByAnother, Owes
<1>2. \A e : File(e)' = File(e) /\ Owed(e)' = Owed(e)
    BY DEF vars, File, Exists, Owed, Owes
<1>3. TypeOK' /\ Shape'
    BY <1>1 DEF vars, IInv, TypeOK, Shape
<1> QED
    BY <1>3, QuietSafe DEF vars, requests, IInv

\* TypeOK holds for any instance, sweeps included.
THEOREM TypeCorrect == Spec => []TypeOK
<1>1. Init => TypeOK /\ Shape
    BY InitOK, MaterializerAssumption DEF IInv
<1>2. TypeOK /\ Shape /\ [Next]_vars => TypeOK' /\ Shape'
  <2> SUFFICES ASSUME TypeOK, Shape, [Next]_vars PROVE TypeOK' /\ Shape'
    OBVIOUS
  <2>1. CASE UNCHANGED vars
    <3>1. \A d : Current(d)' = Current(d)
      BY <2>1 DEF vars, Current
    <3> QED
      BY <2>1, <3>1 DEF vars, TypeOK, Shape
  <2>2. CASE Next
    BY <2>2, RequestType, DrainType, SweepType DEF Next
  <2> QED
    BY <2>1, <2>2
<1> QED
    BY <1>1, <1>2, PTL DEF Spec

LEMMA Invariance == Spec => []IInv
<1>1. Init => IInv
    BY InitOK, MaterializerAssumption
<1>2. IInv /\ [Next]_vars => IInv'
  <2> SUFFICES ASSUME IInv, [Next]_vars PROVE IInv'
    OBVIOUS
  <2> QED
    BY Stutter, RequestSafe, DrainSafe, SweepSafe DEF Next
<1> QED
    BY <1>1, <1>2, PTL DEF Spec

\* No change is forgotten: a file that HEAD does not hold as the database does
\* is owed by a request or by an unprocessed change set, whatever fails, unless
\* a sweep that did not get to its commit has taken the file away.
THEOREM NothingLost == Spec => []NoLostChange
<1>1. IInv => NoLostChange
    BY DEF IInv, FilesOK, NoLostChange, Owed, Owes, SweptAway
<1> QED
    BY <1>1, Invariance, PTL

\* The file of an entity whose deletion has been processed never comes back.
THEOREM DeletedForGood == Spec => []DeletedStaysDeleted
<1>1. IInv => DeletedStaysDeleted
    BY DEF IInv, DeleteOK, DeletedStaysDeleted
<1> QED
    BY <1>1, Invariance, PTL

=============================================================================
