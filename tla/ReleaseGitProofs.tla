-------------------------- MODULE ReleaseGitProofs --------------------------
(***************************************************************************)
(* Releases in git, for any number of versions and drainers, failures and  *)
(* crashes wherever they come:                                             *)
(*   TypeCorrect   TypeOK                                                  *)
(*   Tagged        TagsOnBranch                                            *)
(*   LagPending    IndexLagIsPending                                       *)
(*   History       HistoryIsKept                                           *)
(* The invariant follows one change set from the lock to the mark.  What a *)
(* drainer has built tells nothing that is not so in the database, knows   *)
(* all that the tip of the branch knows, and, when the database has moved  *)
(* on since, another change set is waiting that will build it anew.        *)
(***************************************************************************)
EXTENDS ReleaseGit, WellFoundedInduction, TLAPS

Idle(d) == at[d] \in {"idle", "next"}

Names(I, v) == \E flag \in BOOLEAN : <<v, flag>> \in I

\* An index tells only of what has been released and archived.
Backed(I) ==
    \A v \in Versions : /\ <<v, TRUE>> \in I => v \in archived
                        /\ <<v, FALSE>> \in I => v \in released

\* J forgets nothing that I tells.
Covers(I, J) ==
    \A v \in Versions : /\ <<v, TRUE>> \in I => <<v, TRUE>> \in J
                        /\ <<v, FALSE>> \in I => Names(J, v)

OfVersion(s, v) == s = <<v, FALSE>> \/ (s = <<v, TRUE>> /\ v \in rewritten)

\* A change set whose processing commits the index as it then is.
Due(i) == sets[i].kind = "release_archived" \/ tags[sets[i].version] = <<>>
UpToDate(I) == I = Index \/ \E i \in DOMAIN sets \ processed : Due(i)
\* The same but for the change set of d.
Another(d, i) ==
    /\ i # Current(d)
    /\ \/ sets[i].kind = "release_archived"
       \/ tags[sets[i].version] = <<>> /\ sets[i].version # Version(d)
Behind(d, I) == I = Index \/ \E i \in DOMAIN sets \ processed : Another(d, i)

Prepared(d) ==
    /\ tree[d] \in Tree
    /\ Backed(tree[d].index)
    /\ Behind(d, tree[d].index)
    /\ sets[Current(d)].kind = "release" =>
          OfVersion(tree[d].snapshot, Version(d)) /\ Names(tree[d].index, Version(d))

DrainOK(d) ==
    /\ at[d] = "verify" => sets[Current(d)].kind = "release" /\ tags[Version(d)] # <<>>
    /\ at[d] = "build" => sets[Current(d)].kind = "release"
    /\ at[d] = "archive" => sets[Current(d)].kind = "release_archived"
    /\ at[d] \in {"commit", "ref", "tag", "mark"} => Prepared(d)
    /\ at[d] \in {"commit", "ref"} /\ branch # <<>> => Covers(Tip(branch).index, tree[d].index)
    /\ at[d] = "ref" => next[d] = Append(branch, [set |-> Current(d), tree |-> tree[d]])
    /\ at[d] \in {"tag", "mark"} => branch # <<>> /\ Tip(branch) = tree[d]
    /\ at[d] = "tag" => next[d] = branch /\ sets[Current(d)].kind = "release"

BranchOK == branch # <<>> => Backed(Tip(branch).index) /\ UpToDate(Tip(branch).index)

TagOK(v) ==
    tags[v] # <<>> =>
        /\ v \in released
        /\ IsPrefix(tags[v], branch)
        /\ OfVersion(Tip(tags[v]).snapshot, v)
        /\ Names(Tip(tags[v]).index, v)

IInv == TypeOK /\ BranchOK /\ (\A v \in Versions : TagOK(v)) /\ (\A d \in Drainers : DrainOK(d))

-----------------------------------------------------------------------------
(* Lists and indexes.                                                      *)

\* The least element of a set of numbers is one of them.
LEMMA MinIn == ASSUME NEW S \in SUBSET Nat, S # {} PROVE Min(S) \in S
<1>1. PICK x \in S : \A y \in S : ~ (<<y, x>> \in OpToRel(<, Nat))
    BY NatLessThanWellFounded, WFMin
<1>2. \A y \in S : x <= y
  <2> TAKE y \in S
  <2>1. ~ (<<y, x>> \in OpToRel(<, Nat))
    BY <1>1
  <2>2. ~ (y < x)
    BY <2>1 DEF OpToRel
  <2> QED
    BY <2>2
<1> QED
    BY <1>2 DEF Min

\* What a drainer works on is a change set.
LEMMA CurrentIn ==
    ASSUME TypeOK, NEW d \in Drainers, todo[d] # {}
    PROVE  /\ Current(d) \in DOMAIN sets /\ Current(d) \in todo[d]
           /\ sets[Current(d)] \in Set /\ Version(d) \in released /\ Version(d) \in Versions
<1>1. todo[d] \subseteq DOMAIN sets /\ DOMAIN sets \subseteq Nat
    BY DEF TypeOK
<1>2. Current(d) \in todo[d]
    BY <1>1, MinIn DEF Current
<1>3. sets[Current(d)] \in Set
    BY <1>1, <1>2 DEF TypeOK
<1> QED
    BY <1>1, <1>2, <1>3 DEF Version, Set, TypeOK

\* The index of the database knows whatever is so.
LEMMA IndexKnows ==
    ASSUME TypeOK
    PROVE  /\ Index \in SUBSET (Versions \X BOOLEAN)
           /\ Backed(Index)
           /\ \A I : Backed(I) => Covers(I, Index)
           /\ \A v \in released : Names(Index, v)
<1>1. \A v \in released : <<v, v \in archived>> \in Index /\ (v \in archived) \in BOOLEAN
    BY DEF Index
<1>2. \A v \in archived : <<v, TRUE>> \in Index
  <2> TAKE v \in archived
  <2>1. v \in released /\ (v \in archived) = TRUE
    BY DEF TypeOK
  <2> QED
    BY <1>1, <2>1
<1>3. \A v \in released : Names(Index, v)
    BY <1>1 DEF Names
<1>4. Backed(Index)
  <2> SUFFICES ASSUME NEW v \in Versions PROVE /\ <<v, TRUE>> \in Index => v \in archived
                                               /\ <<v, FALSE>> \in Index => v \in released
    BY DEF Backed
  <2> QED
    BY Zenon DEF Index
<1>5. \A I : Backed(I) => Covers(I, Index)
    BY <1>2, <1>3 DEF Backed, Covers
<1>6. Index \in SUBSET (Versions \X BOOLEAN)
  <2> SUFFICES ASSUME NEW x \in Index PROVE x \in Versions \X BOOLEAN
    OBVIOUS
  <2>1. PICK v \in released : x = <<v, v \in archived>>
    BY DEF Index
  <2>2. v \in Versions /\ (v \in archived) \in BOOLEAN
    BY DEF TypeOK
  <2> QED
    BY <2>1, <2>2
<1> QED
    BY <1>3, <1>4, <1>5, <1>6

-----------------------------------------------------------------------------
LEMMA InitOK == ReleaseGitAssumption /\ Init => IInv
<1> SUFFICES ASSUME ReleaseGitAssumption, Init PROVE IInv
    OBVIOUS
<1>1. TypeOK
    BY DEF ReleaseGitAssumption, Init, TypeOK, Set, Stages
<1>2. BranchOK /\ (\A v \in Versions : TagOK(v)) /\ (\A d \in Drainers : DrainOK(d))
    BY DEF Init, BranchOK, TagOK, DrainOK
<1> QED
    BY <1>1, <1>2 DEF IInv

-----------------------------------------------------------------------------
(* Types.                                                                  *)

\* Where a drainer leaves its change set, the types stay.
LEMMA LeaveType ==
    ASSUME TypeOK, NEW d \in Drainers, Leave(d), sets' = sets
    PROVE  /\ at' \in [Drainers -> Stages] /\ todo' \in [Drainers -> SUBSET DOMAIN sets']
           /\ tree' \in [Drainers -> Tree \cup {None}] /\ next' \in [Drainers -> Seq(Commit)]
           /\ at'[d] = "next"
           /\ \A e \in Drainers \ {d} : at'[e] = at[e] /\ todo'[e] = todo[e]
<1>1. <<>> \in Seq(Commit) /\ "next" \in Stages
    BY DEF Stages
<1> QED
    BY <1>1 DEF Leave, TypeOK

\* A drainer that works holds the lock, the others wait.
LEMMA OneWorks ==
    ASSUME TypeOK, NEW d \in Drainers, ~Idle(d)
    PROVE  flock = d /\ todo[d] # {} /\ \A e \in Drainers \ {d} : Idle(e)
BY DEF TypeOK, Idle

\* Who leaves gives the lock back.
LEMMA LeaveLock ==
    ASSUME TypeOK, NEW d \in Drainers, ~Idle(d), Leave(d), sets' = sets
    PROVE  \A e \in Drainers : /\ at'[e] \in {"idle", "next"} <=> flock' # e
                               /\ at'[e] \notin {"idle", "next"} => todo'[e] # {}
<1>1. \A e \in Drainers : at'[e] \in {"idle", "next"}
    BY OneWorks, LeaveType DEF Idle
<1>2. flock' \notin Drainers
    BY ReleaseGitAssumption DEF Leave, ReleaseGitAssumption
<1> QED
    BY <1>1, <1>2

\* What has been built is a tree, and so is what is committed.
LEMMA CommitType ==
    ASSUME TypeOK, NEW d \in Drainers, ~Idle(d), tree[d] \in Tree
    PROVE  [set |-> Current(d), tree |-> tree[d]] \in Commit
<1>1. Len(sets) \in Nat /\ DOMAIN sets = 1..Len(sets) /\ Len(sets) <= MaxSets /\ MaxSets \in Nat
  <2>1. sets \in Seq(Set) /\ Len(sets) <= MaxSets
    BY DEF TypeOK
  <2> QED
    BY <2>1, ReleaseGitAssumption DEF ReleaseGitAssumption
<1>2. Current(d) \in 1..MaxSets
  <2>1. Current(d) \in DOMAIN sets
    BY OneWorks, CurrentIn
  <2> QED
    BY <1>1, <2>1
<1> QED
    BY <1>2 DEF Commit

\* The tip of a branch is one of its trees.
LEMMA TipType ==
    ASSUME NEW b \in Seq(Commit), b # <<>>
    PROVE  Tip(b) \in Tree
<1>1. b[Len(b)] \in Commit
    OBVIOUS
<1> QED
    BY <1>1 DEF Tip, Commit

LEMMA SnapshotType == ASSUME TypeOK, NEW v \in Versions PROVE Snapshot(v) \in Versions \X BOOLEAN
<1>1. (v \in rewritten) \in BOOLEAN
    OBVIOUS
<1> QED
    BY <1>1 DEF Snapshot

LEMMA RequestType == ASSUME TypeOK, NEW v \in Versions, Request(v) PROVE TypeOK'
<1>1. ASSUME NEW kind \in {"release", "release_archived"}, NEW w \in released', Enqueue(kind, w),
             released \subseteq released', UNCHANGED <<todo, processed>>
      PROVE  sets' \in Seq(Set)' /\ Len(sets') <= MaxSets /\ DOMAIN sets \subseteq DOMAIN sets'
  <2>1. Set \subseteq Set' /\ [kind |-> kind, version |-> w] \in Set'
    BY <1>1 DEF Set
  <2>2. sets \in Seq(Set') /\ Len(sets) \in Nat /\ MaxSets \in Nat
    BY <2>1, ReleaseGitAssumption DEF TypeOK, ReleaseGitAssumption
  <2> QED
    BY <1>1, <2>1, <2>2 DEF Enqueue
<1>2. UNCHANGED sets /\ released' = released => sets' \in Seq(Set)' /\ Len(sets') <= MaxSets
    BY DEF TypeOK, Set
<1>3. CASE Create(v)
  <2>1. sets' \in Seq(Set)' /\ Len(sets') <= MaxSets /\ DOMAIN sets \subseteq DOMAIN sets'
    BY <1>1, <1>3 DEF Create
  <2> QED
    BY <1>3, <2>1 DEF Create, TypeOK, git
<1>4. CASE Archive(v)
  <2>1. sets' \in Seq(Set)' /\ Len(sets') <= MaxSets /\ DOMAIN sets \subseteq DOMAIN sets'
    BY <1>1, <1>4 DEF Archive
  <2> QED
    BY <1>4, <2>1 DEF Archive, TypeOK, git
<1>5. CASE Rewrite(v)
    BY <1>2, <1>5 DEF Rewrite, TypeOK, git
<1>6. CASE ProbeTag(v)
    BY <1>2, <1>6 DEF ProbeTag, TypeOK, git, rows
<1>7. CASE Backfill(v)
  <2>1. sets' \in Seq(Set)' /\ Len(sets') <= MaxSets /\ DOMAIN sets \subseteq DOMAIN sets'
    BY <1>1, <1>2, <1>7 DEF Backfill, TypeOK, rows
  <2> QED
    BY <1>7, <2>1 DEF Backfill, TypeOK, git, rows
<1> QED
    BY <1>3, <1>4, <1>5, <1>6, <1>7 DEF Request

\* What is built is a tree.
LEMMA BuiltType ==
    ASSUME TypeOK, NEW d \in Drainers, Build(d) \/ ReadIndex(d)
    PROVE  tree' \in [Drainers -> Tree \cup {None}] /\ tree'[d] \in Tree
<1>0. Index \in SUBSET (Versions \X BOOLEAN)
    BY IndexKnows
<1>1. CASE Build(d)
  <2>1. ~Idle(d) /\ Version(d) \in Versions
    BY <1>1, CurrentIn, OneWorks DEF Build, Idle
  <2>2. [snapshot |-> Snapshot(Version(d)), index |-> Index] \in Tree
    BY <1>0, <2>1, SnapshotType DEF Tree
  <2> QED
    BY <1>1, <2>2 DEF Build, TypeOK
<1>2. CASE ReadIndex(d)
  <2>1. branch # <<>> => Tip(branch) \in Tree
    BY TipType DEF TypeOK
  <2>2. [snapshot |-> IF branch = <<>> THEN None ELSE Tip(branch).snapshot, index |-> Index] \in Tree
    BY <1>0, <2>1 DEF Tree
  <2> QED
    BY <1>2, <2>2 DEF ReadIndex, TypeOK
<1> QED
    BY <1>1, <1>2

LEMMA DrainType ==
    ASSUME IInv, NEW d \in Drainers, List(d) \/ Lock(d) \/ DrainStep(d) \/ Fault(d)
    PROVE  TypeOK'
<1> USE DEF IInv
<1>0. /\ processed \subseteq DOMAIN sets /\ (~Idle(d) => Current(d) \in DOMAIN sets)
      /\ None \notin Drainers /\ Index \in SUBSET (Versions \X BOOLEAN)
    BY CurrentIn, OneWorks, IndexKnows, ReleaseGitAssumption DEF TypeOK, ReleaseGitAssumption
<1>1. ASSUME UNCHANGED <<released, archived, rewritten, sets, probe>>, mismatched' \subseteq released,
             processed' \subseteq DOMAIN sets, branch' \in Seq(Commit), tags' \in [Versions -> Seq(Commit)],
             at' \in [Drainers -> Stages], todo' \in [Drainers -> SUBSET DOMAIN sets],
             tree' \in [Drainers -> Tree \cup {None}], next' \in [Drainers -> Seq(Commit)],
             \A e \in Drainers : /\ at'[e] \in {"idle", "next"} <=> flock' # e
                                 /\ at'[e] \notin {"idle", "next"} => todo'[e] # {},
             faults' \in 0..MaxFaults
      PROVE  TypeOK'
    BY <1>1 DEF TypeOK, Set
<1>2. ASSUME ~Idle(d), Leave(d), UNCHANGED <<released, archived, rewritten, sets, probe, branch>>,
             mismatched' \subseteq released, processed' \subseteq DOMAIN sets,
             tags' = tags, faults' \in 0..MaxFaults
      PROVE  TypeOK'
    BY <1>1, <1>2, LeaveType, LeaveLock DEF TypeOK
<1>3. CASE List(d)
    BY <1>0, <1>1, <1>3 DEF List, Unprocessed, TypeOK, rows, git, Stages
<1>4. CASE EndPass(d)
    BY <1>0, <1>1, <1>4 DEF EndPass, TypeOK, rows, git, Stages
<1>5. CASE Lock(d)
    BY <1>0, <1>1, <1>5 DEF Lock, TypeOK, rows, git, Stages
<1>6. CASE Verify(d)
  <2>1. ~Idle(d) /\ Version(d) \in released
    BY <1>6, CurrentIn, OneWorks DEF Verify, Idle
  <2> QED
    BY <1>0, <1>2, <1>6, <2>1 DEF Verify, TypeOK, rows, git
<1>7. CASE Build(d) \/ ReadIndex(d)
    BY <1>0, <1>1, <1>7, BuiltType DEF Build, ReadIndex, TypeOK, rows, git, Stages
<1>9. CASE AlreadyArchived(d) \/ MarkProcessed(d)
    BY <1>0, <1>2, <1>9 DEF AlreadyArchived, MarkProcessed, TypeOK, rows, git, Idle
<1>10. CASE CommitTree(d)
  <2>1. ~Idle(d) /\ tree[d] \in Tree
    BY <1>10 DEF CommitTree, Idle, DrainOK, Prepared
  <2>2. Append(branch, [set |-> Current(d), tree |-> tree[d]]) \in Seq(Commit)
    BY <2>1, CommitType DEF TypeOK
  <2> QED
    BY <1>0, <1>1, <1>10, <2>2 DEF CommitTree, TypeOK, rows, git, Stages
<1>11. CASE UpdateRef(d)
  <2>1. next[d] \in Seq(Commit)
    BY DEF TypeOK
  <2> QED
    BY <1>0, <1>1, <1>11, <2>1 DEF UpdateRef, TypeOK, rows, git, Stages
<1>12. CASE TagAnnotated(d)
  <2>1. ~Idle(d) /\ next[d] \in Seq(Commit)
    BY <1>12 DEF TagAnnotated, TypeOK, Idle
  <2>2. CASE tags[Version(d)] = <<>>
    BY <1>0, <1>1, <1>12, <2>1, <2>2 DEF TagAnnotated, TypeOK, rows, Stages
  <2>3. CASE tags[Version(d)] # <<>>
    BY <1>0, <1>2, <1>12, <2>1, <2>3 DEF TagAnnotated, TypeOK, rows
  <2> QED
    BY <2>2, <2>3
<1>13. CASE Fault(d)
  <2>1. ~Idle(d) /\ faults' \in 0..MaxFaults /\ "next" \in Stages /\ <<>> \in Seq(Commit)
    BY <1>13, ReleaseGitAssumption DEF Fault, TypeOK, Idle, ReleaseGitAssumption, Stages
  <2>2. /\ at' \in [Drainers -> Stages] /\ tree' \in [Drainers -> Tree \cup {None}]
        /\ next' \in [Drainers -> Seq(Commit)] /\ todo' \in [Drainers -> SUBSET DOMAIN sets]
    BY <1>13, <2>1 DEF Fault, TypeOK
  <2>3. \A e \in Drainers : at'[e] \in {"idle", "next"} /\ flock' # e
    BY <1>0, <1>13, <2>1, OneWorks DEF Fault, TypeOK, Idle
  <2> QED
    BY <1>0, <1>1, <1>13, <2>1, <2>2, <2>3 DEF Fault, TypeOK, rows, git
<1> QED
    BY <1>3, <1>4, <1>5, <1>6, <1>7, <1>9, <1>10, <1>11, <1>12, <1>13 DEF DrainStep

-----------------------------------------------------------------------------
(* Branches grow at their end.                                             *)

LEMMA PrefixIs ==
    ASSUME NEW s \in Seq(Commit), NEW t \in Seq(Commit)
    PROVE  IsPrefix(s, t) <=> Len(s) <= Len(t) /\ \A i \in 1..Len(s) : s[i] = t[i]
<1>1. CASE Len(s) <= Len(t)
  <2>1. /\ SubSeq(s, 1, Len(s)) \in Seq(Commit) /\ Len(SubSeq(s, 1, Len(s))) = Len(s)
        /\ SubSeq(t, 1, Len(s)) \in Seq(Commit) /\ Len(SubSeq(t, 1, Len(s))) = Len(s)
    BY <1>1
  <2>2. \A i \in 1..Len(s) : SubSeq(s, 1, Len(s))[i] = s[i] /\ SubSeq(t, 1, Len(s))[i] = t[i]
    BY <1>1
  <2>3. SubSeq(s, 1, Len(s)) = SubSeq(t, 1, Len(s)) <=> \A i \in 1..Len(s) : s[i] = t[i]
    BY <2>1, <2>2
  <2> QED
    BY <1>1, <2>3 DEF IsPrefix
<1>2. CASE ~(Len(s) <= Len(t))
    BY <1>2 DEF IsPrefix
<1> QED
    BY <1>1, <1>2

\* A change set is of a version that is released.
LEMMA SetsOf ==
    ASSUME NEW R, NEW s \in Seq([kind : {"release", "release_archived"}, version : R])
    PROVE  DOMAIN s = 1..Len(s) /\ \A i \in DOMAIN s : s[i].version \in R
<1> DEFINE S == [kind : {"release", "release_archived"}, version : R]
<1>1. s \in Seq(S) /\ \A x \in S : x.version \in R
    OBVIOUS
<1>2. ASSUME s \in Seq(S) PROVE DOMAIN s = 1..Len(s) /\ \A i \in DOMAIN s : s[i] \in S
  <2> HIDE DEF S
  <2> QED
    BY <1>2
<1> QED
    BY <1>1, <1>2

LEMMA TipAppend ==
    ASSUME NEW b \in Seq(Commit), NEW c \in Commit
    PROVE  /\ Append(b, c) \in Seq(Commit) /\ Append(b, c) # <<>>
           /\ Tip(Append(b, c)) = c.tree
           /\ IsPrefix(b, b)
           /\ \A t \in Seq(Commit) : IsPrefix(t, b) => IsPrefix(t, Append(b, c))
<1>1. /\ Append(b, c) \in Seq(Commit) /\ Len(Append(b, c)) = Len(b) + 1
      /\ Append(b, c)[Len(b) + 1] = c
      /\ \A i \in 1..Len(b) : Append(b, c)[i] = b[i]
    OBVIOUS
<1>2. Append(b, c) # <<>>
    BY <1>1
<1>3. ASSUME NEW t \in Seq(Commit), IsPrefix(t, b) PROVE IsPrefix(t, Append(b, c))
  <2>1. Len(t) <= Len(b) /\ \A i \in 1..Len(t) : t[i] = b[i]
    BY <1>3, PrefixIs
  <2>2. Len(t) <= Len(Append(b, c)) /\ \A i \in 1..Len(t) : t[i] = Append(b, c)[i]
    BY <1>1, <2>1
  <2> QED
    BY <1>1, <2>2, PrefixIs
<1> QED
    BY <1>1, <1>2, <1>3, PrefixIs DEF Tip

-----------------------------------------------------------------------------
(* Requests.                                                               *)

\* Rows and change sets come, and whatever makes an index old is itself due.
LEMMA RowsGrow ==
    ASSUME IInv, TypeOK', released \subseteq released', archived \subseteq archived',
           rewritten \subseteq rewritten', UNCHANGED <<branch, tags, processed, at, todo, tree, next>>,
           sets' = sets \/ \E x : sets' = Append(sets, x),
           \/ Index' = Index
           \/ \E i \in DOMAIN sets' \ DOMAIN sets :
                sets'[i].kind = "release_archived" \/ sets'[i].version \notin released
    PROVE  IInv'
<1> USE DEF IInv
<1>1. /\ sets \in Seq(Set) /\ processed \subseteq DOMAIN sets /\ DOMAIN sets \subseteq DOMAIN sets'
      /\ \A i \in DOMAIN sets : sets'[i] = sets[i]
  <2>1. sets \in Seq(Set) /\ processed \subseteq DOMAIN sets
    BY DEF TypeOK
  <2>2. ASSUME NEW x, sets' = Append(sets, x)
        PROVE  DOMAIN sets \subseteq DOMAIN sets' /\ \A i \in DOMAIN sets : sets'[i] = sets[i]
    <3> DEFINE S == Set \cup {x}
    <3>1. sets \in Seq(S) /\ x \in S
      BY <2>1
    <3> HIDE DEF S
    <3> QED
      BY <2>2, <3>1
  <2> QED
    BY <2>1, <2>2
<1>2. \A i \in DOMAIN sets : sets[i].version \in released
    BY SetsOf DEF TypeOK, Set
<1>3. \A I : Backed(I) => Backed(I)'
    BY DEF Backed
<1>4. ASSUME Index' # Index
      PROVE  \E i \in DOMAIN sets' \ DOMAIN sets :
                \/ sets'[i].kind = "release_archived"
                \/ tags[sets'[i].version] = <<>> /\ sets'[i].version \notin released
  <2>1. PICK i \in DOMAIN sets' \ DOMAIN sets :
                sets'[i].kind = "release_archived" \/ sets'[i].version \notin released
    BY <1>4
  <2>2. sets'[i].version \in Versions
    <3>1. sets' \in Seq([kind : {"release", "release_archived"}, version : released'])
      BY DEF TypeOK, Set
    <3>2. sets'[i].version \in released'
      BY <3>1, SetsOf
    <3> QED
      BY <3>2 DEF TypeOK
  <2>3. sets'[i].version \notin released => tags[sets'[i].version] = <<>>
    BY <2>2 DEF TagOK
  <2>4. \/ sets'[i].kind = "release_archived"
        \/ tags[sets'[i].version] = <<>> /\ sets'[i].version \notin released
    BY <2>1, <2>3
  <2> QED
    BY <2>4
<1>5. ASSUME NEW I, UpToDate(I) PROVE UpToDate(I)'
  <2>1. CASE Index' # Index
    <3>1. PICK i \in DOMAIN sets' \ DOMAIN sets :
              sets'[i].kind = "release_archived" \/ tags[sets'[i].version] = <<>>
      BY <1>4, <2>1
    <3> QED
      BY <1>1, <3>1 DEF UpToDate, Due
  <2>2. CASE Index' = Index
    BY <1>1, <1>5, <2>2 DEF UpToDate, Due
  <2> QED
    BY <2>1, <2>2
<1>6. ASSUME NEW d \in Drainers, todo[d] # {}
      PROVE  /\ Current(d) \in DOMAIN sets /\ Current(d)' = Current(d)
             /\ Version(d) \in released /\ Version(d)' = Version(d)
             /\ sets'[Current(d)] = sets[Current(d)]
    BY <1>1, <1>6, CurrentIn DEF Current, Version
<1>7. ASSUME NEW d \in Drainers, todo[d] # {}, NEW I, Behind(d, I) PROVE Behind(d, I)'
  <2>1. CASE Index' # Index
    <3>1. PICK i \in DOMAIN sets' \ DOMAIN sets :
              \/ sets'[i].kind = "release_archived"
              \/ tags[sets'[i].version] = <<>> /\ sets'[i].version \notin released
      BY <1>4, <2>1
    <3>2. Another(d, i)'
      BY <1>6, <1>7, <3>1 DEF Another
    <3> QED
      BY <1>1, <3>1, <3>2 DEF Behind
  <2>2. CASE Index' = Index
    <3>1. ASSUME NEW i \in DOMAIN sets \ processed, Another(d, i)
          PROVE  Another(d, i)' /\ i \in DOMAIN sets' \ processed'
      BY <1>1, <1>6, <1>7, <3>1 DEF Another
    <3> QED
      BY <1>7, <2>2, <3>1 DEF Behind
  <2> QED
    BY <2>1, <2>2
<1>8. BranchOK'
    BY <1>3, <1>5 DEF BranchOK
<1>9. \A v \in Versions : TagOK(v)'
    BY DEF TagOK, OfVersion
<1>10. ASSUME NEW d \in Drainers PROVE DrainOK(d)'
  <2>1. CASE Idle(d)
    BY <2>1 DEF Idle, DrainOK
  <2>2. CASE ~Idle(d)
    <3>1. todo[d] # {} /\ DrainOK(d)
      BY <2>2, OneWorks
    <3>2. Prepared(d) => Prepared(d)'
      BY <1>3, <1>6, <1>7, <3>1 DEF Prepared, OfVersion
    <3> QED
      BY <1>6, <3>1, <3>2 DEF DrainOK
  <2> QED
    BY <2>1, <2>2
<1> QED
    BY <1>8, <1>9, <1>10

LEMMA RequestOK == ASSUME IInv, NEW v \in Versions, Request(v) PROVE IInv'
<1>1. TypeOK'
    BY RequestType DEF IInv
<1>2. ASSUME NEW kind, Enqueue(kind, v)
      PROVE  /\ \E x : sets' = Append(sets, x)
             /\ \E i \in DOMAIN sets' \ DOMAIN sets : sets'[i] = [kind |-> kind, version |-> v]
  <2> DEFINE x == [kind |-> kind, version |-> v]
             S == Set \cup {x}
  <2>1. sets \in Seq(S) /\ x \in S /\ sets' = Append(sets, x)
    BY <1>2 DEF Enqueue, IInv, TypeOK
  <2>2. Len(sets) + 1 \in DOMAIN sets' \ DOMAIN sets /\ sets'[Len(sets) + 1] = x
    <3> HIDE DEF x, S
    <3> QED
      BY <2>1
  <2> QED
    BY <2>1, <2>2
<1>3. CASE Create(v)
    BY <1>1, <1>2, <1>3, RowsGrow DEF Create, git
<1>4. CASE Archive(v)
    BY <1>1, <1>2, <1>4, RowsGrow DEF Archive, git
<1>5. CASE Rewrite(v) \/ ProbeTag(v)
  <2>1. Index' = Index
    BY <1>5 DEF Rewrite, ProbeTag, rows, Index
  <2> QED
    BY <1>1, <1>5, <2>1, RowsGrow DEF Rewrite, ProbeTag, git, rows
<1>6. CASE Backfill(v)
  <2>1. Index' = Index
    BY <1>6 DEF Backfill, rows, Index
  <2> QED
    BY <1>1, <1>2, <1>6, <2>1, RowsGrow DEF Backfill, git, rows
<1> QED
    BY <1>3, <1>4, <1>5, <1>6 DEF Request

-----------------------------------------------------------------------------
(* Drainers.                                                               *)

\* Where nothing that a drainer looks at moves, it stays right.
LEMMA Unmoved ==
    ASSUME UNCHANGED <<rows, sets, processed, git>>, NEW d \in Drainers, DrainOK(d),
           at'[d] = at[d], todo'[d] = todo[d], tree'[d] = tree[d], next'[d] = next[d]
    PROVE  DrainOK(d)'
BY DEF DrainOK, Prepared, Behind, Another, Backed, Names, OfVersion, Covers, Version, Current, Index,
       rows, git, Tip

\* A step that leaves rows and refs alone.
LEMMA RefsStay ==
    ASSUME IInv, UNCHANGED <<rows, sets, git>>, processed' = processed
    PROVE  BranchOK' /\ \A v \in Versions : TagOK(v)'
BY DEF IInv, BranchOK, TagOK, UpToDate, Due, Backed, Names, OfVersion, Index, rows, git, Tip

\* A change set is marked when the tip is up to date without it.
LEMMA MarkStays ==
    ASSUME IInv, UNCHANGED <<rows, sets, git>>, NEW d \in Drainers, ~Idle(d),
           processed' = processed \cup {Current(d)},
           \/ branch # <<>> => Behind(d, Tip(branch).index)
           \/ sets[Current(d)].kind = "release" /\ tags[Version(d)] # <<>>
    PROVE  BranchOK' /\ \A v \in Versions : TagOK(v)'
<1>1. ASSUME branch # <<>>, Tip(branch).index # Index
      PROVE  \E i \in DOMAIN sets \ processed : i # Current(d) /\ Due(i)
  <2>1. CASE Behind(d, Tip(branch).index)
    BY <1>1, <2>1 DEF Behind, Another, Due
  <2>2. CASE sets[Current(d)].kind = "release" /\ tags[Version(d)] # <<>>
    <3>1. PICK i \in DOMAIN sets \ processed : Due(i)
      BY <1>1 DEF IInv, BranchOK, UpToDate
    <3>2. i # Current(d)
      BY <2>2, <3>1 DEF Due, Version
    <3> QED
      BY <3>1, <3>2
  <2> QED
    BY <1>1, <2>1, <2>2
<1>2. \A I : Backed(I) => Backed(I)'
    BY DEF Backed, rows
<1>3. branch # <<>> => UpToDate(Tip(branch).index)'
    BY <1>1 DEF UpToDate, Due, Index, rows, git, Tip
<1>4. BranchOK'
    BY <1>2, <1>3 DEF IInv, BranchOK, git, Tip
<1>5. \A v \in Versions : TagOK(v)'
    BY DEF IInv, TagOK, Names, OfVersion, rows, git, Tip
<1> QED
    BY <1>4, <1>5

\* Who leaves is right again, and nobody else works.
LEMMA LeaveOK ==
    ASSUME IInv, NEW d \in Drainers, ~Idle(d), Leave(d), sets' = sets
    PROVE  \A e \in Drainers : DrainOK(e)'
<1>1. \A e \in Drainers : at'[e] \in {"idle", "next"}
    BY OneWorks, LeaveType DEF IInv, Idle
<1> QED
    BY <1>1 DEF DrainOK

LEMMA DrainStepOK ==
    ASSUME IInv, NEW d \in Drainers, List(d) \/ Lock(d) \/ DrainStep(d) \/ Fault(d)
    PROVE  IInv'
<1> USE DEF IInv
<1>0. TypeOK' /\ DrainOK(d) /\ \A e \in Drainers : at'[e] \in {"idle", "next"} => DrainOK(e)'
    BY DrainType DEF DrainOK
<1> SUFFICES BranchOK' /\ (\A v \in Versions : TagOK(v)') /\ \A e \in Drainers : DrainOK(e)'
    BY <1>0
<1>1. CASE List(d) \/ EndPass(d)
  <2>1. BranchOK' /\ \A v \in Versions : TagOK(v)'
    BY <1>1, RefsStay DEF List, EndPass
  <2>2. at'[d] \in {"idle", "next"}
    BY <1>1 DEF List, EndPass, TypeOK
  <2>3. ASSUME NEW e \in Drainers \ {d} PROVE DrainOK(e)'
    BY <1>1, Unmoved DEF List, EndPass, TypeOK
  <2> QED
    BY <1>0, <2>1, <2>2, <2>3
\* What the drainer finds under the lock.
<1>2. CASE Lock(d)
  <2>1. BranchOK' /\ \A v \in Versions : TagOK(v)'
    BY <1>2, RefsStay DEF Lock
  <2>2. \A e \in Drainers \ {d} : at'[e] \in {"idle", "next"}
    BY <1>2, ReleaseGitAssumption DEF Lock, TypeOK, ReleaseGitAssumption
  <2>3. sets[Current(d)].kind \in {"release", "release_archived"}
    BY <1>2, CurrentIn DEF Lock, Set
  <2>4. /\ Current(d)' = Current(d) /\ Version(d)' = Version(d) /\ sets' = sets /\ tags' = tags
        /\ at'[d] = IF sets[Current(d)].kind = "release_archived" THEN "archive"
                    ELSE IF tags[Version(d)] # <<>> THEN "verify" ELSE "build"
    BY <1>2 DEF Lock, Current, Version, git, TypeOK
  <2>5. DrainOK(d)'
    BY <2>3, <2>4 DEF DrainOK
  <2> QED
    BY <1>0, <2>1, <2>2, <2>5
<1>3. CASE Verify(d)
  <2>1. ~Idle(d) /\ sets[Current(d)].kind = "release" /\ tags[Version(d)] # <<>>
    BY <1>0, <1>3 DEF Verify, DrainOK, Idle
  <2> QED
    BY <1>3, <2>1, MarkStays, LeaveOK DEF Verify
\* What is built now knows all that has been published.
<1>4. CASE Build(d) \/ ReadIndex(d)
  <2>1. BranchOK' /\ \A v \in Versions : TagOK(v)'
    BY <1>4, RefsStay DEF Build, ReadIndex
  <2>2. ~Idle(d) /\ \A e \in Drainers \ {d} : at'[e] \in {"idle", "next"}
    BY <1>4, OneWorks DEF Build, ReadIndex, Idle, TypeOK
  <2>3. /\ Current(d)' = Current(d) /\ Version(d)' = Version(d) /\ Index' = Index
        /\ UNCHANGED <<rows, sets, processed, git>> /\ at'[d] = "commit" /\ tree'[d].index = Index
        /\ sets[Current(d)].kind = "release" => tree'[d].snapshot = Snapshot(Version(d))
    <3>1. CASE Build(d)
      BY <3>1 DEF Build, Current, Version, Index, rows, TypeOK
    <3>2. CASE ReadIndex(d)
      <4>1. sets[Current(d)].kind = "release_archived"
        BY <1>0, <3>2 DEF DrainOK, ReadIndex
      <4> QED
        BY <3>2, <4>1 DEF ReadIndex, Current, Version, Index, rows, TypeOK
    <3> QED
      BY <1>4, <3>1, <3>2
  <2>4. tree'[d] \in Tree
    BY <1>4, BuiltType
  <2>5. Version(d) \in released /\ (Version(d) \in rewritten) \in BOOLEAN
    BY <2>2, OneWorks, CurrentIn
  <2>6. OfVersion(Snapshot(Version(d)), Version(d))
    BY <2>5 DEF OfVersion, Snapshot
  <2>7. Prepared(d)'
    BY <2>3, <2>4, <2>5, <2>6, IndexKnows DEF Prepared, Backed, Behind, Names, OfVersion, rows
  <2>8. branch' # <<>> => Covers(Tip(branch').index, tree'[d].index)
    BY <2>3, IndexKnows DEF BranchOK, git
  <2>9. DrainOK(d)'
    BY <2>3, <2>7, <2>8 DEF DrainOK, Covers, Names, Tip
  <2> QED
    BY <1>0, <2>1, <2>2, <2>9
<1>5. CASE AlreadyArchived(d)
  <2>1. ~Idle(d) /\ Prepared(d) /\ Behind(d, Tip(branch).index)
    BY <1>0, <1>5 DEF AlreadyArchived, DrainOK, Prepared, Idle
  <2> QED
    BY <1>5, <2>1, MarkStays, LeaveOK DEF AlreadyArchived
<1>6. CASE CommitTree(d)
  <2>1. BranchOK' /\ \A v \in Versions : TagOK(v)'
    BY <1>6, RefsStay DEF CommitTree
  <2>2. ~Idle(d) /\ \A e \in Drainers \ {d} : at'[e] \in {"idle", "next"}
    BY <1>6, OneWorks DEF CommitTree, Idle, TypeOK
  <2>3. Prepared(d) /\ (branch # <<>> => Covers(Tip(branch).index, tree[d].index))
    BY <1>0, <1>6 DEF DrainOK, CommitTree
  <2>4. Prepared(d)'
    BY <1>6, <2>3 DEF CommitTree, Prepared, Backed, Behind, Another, Names, OfVersion, Current, Version,
                      Index, rows, git
  <2>5. /\ branch' = branch /\ tree'[d] = tree[d] /\ Current(d)' = Current(d) /\ at'[d] = "ref"
        /\ next'[d] = Append(branch, [set |-> Current(d), tree |-> tree[d]])
    BY <1>6 DEF CommitTree, Current, git, TypeOK
  <2>6. DrainOK(d)'
    BY <2>3, <2>4, <2>5 DEF DrainOK, Covers, Names, Tip
  <2> QED
    BY <1>0, <2>1, <2>2, <2>6
\* The branch moves on to a tree that covers its tip.
<1>7. CASE UpdateRef(d)
  <2>1. ~Idle(d) /\ \A e \in Drainers \ {d} : at'[e] \in {"idle", "next"}
    BY <1>7, OneWorks DEF UpdateRef, Idle, TypeOK
  <2>2. /\ Prepared(d) /\ UNCHANGED <<rows, sets, processed, tags>> /\ tree'[d] = tree[d] /\ next'[d] = next[d]
        /\ Current(d)' = Current(d) /\ Version(d)' = Version(d) /\ Index' = Index
        /\ branch' = Append(branch, [set |-> Current(d), tree |-> tree[d]]) /\ next[d] = branch'
        /\ at'[d] = IF sets[Current(d)].kind = "release" THEN "tag" ELSE "mark"
    BY <1>0, <1>7 DEF DrainOK, UpdateRef, Current, Version, Index, rows, TypeOK
  <2>3. [set |-> Current(d), tree |-> tree[d]] \in Commit
    BY <2>1, <2>2, CommitType DEF Prepared
  <2>4. /\ branch' # <<>> /\ Tip(branch') = tree[d]
        /\ \A t \in Seq(Commit) : IsPrefix(t, branch) => IsPrefix(t, branch')
    BY <2>2, <2>3, TipAppend DEF TypeOK
  <2>5. Behind(d, tree[d].index) => UpToDate(tree[d].index)'
    BY <2>2 DEF Behind, Another, UpToDate, Due
  <2>6. BranchOK'
    BY <2>2, <2>4, <2>5 DEF BranchOK, Prepared, Backed, rows, Tip
  <2>7. \A v \in Versions : TagOK(v)'
    <3> SUFFICES ASSUME NEW v \in Versions, tags[v] # <<>> PROVE TagOK(v)'
      BY <2>2 DEF TagOK
    <3>1. tags[v] \in Seq(Commit) /\ TagOK(v)
      BY DEF TypeOK
    <3> QED
      BY <2>2, <2>4, <3>1 DEF TagOK, OfVersion, Names, rows, Tip
  <2>8. Prepared(d)'
    BY <2>2 DEF Prepared, Backed, Behind, Another, Names, OfVersion, rows
  <2>9. DrainOK(d)'
    BY <2>2, <2>4, <2>8 DEF DrainOK, Tip
  <2> QED
    BY <1>0, <2>1, <2>6, <2>7, <2>9
\* The tag is cut on the commit the branch has just got.
<1>8. CASE TagAnnotated(d)
  <2>1. ~Idle(d) /\ Version(d) \in Versions /\ Version(d) \in released /\ Current(d) \in DOMAIN sets
    BY <1>8, OneWorks, CurrentIn DEF TagAnnotated, Idle
  <2>2. CASE tags[Version(d)] # <<>>
    BY <1>8, <2>1, <2>2, RefsStay, LeaveOK DEF TagAnnotated, git
  <2>3. CASE tags[Version(d)] = <<>>
    <3>1. /\ Prepared(d) /\ next[d] = branch /\ sets[Current(d)].kind = "release"
          /\ branch # <<>> /\ Tip(branch) = tree[d]
      BY <1>0, <1>8 DEF DrainOK, TagAnnotated
    <3>2. /\ UNCHANGED <<rows, sets, processed, branch, tree>> /\ at'[d] = "mark"
          /\ tags' = [tags EXCEPT ![Version(d)] = branch]
          /\ Current(d)' = Current(d) /\ Version(d)' = Version(d) /\ Index' = Index
      BY <1>8, <2>3, <3>1 DEF TagAnnotated, Current, Version, Index, rows, TypeOK
    <3>3. \A v \in Versions : tags'[v] = IF v = Version(d) THEN branch ELSE tags[v]
      BY <2>1, <3>2 DEF TypeOK
    <3>4. ASSUME NEW i \in DOMAIN sets \ processed, Another(d, i)
          PROVE  Another(d, i)' /\ Due(i)' /\ i \in DOMAIN sets' \ processed'
      <4>1. sets[i].version \in Versions
        BY SetsOf DEF TypeOK, Set
      <4> QED
        BY <3>2, <3>3, <3>4, <4>1 DEF Another, Due
    <3>5. \A I : Behind(d, I) => Behind(d, I)' /\ UpToDate(I)'
      BY <3>2, <3>4 DEF Behind, UpToDate
    <3>6. Prepared(d)'
      BY <3>1, <3>2, <3>5 DEF Prepared, Backed, Names, OfVersion, rows
    <3>7. DrainOK(d)'
      BY <3>1, <3>2, <3>6 DEF DrainOK, Tip
    <3>8. BranchOK'
      BY <3>1, <3>2, <3>5 DEF BranchOK, Prepared, Backed, rows, Tip
    <3>9. ASSUME NEW v \in Versions PROVE TagOK(v)'
      <4>1. CASE v = Version(d)
        <5>1. IsPrefix(branch, branch)
          BY PrefixIs DEF TypeOK
        <5> QED
          BY <2>1, <3>1, <3>2, <3>3, <4>1, <5>1 DEF TagOK, Prepared, Names, OfVersion, rows, Tip
      <4>2. CASE v # Version(d)
        BY <3>2, <3>3, <4>2 DEF TagOK, Names, OfVersion, rows, Tip
      <4> QED
        BY <4>1, <4>2
    <3>10. \A e \in Drainers \ {d} : at'[e] \in {"idle", "next"}
      BY <1>8, <2>1, <2>3, OneWorks DEF TagAnnotated, Idle, TypeOK
    <3> QED
      BY <1>0, <3>7, <3>8, <3>9, <3>10
  <2> QED
    BY <2>2, <2>3
<1>9. CASE MarkProcessed(d)
  <2>1. ~Idle(d) /\ Prepared(d) /\ Tip(branch) = tree[d]
    BY <1>0, <1>9 DEF MarkProcessed, DrainOK, Idle
  <2> QED
    BY <1>9, <2>1, MarkStays, LeaveOK DEF MarkProcessed, Prepared
<1>10. CASE Fault(d)
  <2>1. BranchOK' /\ \A v \in Versions : TagOK(v)'
    BY <1>10, RefsStay DEF Fault
  <2>2. \A e \in Drainers : at'[e] \in {"idle", "next"}
    BY <1>10, OneWorks DEF Fault, Idle, TypeOK
  <2> QED
    BY <1>0, <2>1, <2>2
<1> QED
  BY <1>1, <1>2, <1>3, <1>4, <1>5, <1>6, <1>7, <1>8, <1>9, <1>10 DEF DrainStep

LEMMA StutterOK == IInv /\ UNCHANGED vars => IInv'
<1> SUFFICES ASSUME IInv, UNCHANGED vars PROVE IInv'
    OBVIOUS
<1> USE DEF IInv, vars
<1>1. TypeOK'
    BY DEF TypeOK, Set
<1>2. BranchOK' /\ \A v \in Versions : TagOK(v)'
    BY RefsStay DEF rows, git
<1>3. \A d \in Drainers : DrainOK(d)'
    BY Unmoved DEF rows, git
<1> QED
    BY <1>1, <1>2, <1>3

LEMMA StepOK == IInv /\ [Next]_vars => IInv'
<1> SUFFICES ASSUME IInv, [Next]_vars PROVE IInv'
    OBVIOUS
<1>1. ASSUME NEW v \in Versions, Request(v) PROVE IInv'
    BY <1>1, RequestOK
<1>2. ASSUME NEW d \in Drainers, List(d) \/ Lock(d) \/ DrainStep(d) \/ Fault(d) PROVE IInv'
    BY <1>2, DrainStepOK
<1>3. CASE UNCHANGED vars
    BY <1>3, StutterOK
<1> QED
    BY <1>1, <1>2, <1>3 DEF Next

LEMMA Invariance == Spec => []IInv
<1>1. ReleaseGitAssumption
    BY ReleaseGitAssumption
<1> QED
    BY <1>1, InitOK, StepOK, PTL DEF Spec

\* Every variable has its type: the lock has one holder, who has a change set.
THEOREM TypeCorrect == Spec => []TypeOK
<1>1. IInv => TypeOK
    BY DEF IInv
<1> QED
    BY <1>1, Invariance, PTL

\* Every tag points at a commit of the branch that holds its version's snapshot
\* and an index that names it (TagAnnotated after UpdateRef, under one lock).
THEOREM Tagged == Spec => []TagsOnBranch
<1>1. IInv => TagsOnBranch
  <2> SUFFICES ASSUME IInv, NEW v \in Versions, tags[v] # <<>>
               PROVE  /\ IsPrefix(tags[v], branch) /\ Tip(tags[v]).snapshot[1] = v
                      /\ \E flag \in BOOLEAN : <<v, flag>> \in Tip(tags[v]).index
    BY DEF TagsOnBranch
  <2>1. TagOK(v)
    BY DEF IInv
  <2>2. Tip(tags[v]).snapshot[1] = v
    <3>1. \E flag \in BOOLEAN : Tip(tags[v]).snapshot = <<v, flag>>
      BY <2>1 DEF TagOK, OfVersion
    <3> QED
      BY <3>1
  <2> QED
    BY <2>1, <2>2 DEF TagOK, Names
<1> QED
    BY <1>1, Invariance, PTL

\* An index on the branch that is behind the database has a change set waiting.
THEOREM LagPending == Spec => []IndexLagIsPending
<1>1. IInv => IndexLagIsPending
    BY DEF IInv, BranchOK, UpToDate, IndexLagIsPending
<1> QED
    BY <1>1, Invariance, PTL

-----------------------------------------------------------------------------
(* What a step may not do.                                                 *)

\* Only UpdateRef moves the branch, to a commit on top of it.
LEMMA BranchStep ==
    IInv /\ [Next]_vars =>
      /\ IsPrefix(branch, branch')
      /\ branch # <<>> => Covers(Tip(branch).index, Tip(branch').index)
<1> SUFFICES ASSUME IInv, [Next]_vars
             PROVE  /\ IsPrefix(branch, branch')
                    /\ branch # <<>> => Covers(Tip(branch).index, Tip(branch').index)
    OBVIOUS
<1> USE DEF IInv
<1>1. CASE branch' = branch
  <2>1. IsPrefix(branch, branch)
    BY PrefixIs DEF TypeOK
  <2> QED
    BY <1>1, <2>1 DEF Covers, Names
<1>2. ASSUME NEW d \in Drainers, UpdateRef(d)
      PROVE  /\ IsPrefix(branch, branch')
             /\ branch # <<>> => Covers(Tip(branch).index, Tip(branch').index)
  <2>1. /\ ~Idle(d) /\ Prepared(d)
        /\ branch # <<>> => Covers(Tip(branch).index, tree[d].index)
        /\ branch' = Append(branch, [set |-> Current(d), tree |-> tree[d]])
    BY <1>2 DEF UpdateRef, DrainOK, Idle
  <2>2. [set |-> Current(d), tree |-> tree[d]] \in Commit
    BY <1>2, <2>1, CommitType DEF UpdateRef, Idle, DrainOK, Prepared
  <2> QED
    BY <2>1, <2>2, TipAppend DEF TypeOK
<1>3. ASSUME NEW v \in Versions, Request(v) PROVE branch' = branch
    BY <1>3 DEF Request, Create, Archive, Rewrite, ProbeTag, Backfill, git
<1>4. ASSUME NEW d \in Drainers, List(d) \/ Lock(d) \/ DrainStep(d) \/ Fault(d), ~UpdateRef(d)
      PROVE  branch' = branch
    BY <1>4 DEF List, Lock, DrainStep, EndPass, Verify, Build, ReadIndex, AlreadyArchived, CommitTree,
                TagAnnotated, MarkProcessed, Fault, git
<1> QED
    BY <1>1, <1>2, <1>3, <1>4 DEF Next, vars

\* Only TagAnnotated cuts a tag, where there is none; and Verify finds a tag that
\* differs only where the archive was rewritten.
LEMMA TagStep ==
    IInv /\ [Next]_vars =>
      /\ \A v \in Versions : tags[v] # <<>> => tags'[v] = tags[v]
      /\ \A v \in mismatched' \ mismatched : v \in rewritten
<1> SUFFICES ASSUME IInv, [Next]_vars
             PROVE  /\ \A v \in Versions : tags[v] # <<>> => tags'[v] = tags[v]
                    /\ \A v \in mismatched' \ mismatched : v \in rewritten
    OBVIOUS
<1> USE DEF IInv
<1>1. ASSUME NEW v \in Versions, Request(v) PROVE tags' = tags /\ mismatched' = mismatched
    BY <1>1 DEF Request, Create, Archive, Rewrite, ProbeTag, Backfill, git
<1>2. ASSUME NEW d \in Drainers, List(d) \/ Lock(d) \/ DrainStep(d) \/ Fault(d), ~TagAnnotated(d), ~Verify(d)
      PROVE  tags' = tags /\ mismatched' = mismatched
    BY <1>2 DEF List, Lock, DrainStep, EndPass, UpdateRef, Build, ReadIndex, AlreadyArchived, CommitTree,
                MarkProcessed, Fault, git
<1>3. ASSUME NEW d \in Drainers, TagAnnotated(d)
      PROVE  /\ mismatched' = mismatched
             /\ \A v \in Versions : tags[v] # <<>> => tags'[v] = tags[v]
    BY <1>3 DEF TagAnnotated, TypeOK
<1>4. ASSUME NEW d \in Drainers, Verify(d)
      PROVE  tags' = tags /\ \A v \in mismatched' \ mismatched : v \in rewritten
  <2>1. ~Idle(d) /\ tags[Version(d)] # <<>>
    BY <1>4 DEF Verify, DrainOK, Idle
  <2>2. OfVersion(Tip(tags[Version(d)]).snapshot, Version(d))
    BY <2>1, CurrentIn, OneWorks DEF TagOK
  <2>3. ASSUME Version(d) \notin rewritten PROVE Snapshot(Version(d)) = Tip(tags[Version(d)]).snapshot
    <3>1. (Version(d) \in rewritten) = FALSE
      BY <2>3
    <3> QED
      BY <2>2, <2>3, <3>1 DEF OfVersion, Snapshot
  <2> QED
    BY <1>4, <2>3 DEF Verify, git
<1>5. CASE UNCHANGED vars
    BY <1>5 DEF vars
<1> QED
    BY <1>1, <1>2, <1>3, <1>4, <1>5 DEF Next

\* The branch only grows, its index forgets nothing, a tag stays where it is and
\* only a rewritten archive is reported: no interleaving of drainers, failures,
\* crashes and requests takes back what was published.
THEOREM History == Spec => HistoryIsKept
<1>1. IInv /\ [Next]_vars =>
        /\ IsPrefix(branch, branch')
        /\ branch # <<>> => \A v \in Versions :
             /\ <<v, TRUE>> \in Tip(branch).index => <<v, TRUE>> \in Tip(branch').index
             /\ <<v, FALSE>> \in Tip(branch).index =>
                   \E flag \in BOOLEAN : <<v, flag>> \in Tip(branch').index
    BY BranchStep DEF Covers, Names
<1>2. Spec => BranchGrows
    BY <1>1, Invariance, PTL DEF Spec, BranchGrows
<1>3. Spec => TagsFrozen
    BY TagStep, Invariance, PTL DEF Spec, TagsFrozen
<1> QED
    BY <1>2, <1>3 DEF HistoryIsKept
=============================================================================
