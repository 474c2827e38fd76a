--------------------------- MODULE ServicesProofs ---------------------------
(***************************************************************************)
(* The promises of the services for any number of requests, projects,       *)
(* versions, editors and connections: an inductive invariant of each        *)
(* service that is an instance, what follows from it, and, since each takes  *)
(* its own steps or keeps still, the same of all of them together.           *)
(* (RestoreJobs has a module of its own: RestoreJobsProofs.)                *)
(***************************************************************************)
EXTENDS Services, Sequences, FiniteSetTheorems, TLAPS

-----------------------------------------------------------------------------
(* Counting.                                                               *)

\* A finite set of at most n elements.
AtMost(S, n) == IsFiniteSet(S) /\ Cardinality(S) <= n

LEMMA Fewer ==
    ASSUME NEW S, NEW n \in Nat, AtMost(S, n), NEW T, T \subseteq S
    PROVE  AtMost(T, n)
<1>1. IsFiniteSet(T) /\ Cardinality(T) <= Cardinality(S)
    BY FS_Subset DEF AtMost
<1>2. Cardinality(T) \in Nat /\ Cardinality(S) \in Nat
    BY <1>1, FS_CardinalityType DEF AtMost
<1> QED
    BY <1>1, <1>2 DEF AtMost

\* One goes and another comes.
LEMMA Exchange ==
    ASSUME NEW S, NEW n \in Nat, AtMost(S, n), NEW x, NEW d \in S
    PROVE  AtMost((S \ {d}) \cup {x}, n)
<1> DEFINE T == S \ {d}
<1>1. IsFiniteSet(T) /\ Cardinality(T) = Cardinality(S) - 1
    BY FS_RemoveElement DEF AtMost
<1>2. Cardinality(T) \in Nat /\ Cardinality(S) \in Nat
    BY <1>1, FS_CardinalityType DEF AtMost
<1> HIDE DEF T
<1>3. IsFiniteSet(T \cup {x}) /\ Cardinality(T \cup {x}) <= Cardinality(T) + 1
    <2>1. /\ IsFiniteSet(T \cup {x})
          /\ Cardinality(T \cup {x}) = IF x \in T THEN Cardinality(T) ELSE Cardinality(T) + 1
        BY <1>1, FS_AddElement
    <2> QED
        BY <1>2, <2>1
<1>4. Cardinality(T \cup {x}) \in Nat
    BY <1>3, FS_CardinalityType
<1>5. AtMost(T \cup {x}, n)
    BY <1>1, <1>2, <1>3, <1>4 DEF AtMost
<1> QED
    BY <1>5 DEF T

\* One comes, and one of them all goes.
LEMMA AddAndDrop ==
    ASSUME NEW S, NEW n \in Nat, AtMost(S, n), NEW x, NEW d \in S \cup {x}
    PROVE  AtMost((S \cup {x}) \ {d}, n)
<1>1. CASE d = x
    <2>1. (S \cup {x}) \ {d} \subseteq S
        BY <1>1
    <2> QED
        BY <2>1, Fewer
<1>2. CASE d # x
    <2>1. d \in S /\ (S \cup {x}) \ {d} = (S \ {d}) \cup {x}
        BY <1>2
    <2>2. AtMost((S \ {d}) \cup {x}, n)
        BY <2>1, Exchange
    <2> QED
        BY <2>1, <2>2
<1> QED
    BY <1>1, <1>2

\* The instances count as everybody does.
LEMMA Counting ==
    ASSUME NEW S
    PROVE  /\ Index!Cardinality(S) = Cardinality(S)
           /\ Editors!Cardinality(S) = Cardinality(S)
           /\ Pool!Cardinality(S) = Cardinality(S)
           /\ Adopt!Cardinality(S) = Cardinality(S)
BY DEF Cardinality, Adopt!Cardinality, Index!Cardinality, Editors!Cardinality, Pool!Cardinality

IndexRows == [Versions -> Nat]
IndexEntry == [index : Seq(IndexRows), by : SUBSET IndexProjects, old : BOOLEAN]
AskPCs == {"idle", "warm", "epoch", "fly", "warmAgain", "build", "put", "finish", "wait"}
AskRecord == [pc : AskPCs, project : IndexProjects \cup {None}, key : Index!Keys \cup {{}}, epoch : Nat,
              began : IndexRows, index : Seq(IndexRows), joined : BOOLEAN]

\* What the cache was told of has been committed.
ContentOK ==
    /\ content \in IndexRows /\ heard \in IndexRows
    /\ \A v \in Versions : heard[v] <= content[v]
    /\ \A e \in bus : "version" \in DOMAIN e =>
         e.version \in Versions /\ e.n \in Nat /\ e.n <= content[e.version]

CacheType == links \in [IndexProjects -> Links] /\ entries \in [Index!Keys -> IndexEntry] /\ epoch \in Nat

\* A request that has not begun to build has no rows; what has been built under
\* the present epoch is as new as what the cache was told of.
AskOK(x, at, low) ==
    /\ x.epoch <= at
    /\ x.pc # "idle" => x.key \in Index!Keys /\ x.project \in IndexProjects
    /\ x.pc \in {"warm", "epoch"} => x.index = <<>>
    /\ x.pc \in {"fly", "warmAgain", "build", "put"} /\ x.epoch = at => Index!AtLeast(x.index, x.key, low)

AsksOK == ask \in [Askers -> AskRecord] /\ \A a \in Askers : AskOK(ask[a], epoch, heard)

IndexInv == ContentOK /\ CacheType /\ Index!NoStaleEntry /\ AsksOK

-----------------------------------------------------------------------------
LEMMA IndexInitOK == Index!IndexCacheAssumption /\ Index!Init => IndexInv
<1> SUFFICES ASSUME Index!IndexCacheAssumption, Index!Init PROVE IndexInv
    OBVIOUS
<1>1. ContentOK
    BY DEF Index!Init, ContentOK, IndexRows
<1>2. <<>> \in Seq(IndexRows) /\ \A k \in Index!Keys : ~Index!Cached(k)
    BY DEF Index!Init, Index!Cached, Index!NoEntry
<1>3. CacheType
    BY <1>2 DEF Index!Init, CacheType, Index!NoEntry, IndexEntry
<1>4. Index!NoStaleEntry
    BY <1>2 DEF Index!NoStaleEntry
<1>5. Index!Idle \in AskRecord /\ Index!Idle.epoch = 0 /\ Index!Idle.pc = "idle"
    BY <1>2 DEF Index!Idle, AskRecord, AskPCs, IndexRows
<1>6. AsksOK
    BY <1>5 DEF Index!Init, AsksOK, AskOK
<1> QED
    BY <1>1, <1>3, <1>4, <1>6 DEF IndexInv

\* One request moves on; the others know what they knew.
LEMMA AskMoves ==
    ASSUME AsksOK, epoch' = epoch, heard' = heard, NEW a \in Askers,
           NEW STATE x, x \in AskRecord, AskOK(x, epoch, heard), ask' = [ask EXCEPT ![a] = x]
    PROVE  AsksOK'
BY DEF AsksOK

\* Another row more is as good as what it is added to.
LEMMA OneMore ==
    ASSUME NEW s \in Seq(IndexRows), NEW c \in IndexRows, NEW low \in IndexRows, NEW k \in SUBSET Versions,
           Index!AtLeast(s, k, low), \A v \in Versions : low[v] <= c[v]
    PROVE  Index!AtLeast(Append(s, c), k, low)
<1>1. \A i \in DOMAIN Append(s, c) :
        Append(s, c)[i] = c \/ (i \in DOMAIN s /\ Append(s, c)[i] = s[i])
    OBVIOUS
<1>2. ASSUME NEW i \in DOMAIN Append(s, c), NEW v \in k
      PROVE  Append(s, c)[i][v] >= low[v]
    <2>1. CASE Append(s, c)[i] = c
        BY <2>1 DEF IndexRows
    <2>2. CASE i \in DOMAIN s /\ Append(s, c)[i] = s[i]
        BY <2>2 DEF Index!AtLeast
    <2> QED
        BY <1>1, <2>1, <2>2
<1> QED
    BY <1>2 DEF Index!AtLeast

\* Requests that do not change entries.
LEMMA RequestKeeps ==
    ASSUME Index!IndexCacheAssumption, IndexInv, NEW a \in Askers,
           (\E p \in IndexProjects : Index!Ask(a, p)) \/ Index!ReadEpoch(a) \/ Index!Fly(a) \/ Index!Build(a)
    PROVE  AsksOK'
<1>1. ask[a] \in AskRecord /\ AskOK(ask[a], epoch, heard)
    BY DEF IndexInv, AsksOK
<1>2. epoch \in Nat /\ heard \in IndexRows /\ content \in IndexRows
    BY DEF IndexInv, ContentOK, CacheType
<1>3. AsksOK
    BY DEF IndexInv
<1>4. ASSUME NEW p \in IndexProjects, Index!Ask(a, p) PROVE AsksOK'
    <2> DEFINE x == [Index!Idle EXCEPT !.pc = "warm", !.project = p, !.key = links[p], !.began = heard]
    <2>1. ask' = [ask EXCEPT ![a] = x] /\ epoch' = epoch /\ heard' = heard
        BY <1>4 DEF Index!Ask, Index!cache, Index!database
    <2>2. <<>> \in Seq(IndexRows) /\ links[p] \in Index!Keys
        BY DEF IndexInv, CacheType, Index!Keys
    <2>3. x \in AskRecord
        BY <1>2, <2>2 DEF Index!Idle, AskRecord, AskPCs
    <2>4. x.pc = "warm" /\ x.key = links[p] /\ x.project = p /\ x.epoch = 0 /\ x.index = <<>>
        BY DEF Index!Idle
    <2> HIDE DEF x
    <2>5. AskOK(x, epoch, heard)
        BY <1>2, <2>2, <2>4 DEF AskOK
    <2> QED
        BY <1>3, <2>1, <2>3, <2>5, AskMoves
<1>5. CASE Index!ReadEpoch(a)
    <2> DEFINE x == [ask[a] EXCEPT !.pc = "fly", !.epoch = epoch]
    <2>1. ask' = [ask EXCEPT ![a] = x] /\ epoch' = epoch /\ heard' = heard /\ ask[a].pc = "epoch"
        BY <1>3, <1>5 DEF Index!ReadEpoch, Index!cache, Index!database, AsksOK
    <2>2. x \in AskRecord
        BY <1>1, <1>2 DEF AskRecord, AskPCs
    <2>3. x.pc = "fly" /\ x.key = ask[a].key
          /\ x.project = ask[a].project /\ x.epoch = epoch /\ x.index = ask[a].index
        BY <1>1 DEF AskRecord
    <2> HIDE DEF x
    <2>4. x.index = <<>> /\ x.key \in Index!Keys
        BY <1>1, <2>1, <2>3 DEF AskOK
    <2>5. Index!AtLeast(x.index, x.key, heard)
        BY <2>4 DEF Index!AtLeast
    <2>6. AskOK(x, epoch, heard)
        BY <1>1, <1>2, <2>1, <2>3, <2>4, <2>5 DEF AskOK
    <2> QED
        BY <1>3, <2>1, <2>2, <2>6, AskMoves
<1>6. ASSUME NEW pc \in {"warmAgain", "wait"}, NEW j \in BOOLEAN, ask[a].pc = "fly",
             ask' = [ask EXCEPT ![a] = [ask[a] EXCEPT !.pc = pc, !.joined = j]],
             epoch' = epoch, heard' = heard
      PROVE  AsksOK'
    <2> DEFINE x == [ask[a] EXCEPT !.pc = pc, !.joined = j]
    <2>1. x \in AskRecord
        BY <1>1 DEF AskRecord, AskPCs
    <2>2. x.pc = pc /\ x.key = ask[a].key
          /\ x.project = ask[a].project /\ x.epoch = ask[a].epoch /\ x.index = ask[a].index
        BY <1>1 DEF AskRecord
    <2>3. ask' = [ask EXCEPT ![a] = x]
        BY <1>6
    <2> HIDE DEF x
    <2>4. AskOK(x, epoch, heard)
        BY <1>1, <1>6, <2>2 DEF AskOK
    <2> QED
        BY <1>3, <1>6, <2>1, <2>3, <2>4, AskMoves
<1>7. CASE Index!Fly(a)
    <2> DEFINE j == ask[a].joined
    <2>1. j \in BOOLEAN /\ [ask[a] EXCEPT !.pc = "warmAgain", !.joined = j] = [ask[a] EXCEPT !.pc = "warmAgain"]
        BY <1>1 DEF AskRecord
    <2>2. \/ ask' = [ask EXCEPT ![a] = [ask[a] EXCEPT !.pc = "warmAgain"]]
          \/ ask' = [ask EXCEPT ![a] = [ask[a] EXCEPT !.pc = "wait", !.joined = TRUE]]
        BY <1>3, <1>7 DEF Index!Fly, AsksOK
    <2> HIDE DEF j
    <2>3. ask[a].pc = "fly" /\ epoch' = epoch /\ heard' = heard
        BY <1>7 DEF Index!Fly, Index!database
    <2> QED
        BY <1>6, <2>1, <2>2, <2>3
<1>8. CASE Index!Build(a)
    <2> DEFINE pc == IF Len(ask[a].index) = 2 THEN "put" ELSE "build"
               x == [ask[a] EXCEPT !.index = Append(ask[a].index, content), !.pc = pc]
    <2>1. ask' = [ask EXCEPT ![a] = x] /\ epoch' = epoch /\ heard' = heard /\ ask[a].pc = "build"
        BY <1>3, <1>8 DEF Index!Build, Index!cache, Index!database, AsksOK
    <2>2. pc \in {"build", "put"}
        OBVIOUS
    <2> HIDE DEF pc
    <2>3. ask[a].index \in Seq(IndexRows)
        BY <1>1 DEF AskRecord
    <2>4. Append(ask[a].index, content) \in Seq(IndexRows)
        BY <1>2, <2>3
    <2>5. x \in AskRecord
        BY <1>1, <2>2, <2>4 DEF AskRecord, AskPCs
    <2>6. x.pc = pc /\ x.key = ask[a].key /\ x.project = ask[a].project /\ x.epoch = ask[a].epoch
          /\ x.index = Append(ask[a].index, content)
        BY <1>1 DEF AskRecord
    <2> HIDE DEF x
    <2>7. ask[a].key \in SUBSET Versions
        BY <1>1, <2>1 DEF AskOK, Index!Keys, Index!IndexCacheAssumption
    <2>8. ASSUME x.epoch = epoch PROVE Index!AtLeast(x.index, x.key, heard)
        <3>1. Index!AtLeast(ask[a].index, ask[a].key, heard)
            BY <1>1, <2>1, <2>6, <2>8 DEF AskOK
        <3>2. \A v \in Versions : heard[v] <= content[v]
            BY DEF IndexInv, ContentOK
        <3> QED
            BY <1>2, <2>3, <2>6, <2>7, <3>1, <3>2, OneMore
    <2>9. AskOK(x, epoch, heard)
        BY <1>1, <2>1, <2>2, <2>6, <2>8 DEF AskOK
    <2> QED
        BY <1>3, <2>1, <2>5, <2>9, AskMoves
<1> QED
    BY <1>4, <1>5, <1>7, <1>8

-----------------------------------------------------------------------------
(* The entries.                                                            *)

\* Entries that are dropped leave what the others say true.
LEMMA ForgetKeeps ==
    ASSUME CacheType, Index!NoStaleEntry, NEW ks, Index!Forget(ks)
    PROVE  /\ entries' \in [Index!Keys -> IndexEntry]
           /\ \A k \in Index!Keys : entries'[k].index # <<>> =>
                k \notin ks /\ Index!AtLeast(entries'[k].index, k, heard)
<1>1. Index!NoEntry \in IndexEntry /\ Index!NoEntry.index = <<>>
    BY DEF Index!NoEntry, IndexEntry
<1>2. \A k \in Index!Keys : entries'[k] = IF k \in ks THEN Index!NoEntry ELSE entries[k]
    BY DEF Index!Forget
<1>3. entries' \in [Index!Keys -> IndexEntry]
    BY <1>1 DEF Index!Forget, CacheType
<1> QED
    BY <1>1, <1>2, <1>3 DEF Index!NoStaleEntry, Index!Cached

\* A hit hands out an entry, a miss clears it.
LEMMA WarmKeeps ==
    ASSUME IndexInv, NEW a \in Askers, Index!Warm(a)
    PROVE  CacheType' /\ Index!NoStaleEntry' /\ AsksOK'
<1> DEFINE k == ask[a].key
<1>1. ask[a] \in AskRecord /\ AskOK(ask[a], epoch, heard) /\ AsksOK /\ CacheType /\ Index!NoStaleEntry
    BY DEF IndexInv, AsksOK
<1>2. ask[a].pc \in {"warm", "warmAgain"} /\ epoch' = epoch /\ heard' = heard /\ links' = links
    BY DEF Index!Warm, Index!database
<1>3. k \in Index!Keys
    BY <1>1, <1>2 DEF AskOK
<1>4. CASE Index!Cached(k) /\ ~entries[k].old
    <2> DEFINE pc == IF ask[a].pc = "warm" THEN "idle" ELSE "finish"
               x == [ask[a] EXCEPT !.index = entries[k].index, !.pc = pc]
               y == [entries[k] EXCEPT !.by = entries[k].by \cup {ask[a].project}]
    <2>1. entries' = [entries EXCEPT ![k] = y] /\ ask' = [ask EXCEPT ![a] = x]
        BY <1>1, <1>3, <1>4 DEF Index!Warm, AsksOK, CacheType
    <2>2. pc \in {"idle", "finish"}
        OBVIOUS
    <2> HIDE DEF pc
    <2>3. x \in AskRecord
        BY <1>1, <1>3, <2>2 DEF AskRecord, AskPCs, CacheType, IndexEntry
    <2>4. x.pc = pc /\ x.key = k /\ x.project = ask[a].project /\ x.epoch = ask[a].epoch
        BY <1>1 DEF AskRecord
    <2> HIDE DEF x
    <2>5. AskOK(x, epoch, heard)
        BY <1>1, <1>2, <1>3, <2>2, <2>4 DEF AskOK
    <2>6. AsksOK'
        BY <1>1, <1>2, <2>1, <2>3, <2>5, AskMoves
    <2>7. y.index = entries[k].index /\ (ask[a].project \in IndexProjects => y \in IndexEntry)
        BY <1>1, <1>3 DEF CacheType, IndexEntry
    <2> HIDE DEF y
    <2>8. ask[a].project \in IndexProjects
        BY <1>1, <1>2 DEF AskOK
    <2>9. CacheType' /\ Index!NoStaleEntry'
        BY <1>1, <1>2, <1>3, <2>1, <2>7, <2>8 DEF CacheType, Index!NoStaleEntry, Index!Cached
    <2> QED
        BY <2>6, <2>9
<1>5. CASE ~(Index!Cached(k) /\ ~entries[k].old)
    <2> DEFINE pc == IF ask[a].pc = "warm" THEN "epoch" ELSE "build"
               x == [ask[a] EXCEPT !.pc = pc]
    <2>1. Index!Forget({k}) /\ ask' = [ask EXCEPT ![a] = x]
        BY <1>1, <1>5 DEF Index!Warm, AsksOK
    <2>2. pc \in {"epoch", "build"} /\ (pc = "epoch" <=> ask[a].pc = "warm")
        OBVIOUS
    <2> HIDE DEF pc
    <2>3. x \in AskRecord
        BY <1>1, <2>2 DEF AskRecord, AskPCs
    <2>4. x.pc = pc /\ x.key = k
          /\ x.project = ask[a].project /\ x.epoch = ask[a].epoch /\ x.index = ask[a].index
        BY <1>1 DEF AskRecord
    <2> HIDE DEF x
    <2>5. AskOK(x, epoch, heard)
        BY <1>1, <1>2, <1>3, <2>2, <2>4 DEF AskOK
    <2>6. AsksOK'
        BY <1>1, <1>2, <2>1, <2>3, <2>5, AskMoves
    <2>7. CacheType' /\ Index!NoStaleEntry'
        BY <1>1, <1>2, <2>1, ForgetKeeps DEF CacheType, Index!NoStaleEntry, Index!Cached
    <2> QED
        BY <2>6, <2>7
<1> QED
    BY <1>4, <1>5

\* What is put into the cache was built under the present epoch.
LEMMA PutKeeps ==
    ASSUME IndexInv, NEW a \in Askers, Index!Put(a)
    PROVE  CacheType' /\ Index!NoStaleEntry' /\ AsksOK'
<1> DEFINE k == ask[a].key
           x == [ask[a] EXCEPT !.pc = "finish"]
<1>1. ask[a] \in AskRecord /\ AskOK(ask[a], epoch, heard) /\ AsksOK /\ CacheType /\ Index!NoStaleEntry
    BY DEF IndexInv, AsksOK
<1>2. ask[a].pc = "put" /\ epoch' = epoch /\ heard' = heard /\ links' = links
    BY DEF Index!Put, Index!database
<1>3. k \in Index!Keys
    BY <1>1, <1>2 DEF AskOK
<1>4. AsksOK'
    <2>1. ask' = [ask EXCEPT ![a] = x]
        BY <1>1 DEF Index!Put, AsksOK
    <2>2. x \in AskRecord
        BY <1>1 DEF AskRecord, AskPCs
    <2>3. x.pc = "finish" /\ x.key = k /\ x.project = ask[a].project /\ x.epoch = ask[a].epoch
        BY <1>1 DEF AskRecord
    <2> HIDE DEF x
    <2>4. AskOK(x, epoch, heard)
        BY <1>1, <1>2, <1>3, <2>3 DEF AskOK
    <2> QED
        BY <1>1, <1>2, <2>1, <2>2, <2>4, AskMoves
<1>5. CASE epoch # ask[a].epoch
    <2>1. entries' = entries
        BY <1>5 DEF Index!Put
    <2> QED
        BY <1>1, <1>2, <1>4, <2>1 DEF CacheType, Index!NoStaleEntry, Index!Cached
<1>6. CASE epoch = ask[a].epoch
    <2> DEFINE new == [index |-> ask[a].index, by |-> {ask[a].project}, old |-> FALSE]
    <2>1. PICK out : entries' = [q \in Index!Keys |-> IF q \in out THEN Index!NoEntry
                                               ELSE IF q = k THEN new ELSE entries[q]]
        BY <1>6 DEF Index!Put, Index!Insert, Index!NewEntry
    <2>2. Index!AtLeast(ask[a].index, k, heard)
        BY <1>1, <1>2, <1>6 DEF AskOK
    <2>3. new \in IndexEntry /\ new.index = ask[a].index
        BY <1>1, <1>2 DEF AskOK, AskRecord, IndexEntry
    <2> HIDE DEF new
    <2>4. Index!NoEntry \in IndexEntry /\ Index!NoEntry.index = <<>>
        BY DEF Index!NoEntry, IndexEntry
    <2>5. CacheType'
        BY <1>1, <1>2, <2>1, <2>3, <2>4 DEF CacheType
    <2>6. ASSUME NEW q \in Index!Keys, entries'[q].index # <<>> PROVE Index!AtLeast(entries'[q].index, q, heard)
        BY <1>1, <2>1, <2>2, <2>3, <2>4, <2>6 DEF Index!NoStaleEntry, Index!Cached
    <2> QED
        BY <1>2, <1>4, <2>5, <2>6 DEF Index!NoStaleEntry, Index!Cached
<1> QED
    BY <1>5, <1>6

\* A build ends, for all who joined it.
LEMMA EndKeeps ==
    ASSUME IndexInv, NEW a \in Askers, Index!Finish(a) \/ Index!BuildFails(a)
    PROVE  AsksOK'
<1>1. AsksOK /\ epoch' = epoch /\ heard' = heard
    BY DEF IndexInv, Index!Finish, Index!BuildFails, Index!database
<1>2. PICK index \in Seq(IndexRows) :
        ask' = [b \in Askers |-> IF b \in Index!FlightOf(a) THEN [ask[b] EXCEPT !.pc = "idle", !.index = index]
                                 ELSE ask[b]]
    <2>1. <<>> \in Seq(IndexRows) /\ ask[a].index \in Seq(IndexRows)
        BY <1>1 DEF AsksOK, AskRecord
    <2> QED
        BY <2>1 DEF Index!Finish, Index!BuildFails
<1>3. ASSUME NEW b \in Askers PROVE ask'[b] \in AskRecord /\ AskOK(ask'[b], epoch, heard)
    <2> DEFINE x == [ask[b] EXCEPT !.pc = "idle", !.index = index]
    <2>1. ask[b] \in AskRecord /\ AskOK(ask[b], epoch, heard)
        BY <1>1 DEF AsksOK
    <2>2. x \in AskRecord
        BY <2>1 DEF AskRecord, AskPCs
    <2>3. x.pc = "idle" /\ x.epoch = ask[b].epoch
        BY <2>1 DEF AskRecord
    <2>4. ask'[b] = x \/ ask'[b] = ask[b]
        BY <1>2
    <2> HIDE DEF x
    <2>5. AskOK(x, epoch, heard)
        BY <2>1, <2>3 DEF AskOK
    <2> QED
        BY <2>1, <2>2, <2>4, <2>5
<1>4. DOMAIN ask' = Askers /\ ask' = [b \in Askers |-> ask'[b]]
    BY <1>2
<1> QED
    BY <1>1, <1>3, <1>4 DEF AsksOK

-----------------------------------------------------------------------------
(* The changes.                                                            *)

\* Under a new epoch no build counts.
LEMMA NewEpoch ==
    ASSUME IndexInv, epoch' = epoch + 1, ask' = ask
    PROVE  AsksOK'
<1>1. ASSUME NEW a \in Askers PROVE ask[a] \in AskRecord /\ AskOK(ask[a], epoch', heard')
    <2>1. ask[a] \in AskRecord /\ AskOK(ask[a], epoch, heard)
        BY DEF IndexInv, AsksOK
    <2>2. epoch \in Nat /\ ask[a].epoch \in Nat
        BY <2>1 DEF AskRecord, IndexInv, CacheType
    <2> QED
        BY <2>1, <2>2 DEF AskOK
<1> QED
    BY <1>1 DEF IndexInv, AsksOK

\* An import commits.
LEMMA ImportKeeps ==
    ASSUME IndexInv, NEW v \in Versions, Index!Import(v) \/ Index!ImportElsewhere(v)
    PROVE  IndexInv'
<1>1. UNCHANGED <<heard, links, Index!cache, ask>> /\ content' = [content EXCEPT ![v] = @ + 1]
    BY DEF Index!Import, Index!ImportElsewhere
<1>2. content' \in IndexRows /\ \A w \in Versions : content[w] <= content'[w]
    BY <1>1 DEF IndexInv, ContentOK, IndexRows
<1>3. CacheType' /\ Index!NoStaleEntry' /\ AsksOK'
    BY <1>1 DEF IndexInv, CacheType, Index!NoStaleEntry, Index!Cached, AsksOK, Index!cache
<1>4. ASSUME NEW e \in bus', "version" \in DOMAIN e
      PROVE  e.version \in Versions /\ e.n \in Nat /\ e.n <= content'[e.version]
    <2>1. CASE e \in bus
        <3>1. e.version \in Versions /\ e.n \in Nat /\ e.n <= content[e.version]
            BY <1>4, <2>1 DEF IndexInv, ContentOK
        <3>2. content[e.version] \in Nat /\ content'[e.version] \in Nat
            BY <1>2, <3>1 DEF IndexInv, ContentOK, IndexRows
        <3> QED
            BY <1>2, <3>1, <3>2
    <2>2. CASE e \notin bus
        <3>1. e = [version |-> v, n |-> content[v] + 1]
            BY <2>2 DEF Index!Import, Index!ImportElsewhere
        <3>2. e.version = v /\ e.n = content[v] + 1
            BY <3>1
        <3>3. content[v] \in Nat /\ content'[v] = content[v] + 1
            BY <1>1 DEF IndexInv, ContentOK, IndexRows
        <3> QED
            BY <3>2, <3>3
    <2> QED
        BY <2>1, <2>2
<1>5. \A w \in Versions : heard'[w] <= content'[w]
    <2> SUFFICES ASSUME NEW w \in Versions PROVE heard[w] <= content'[w]
        BY <1>1
    <2>1. heard[w] \in Nat /\ content[w] \in Nat /\ content'[w] \in Nat /\ heard[w] <= content[w]
        BY <1>2 DEF IndexInv, ContentOK, IndexRows
    <2> QED
        BY <1>2, <2>1
<1>6. ContentOK'
    BY <1>1, <1>2, <1>4, <1>5 DEF IndexInv, ContentOK
<1> QED
    BY <1>3, <1>6 DEF IndexInv

\* The cache is told of it: the entries with the version go, and a build under way
\* belongs to the last epoch.
LEMMA PublishedKeeps ==
    ASSUME Index!IndexCacheAssumption, IndexInv, NEW e \in bus, Index!Published(e)
    PROVE  IndexInv'
<1> DEFINE ks == {k \in Index!Keys : e.version \in k}
<1>1. /\ Index!Forget(ks) /\ epoch' = epoch + 1 /\ UNCHANGED <<content, links, ask>>
      /\ bus' = bus \ {e} /\ "version" \in DOMAIN e
      /\ heard' = [heard EXCEPT ![e.version] = IF @ > e.n THEN @ ELSE e.n]
    BY DEF Index!Published
<1>2. e.version \in Versions /\ e.n \in Nat /\ e.n <= content[e.version]
    BY <1>1 DEF IndexInv, ContentOK
<1>3. ContentOK'
    BY <1>1, <1>2 DEF IndexInv, ContentOK, IndexRows
<1>4. CacheType'
    BY <1>1, ForgetKeeps DEF IndexInv, CacheType
<1>5. Index!NoStaleEntry'
    <2> SUFFICES ASSUME NEW k \in Index!Keys, entries'[k].index # <<>>
                 PROVE  Index!AtLeast(entries'[k].index, k, heard')
        BY DEF Index!NoStaleEntry, Index!Cached
    <2>1. k \notin ks /\ Index!AtLeast(entries'[k].index, k, heard)
        BY <1>1, ForgetKeeps DEF IndexInv
    <2>2. k \subseteq Versions /\ e.version \notin k
        BY <2>1 DEF Index!Keys, Index!IndexCacheAssumption
    <2>3. \A v \in k : heard'[v] = heard[v]
        BY <1>1, <2>2 DEF IndexInv, ContentOK, IndexRows
    <2> QED
        BY <2>1, <2>3 DEF Index!AtLeast
<1>6. AsksOK'
    BY <1>1, NewEpoch
<1> QED
    BY <1>3, <1>4, <1>5, <1>6 DEF IndexInv

\* Everything else that happens to projects and entries.
LEMMA OtherKeeps ==
    ASSUME IndexInv,
           \/ \E e \in bus : Index!PublishedLinks(e)
           \/ \E p \in IndexProjects, l \in Links : Index!Relink(p, l)
           \/ Index!Drop \/ \E k \in Index!Keys : Index!Expire(k)
    PROVE  IndexInv'
<1>1. ASSUME NEW e \in bus, Index!PublishedLinks(e) PROVE IndexInv'
    <2>1. PICK ks : Index!Forget(ks)
        BY <1>1 DEF Index!PublishedLinks
    <2>2. /\ epoch' = epoch + 1 /\ bus' = bus \ {e}
          /\ UNCHANGED <<content, heard, links, ask>>
        BY <1>1 DEF Index!PublishedLinks
    <2>3. CacheType' /\ Index!NoStaleEntry'
        BY <2>1, <2>2, ForgetKeeps DEF IndexInv, CacheType, Index!NoStaleEntry, Index!Cached
    <2>4. ContentOK'
        BY <2>2 DEF IndexInv, ContentOK
    <2> QED
        BY <2>2, <2>3, <2>4, NewEpoch DEF IndexInv
<1>2. ASSUME NEW p \in IndexProjects, NEW l \in Links, Index!Relink(p, l) PROVE IndexInv'
    <2>1. /\ links' = [links EXCEPT ![p] = l] /\ bus' = bus \cup {[project |-> p]}
          /\ UNCHANGED <<content, heard, Index!cache, ask>>
        BY <1>2 DEF Index!Relink
    <2>2. CacheType' /\ Index!NoStaleEntry' /\ AsksOK'
        BY <2>1 DEF IndexInv, CacheType, Index!NoStaleEntry, Index!Cached, AsksOK, Index!cache
    <2>3. "version" \notin DOMAIN [project |-> p]
        OBVIOUS
    <2>4. ContentOK'
        BY <2>1, <2>3 DEF IndexInv, ContentOK
    <2> QED
        BY <2>2, <2>4 DEF IndexInv
<1>3. CASE Index!Drop
    <2>1. PICK ks : Index!Forget(ks)
        BY <1>3 DEF Index!Drop
    <2>2. epoch' = epoch + 1 /\ UNCHANGED <<content, heard, links, bus, ask>>
        BY <1>3 DEF Index!Drop, Index!database
    <2>3. CacheType' /\ Index!NoStaleEntry'
        BY <2>1, <2>2, ForgetKeeps DEF IndexInv, CacheType, Index!NoStaleEntry, Index!Cached
    <2>4. ContentOK'
        BY <2>2 DEF IndexInv, ContentOK
    <2> QED
        BY <2>2, <2>3, <2>4, NewEpoch DEF IndexInv
<1>4. ASSUME NEW k \in Index!Keys, Index!Expire(k) PROVE IndexInv'
    <2> DEFINE y == [entries[k] EXCEPT !.old = TRUE]
    <2>1. entries' = [entries EXCEPT ![k] = y] /\ UNCHANGED <<content, heard, links, bus, epoch, ask>>
        BY <1>4 DEF Index!Expire, Index!database, IndexInv, CacheType
    <2>2. y \in IndexEntry /\ y.index = entries[k].index
        BY DEF IndexInv, CacheType, IndexEntry
    <2> HIDE DEF y
    <2>3. CacheType' /\ Index!NoStaleEntry'
        BY <2>1, <2>2 DEF IndexInv, CacheType, Index!NoStaleEntry, Index!Cached
    <2> QED
        BY <2>1, <2>3 DEF IndexInv, ContentOK, AsksOK
<1> QED
    BY <1>1, <1>2, <1>3, <1>4

-----------------------------------------------------------------------------
LEMMA IndexNextOK == Index!IndexCacheAssumption /\ IndexInv /\ [Index!Next]_(Index!vars) => IndexInv'
<1> SUFFICES ASSUME Index!IndexCacheAssumption, IndexInv, [Index!Next]_(Index!vars) PROVE IndexInv'
    OBVIOUS
<1>1. CASE UNCHANGED Index!vars
    BY <1>1 DEF Index!vars, IndexInv, ContentOK, CacheType, Index!NoStaleEntry, Index!Cached, AsksOK
<1>2. ASSUME NEW a \in Askers,
             (\E p \in IndexProjects : Index!Ask(a, p)) \/ Index!ReadEpoch(a) \/ Index!Fly(a)
                    \/ Index!Build(a) \/ Index!Finish(a) \/ Index!BuildFails(a)
      PROVE  IndexInv'
    <2>1. UNCHANGED <<content, heard, links, bus, entries, epoch>>
        BY <1>2 DEF Index!Ask, Index!ReadEpoch, Index!Fly, Index!Build, Index!Finish, Index!BuildFails,
                    Index!database, Index!cache
    <2>2. ContentOK' /\ CacheType' /\ Index!NoStaleEntry'
        BY <2>1 DEF IndexInv, ContentOK, CacheType, Index!NoStaleEntry, Index!Cached
    <2>3. AsksOK'
        BY <1>2, RequestKeeps, EndKeeps
    <2> QED
        BY <2>2, <2>3 DEF IndexInv
<1>3. ASSUME NEW a \in Askers, Index!Warm(a) \/ Index!Put(a) PROVE IndexInv'
    <2>1. UNCHANGED <<content, heard, bus>>
        BY <1>3 DEF Index!Warm, Index!Put, Index!database
    <2>2. ContentOK'
        BY <2>1 DEF IndexInv, ContentOK
    <2> QED
        BY <1>3, <2>2, WarmKeeps, PutKeeps DEF IndexInv
<1> QED
    BY <1>1, <1>2, <1>3, ImportKeeps, PublishedKeeps, OtherKeeps DEF Index!Next, Index!Step

\* No index is kept, or put into the cache by a build that an import overtook, that
\* lacks rows of an import the cache was told of (put, InvalidateForVersion of
\* ontology/autocomplete/cache.go).
LEMMA NoStaleEntryHolds ==
    ASSUME Index!IndexCacheAssumption
    PROVE  Index!Init /\ [][Index!Next]_(Index!vars) => []Index!NoStaleEntry
<1>1. IndexInv => Index!NoStaleEntry
    BY DEF IndexInv
<1> QED
    BY <1>1, IndexInitOK, IndexNextOK, PTL

-----------------------------------------------------------------------------
(* What is answered.                                                       *)

\* What a request has in hand, unless it joined another's build, is as new as what
\* the cache had been told of when the request began.
AnswerOK(x, low) ==
    /\ \A v \in Versions : x.began[v] <= low[v]
    /\ x.pc = "wait" => x.joined
    /\ ~x.joined => Index!AtLeast(x.index, x.key, x.began)

AnswersOK == \A a \in Askers : AnswerOK(ask[a], heard)

\* Rows as new as the later of two states are as new as the earlier.
LEMMA Lower ==
    ASSUME NEW s \in Seq(IndexRows), NEW k \in SUBSET Versions, NEW low \in IndexRows, NEW high \in IndexRows,
           \A v \in Versions : low[v] <= high[v], Index!AtLeast(s, k, high)
    PROVE  Index!AtLeast(s, k, low)
<1> SUFFICES ASSUME NEW i \in DOMAIN s, NEW v \in k PROVE s[i][v] >= low[v]
    BY DEF Index!AtLeast
<1>1. s[i] \in IndexRows /\ v \in Versions
    OBVIOUS
<1>2. s[i][v] \in Nat /\ low[v] \in Nat /\ high[v] \in Nat /\ low[v] <= high[v]
    BY <1>1 DEF IndexRows
<1>3. s[i][v] >= high[v]
    BY DEF Index!AtLeast
<1> QED
    BY <1>2, <1>3

\* Changes: the cache is told of more, and no request moves.
LEMMA ToldMore ==
    ASSUME AsksOK, AnswersOK, heard \in IndexRows, heard' \in IndexRows,
           \A v \in Versions : heard[v] <= heard'[v], ask' = ask
    PROVE  AnswersOK'
<1> SUFFICES ASSUME NEW a \in Askers PROVE AnswerOK(ask[a], heard')
    BY DEF AnswersOK
<1>1. AnswerOK(ask[a], heard) /\ ask[a].began \in IndexRows
    BY DEF AnswersOK, AsksOK, AskRecord
<1>2. ASSUME NEW v \in Versions PROVE ask[a].began[v] <= heard'[v]
    <2>1. /\ ask[a].began[v] \in Nat /\ heard[v] \in Nat /\ heard'[v] \in Nat
          /\ ask[a].began[v] <= heard[v] /\ heard[v] <= heard'[v]
        BY <1>1 DEF AnswerOK, IndexRows
    <2> QED
        BY <2>1
<1> QED
    BY <1>1, <1>2 DEF AnswerOK

\* One request moves on.
LEMMA AnswerMoves ==
    ASSUME AsksOK, AnswersOK, heard' = heard, NEW a \in Askers,
           NEW STATE x, AnswerOK(x, heard), ask' = [ask EXCEPT ![a] = x]
    PROVE  AnswersOK'
BY DEF AnswersOK, AsksOK

\* The steps of a request on its own.
LEMMA RequestAnswers ==
    ASSUME Index!IndexCacheAssumption, IndexInv, AnswersOK, NEW a \in Askers,
           (\E p \in IndexProjects : Index!Ask(a, p)) \/ Index!Step(a) \/ Index!BuildFails(a)
    PROVE  AnswersOK'
<1>1. /\ AsksOK /\ ask[a] \in AskRecord /\ AskOK(ask[a], epoch, heard)
      /\ AnswerOK(ask[a], heard)
    BY DEF IndexInv, AsksOK, AnswersOK
<1>2. heard' = heard /\ heard \in IndexRows /\ content \in IndexRows
    BY DEF Index!Ask, Index!Step, Index!Warm, Index!ReadEpoch, Index!Fly, Index!Build, Index!Put, Index!Finish,
           Index!BuildFails, Index!database, IndexInv, ContentOK
<1>3. ask[a].key \in SUBSET Versions /\ ask[a].began \in IndexRows /\ ask[a].index \in Seq(IndexRows)
    BY <1>1 DEF AskRecord, Index!Keys, Index!IndexCacheAssumption
<1>4. ASSUME NEW p \in IndexProjects, Index!Ask(a, p) PROVE AnswersOK'
    <2> DEFINE x == [Index!Idle EXCEPT !.pc = "warm", !.project = p, !.key = links[p], !.began = heard]
    <2>1. ask' = [ask EXCEPT ![a] = x]
        BY <1>4 DEF Index!Ask
    <2>2. x.pc = "warm" /\ x.index = <<>> /\ x.began = heard
        BY DEF Index!Idle
    <2> HIDE DEF x
    <2>3. AnswerOK(x, heard)
        BY <1>2, <2>2 DEF AnswerOK, Index!AtLeast, IndexRows
    <2> QED
        BY <1>1, <1>2, <2>1, <2>3, AnswerMoves
<1>5. ASSUME NEW x \in AskRecord, ask' = [ask EXCEPT ![a] = x], x.began = ask[a].began,
             x.pc # "wait" \/ x.joined, x.joined \/ Index!AtLeast(x.index, x.key, x.began)
      PROVE  AnswersOK'
    <2>1. AnswerOK(x, heard)
        BY <1>1, <1>5 DEF AnswerOK
    <2> QED
        BY <1>1, <1>2, <1>5, <2>1, AnswerMoves
<1>6. CASE Index!Warm(a)
    <2> DEFINE k == ask[a].key
    <2>1. CASE Index!Cached(k) /\ ~entries[k].old
        <3>1. PICK pc \in {"idle", "finish"} :
                 ask' = [ask EXCEPT ![a] = [ask[a] EXCEPT !.index = entries[k].index, !.pc = pc]]
            BY <1>1, <1>6, <2>1 DEF Index!Warm, AsksOK
        <3>2. k \in Index!Keys /\ entries[k].index \in Seq(IndexRows) /\ Index!AtLeast(entries[k].index, k, heard)
            BY <1>1, <1>6, <2>1 DEF Index!Warm, AskOK, IndexInv, CacheType, IndexEntry, Index!NoStaleEntry
        <3>3. Index!AtLeast(entries[k].index, k, ask[a].began)
            BY <1>1, <1>2, <1>3, <3>2, Lower DEF AnswerOK
        <3> DEFINE x == [ask[a] EXCEPT !.index = entries[k].index, !.pc = pc]
        <3>4. x \in AskRecord
            BY <1>1, <3>2 DEF AskRecord, AskPCs
        <3>5. /\ x.pc = pc /\ x.key = k /\ x.began = ask[a].began
              /\ x.index = entries[k].index
            BY <1>1 DEF AskRecord
        <3>6. ask' = [ask EXCEPT ![a] = x]
            BY <3>1
        <3> HIDE DEF x
        <3> QED
            BY <1>5, <3>3, <3>4, <3>5, <3>6
    <2>2. CASE ~(Index!Cached(k) /\ ~entries[k].old)
        <3>1. PICK pc \in {"epoch", "build"} : ask' = [ask EXCEPT ![a] = [ask[a] EXCEPT !.pc = pc]]
            BY <1>1, <1>6, <2>2 DEF Index!Warm, AsksOK
        <3> DEFINE x == [ask[a] EXCEPT !.pc = pc]
        <3>2. x \in AskRecord
            BY <1>1 DEF AskRecord, AskPCs
        <3>3. /\ x.pc = pc /\ x.key = k /\ x.began = ask[a].began
              /\ x.index = ask[a].index /\ x.joined = ask[a].joined
            BY <1>1 DEF AskRecord
        <3>4. ask' = [ask EXCEPT ![a] = x]
            BY <3>1
        <3> HIDE DEF x
        <3> QED
            BY <1>1, <1>5, <3>2, <3>3, <3>4 DEF AnswerOK
    <2> QED
        BY <2>1, <2>2
<1>7. CASE Index!ReadEpoch(a) \/ Index!Put(a)
    <2>1. PICK pc \in {"fly", "finish"}, n \in Nat :
             ask' = [ask EXCEPT ![a] = [ask[a] EXCEPT !.pc = pc, !.epoch = n]]
        <3>1. epoch \in Nat /\ ask[a].epoch \in Nat /\ ask[a] = [ask[a] EXCEPT !.epoch = ask[a].epoch]
            BY <1>1 DEF IndexInv, CacheType, AskRecord
        <3>2. CASE Index!ReadEpoch(a)
            BY <1>1, <3>1, <3>2 DEF Index!ReadEpoch, AsksOK
        <3>3. CASE Index!Put(a)
            <4>1. ask' = [ask EXCEPT ![a] = [ask[a] EXCEPT !.pc = "finish"]]
                BY <1>1, <3>3 DEF Index!Put, AsksOK
            <4>2. [ask[a] EXCEPT !.pc = "finish"] = [ask[a] EXCEPT !.pc = "finish", !.epoch = ask[a].epoch]
                BY <1>1 DEF AskRecord
            <4> QED
                BY <3>1, <4>1, <4>2
        <3> QED
            BY <1>7, <3>2, <3>3
    <2> DEFINE x == [ask[a] EXCEPT !.pc = pc, !.epoch = n]
    <2>2. x \in AskRecord
        BY <1>1 DEF AskRecord, AskPCs
    <2>3. /\ x.pc = pc /\ x.key = ask[a].key /\ x.began = ask[a].began
          /\ x.index = ask[a].index /\ x.joined = ask[a].joined
        BY <1>1 DEF AskRecord
    <2>4. ask' = [ask EXCEPT ![a] = x]
        BY <2>1
    <2> HIDE DEF x
    <2> QED
        BY <1>1, <1>5, <2>2, <2>3, <2>4 DEF AnswerOK
<1>8. CASE Index!Fly(a)
    <2>1. PICK pc \in {"warmAgain", "wait"}, j \in BOOLEAN :
             /\ ask' = [ask EXCEPT ![a] = [ask[a] EXCEPT !.pc = pc, !.joined = j]]
             /\ j \/ (pc = "warmAgain" /\ j = ask[a].joined)
        <3>1. ask[a].joined \in BOOLEAN
              /\ [ask[a] EXCEPT !.pc = "warmAgain", !.joined = ask[a].joined] = [ask[a] EXCEPT !.pc = "warmAgain"]
            BY <1>1 DEF AskRecord
        <3>2. \/ ask' = [ask EXCEPT ![a] = [ask[a] EXCEPT !.pc = "warmAgain"]]
              \/ ask' = [ask EXCEPT ![a] = [ask[a] EXCEPT !.pc = "wait", !.joined = TRUE]]
            BY <1>1, <1>8 DEF Index!Fly, AsksOK
        <3> QED
            BY <3>1, <3>2
    <2> DEFINE x == [ask[a] EXCEPT !.pc = pc, !.joined = j]
    <2>2. x \in AskRecord
        BY <1>1 DEF AskRecord, AskPCs
    <2>3. /\ x.pc = pc /\ x.key = ask[a].key /\ x.began = ask[a].began
          /\ x.index = ask[a].index /\ x.joined = j
        BY <1>1 DEF AskRecord
    <2>4. ask' = [ask EXCEPT ![a] = x]
        BY <2>1
    <2> HIDE DEF x
    <2> QED
        BY <1>1, <1>5, <2>1, <2>2, <2>3, <2>4 DEF AnswerOK
<1>9. CASE Index!Build(a)
    <2>1. PICK pc \in {"build", "put"} :
             ask' = [ask EXCEPT ![a] = [ask[a] EXCEPT !.index = Append(ask[a].index, content), !.pc = pc]]
        BY <1>1, <1>9 DEF Index!Build, AsksOK
    <2> DEFINE x == [ask[a] EXCEPT !.index = Append(ask[a].index, content), !.pc = pc]
    <2>2. Append(ask[a].index, content) \in Seq(IndexRows)
        BY <1>2, <1>3
    <2>3. x \in AskRecord
        BY <1>1, <2>2 DEF AskRecord, AskPCs
    <2>4. /\ x.pc = pc /\ x.key = ask[a].key /\ x.began = ask[a].began
          /\ x.index = Append(ask[a].index, content) /\ x.joined = ask[a].joined
        BY <1>1 DEF AskRecord
    <2>5. ask' = [ask EXCEPT ![a] = x]
        BY <2>1
    <2> HIDE DEF x
    <2>6. ASSUME NEW v \in Versions PROVE ask[a].began[v] <= content[v]
        <3>1. ask[a].began[v] \in Nat /\ heard[v] \in Nat /\ content[v] \in Nat
            BY <1>2, <1>3 DEF IndexRows
        <3>2. ask[a].began[v] <= heard[v] /\ heard[v] <= content[v]
            BY <1>1 DEF AnswerOK, IndexInv, ContentOK
        <3> QED
            BY <3>1, <3>2
    <2>7. ~ask[a].joined => Index!AtLeast(x.index, x.key, x.began)
        BY <1>1, <1>2, <1>3, <2>4, <2>6, OneMore DEF AnswerOK
    <2>8. x.joined \/ Index!AtLeast(x.index, x.key, x.began)
        BY <2>4, <2>7
    <2> QED
        BY <1>5, <2>3, <2>4, <2>5, <2>8
<1>10. CASE Index!Finish(a) \/ Index!BuildFails(a)
    <2>1. PICK index \in {ask[a].index, <<>>} :
             ask' = [b \in Askers |-> IF b \in Index!FlightOf(a) THEN [ask[b] EXCEPT !.pc = "idle", !.index = index]
                                      ELSE ask[b]]
        BY <1>10 DEF Index!Finish, Index!BuildFails
    <2>2. ASSUME NEW b \in Askers PROVE AnswerOK(ask'[b], heard)
        <3>1. ask[b] \in AskRecord /\ AnswerOK(ask[b], heard)
            BY <1>1 DEF AsksOK, AnswersOK
        <3>2. CASE b \notin Index!FlightOf(a)
            BY <2>1, <3>1, <3>2
        <3>3. CASE b \in Index!FlightOf(a)
            <4> DEFINE x == [ask[b] EXCEPT !.pc = "idle", !.index = index]
            <4>1. /\ x.pc = "idle" /\ x.key = ask[b].key /\ x.began = ask[b].began
                  /\ x.index = index /\ x.joined = ask[b].joined
                BY <3>1 DEF AskRecord
            <4>2. ask'[b] = x
                BY <2>1, <3>3
            <4> HIDE DEF x
            <4>3. b = a \/ ask[b].joined
                BY <3>1, <3>3 DEF Index!FlightOf, AnswerOK
            <4>4. ~ask[b].joined => Index!AtLeast(index, ask[b].key, ask[b].began)
                BY <3>1, <4>3 DEF AnswerOK, Index!AtLeast
            <4> QED
                BY <3>1, <4>1, <4>2, <4>4 DEF AnswerOK
        <3> QED
            BY <3>2, <3>3
    <2> QED
        BY <1>2, <2>2 DEF AnswersOK
<1> QED
    BY <1>4, <1>6, <1>7, <1>8, <1>9, <1>10 DEF Index!Step

\* A request that begins after the cache was told of an import never sees rows
\* from before it, unless it joins a build under way (For, warm and
\* buildOnce of ontology/autocomplete/cache.go): whether the index is a hit, or
\* built by the request itself and overtaken by any number of imports.
LEMMA FreshAnswers ==
    ASSUME Index!IndexCacheAssumption
    PROVE  Index!Init /\ [][Index!Next]_(Index!vars) => []Index!AnswersAreFresh
<1>1. Index!Init => AnswersOK
    <2> SUFFICES ASSUME Index!Init, NEW a \in Askers PROVE AnswerOK(ask[a], heard)
        BY DEF AnswersOK
    <2>1. ask[a] = Index!Idle /\ heard = [v \in Versions |-> 0]
        BY DEF Index!Init
    <2>2. Index!Idle.pc = "idle" /\ Index!Idle.index = <<>> /\ Index!Idle.began = [v \in Versions |-> 0]
        BY DEF Index!Idle
    <2> QED
        BY <2>1, <2>2 DEF AnswerOK, Index!AtLeast
<1>2. IndexInv /\ AnswersOK /\ [Index!Next]_(Index!vars) => AnswersOK'
    <2> SUFFICES ASSUME IndexInv, AnswersOK, [Index!Next]_(Index!vars) PROVE AnswersOK'
        OBVIOUS
    <2>1. CASE UNCHANGED <<ask, heard>>
        BY <2>1 DEF AnswersOK
    <2>2. ASSUME NEW a \in Askers, (\E p \in IndexProjects : Index!Ask(a, p)) \/ Index!Step(a) \/ Index!BuildFails(a)
          PROVE  AnswersOK'
        BY <2>2, RequestAnswers
    <2>3. ASSUME NEW e \in bus, Index!Published(e) PROVE AnswersOK'
        <3>1. heard' = [heard EXCEPT ![e.version] = IF @ > e.n THEN @ ELSE e.n] /\ ask' = ask
            BY <2>3 DEF Index!Published
        <3>2. heard \in IndexRows /\ e.n \in Nat
            BY <2>3 DEF Index!Published, IndexInv, ContentOK
        <3>3. heard' \in IndexRows /\ \A v \in Versions : heard[v] <= heard'[v]
            <4>1. heard' \in IndexRows
                BY <3>1, <3>2 DEF IndexRows
            <4>2. ASSUME NEW v \in Versions PROVE heard[v] <= heard'[v]
                <5>1. heard[v] \in Nat
                    BY <3>2 DEF IndexRows
                <5>2. heard'[v] = heard[v] \/ (heard'[v] = e.n /\ ~(heard[v] > e.n))
                    BY <3>1, <3>2 DEF IndexRows
                <5> QED
                    BY <3>2, <5>1, <5>2
            <4> QED
                BY <4>1, <4>2
        <3> QED
            BY <3>1, <3>2, <3>3, ToldMore DEF IndexInv
    <2> QED
        BY <2>1, <2>2, <2>3
        DEF Index!Next, Index!Import, Index!ImportElsewhere, Index!PublishedLinks, Index!Relink, Index!Drop,
            Index!Expire, Index!database, Index!vars
<1>3. AnswersOK => Index!AnswersAreFresh
    BY DEF AnswersOK, AnswerOK, Index!AnswersAreFresh
<1> QED
    BY <1>1, <1>2, <1>3, IndexInitOK, IndexNextOK, PTL

-----------------------------------------------------------------------------
(* How much is kept.                                                       *)

\* What is dropped, or was there before, takes no room.
LEMMA KeepsRoom ==
    ASSUME AtMost(Index!CachedKeys, SoftCap), SoftCap \in Nat,
           \A k \in Index!Keys : entries'[k].index # <<>> => entries[k].index # <<>>
    PROVE  AtMost(Index!CachedKeys, SoftCap)'
<1>1. Index!CachedKeys' \subseteq Index!CachedKeys
    BY DEF Index!CachedKeys, Index!Cached
<1>2. AtMost(Index!CachedKeys', SoftCap)
    BY <1>1, Fewer
<1> QED
    BY <1>2 DEF AtMost

\* evictLocked: an index comes, and if there is no room one goes.
LEMMA InsertKeepsCap ==
    ASSUME AtMost(Index!CachedKeys, SoftCap), SoftCap \in Nat, NEW a \in Askers, Index!Insert(a)
    PROVE  AtMost(Index!CachedKeys, SoftCap)'
<1> DEFINE k == ask[a].key
           kept == Index!CachedKeys
           held == kept \cup {k}
<1>1. PICK out \in SUBSET held :
        /\ \/ out = {} /\ Cardinality(held) <= SoftCap
           \/ \E x \in held : out = {x}
        /\ entries' = [x \in Index!Keys |-> IF x \in out THEN Index!NoEntry
                                            ELSE IF x = k THEN Index!NewEntry(a) ELSE entries[x]]
    <2>1. Index!Cardinality(held) = Cardinality(held)
        BY Counting
    <2>2. \E out \in SUBSET held :
            /\ IF Index!Cardinality(held) <= SoftCap THEN out = {}
               ELSE \E x \in held : Index!Touched(k)[x] = {} /\ out = {x}
            /\ entries' = [x \in Index!Keys |-> IF x \in out THEN Index!NoEntry
                                                ELSE IF x = k THEN Index!NewEntry(a) ELSE entries[x]]
        BY Zenon DEF Index!Insert
    <2> HIDE DEF held
    <2> QED
        BY <2>1, <2>2
<1>2. Index!CachedKeys' \subseteq held \ out
    BY <1>1 DEF Index!CachedKeys, Index!Cached, Index!NoEntry
<1>3. AtMost(held \ out, SoftCap)
    <2>1. CASE out = {} /\ Cardinality(held) <= SoftCap
        <3>1. held \ out = held
            BY <2>1
        <3>2. IsFiniteSet(held)
            BY FS_AddElement DEF AtMost
        <3> QED
            BY <2>1, <3>1, <3>2 DEF AtMost
    <2>2. ASSUME NEW x \in held, out = {x} PROVE AtMost(held \ out, SoftCap)
        BY <2>2, AddAndDrop
    <2> QED
        BY <1>1, <2>1, <2>2
<1>4. AtMost(Index!CachedKeys', SoftCap)
    BY <1>2, <1>3, Fewer
<1> QED
    BY <1>4 DEF AtMost

\* The cache never holds more than its cap (put, evictLocked of
\* ontology/autocomplete/cache.go), whichever keys are asked for and whatever is
\* dropped in between.
LEMMA CapKeptHolds ==
    ASSUME Index!IndexCacheAssumption
    PROVE  Index!Init /\ [][Index!Next]_(Index!vars) => []Index!CapKept
<1> DEFINE Small == AtMost(Index!CachedKeys, SoftCap)
<1>1. SoftCap \in Nat
    BY DEF Index!IndexCacheAssumption
<1>2. Index!Init => Small
    <2> SUFFICES ASSUME Index!Init PROVE Small
        OBVIOUS
    <2>1. Index!CachedKeys = {}
        BY DEF Index!Init, Index!CachedKeys, Index!Cached, Index!NoEntry
    <2> QED
        BY <1>1, <2>1, FS_EmptySet DEF AtMost
<1>3. IndexInv /\ Small /\ [Index!Next]_(Index!vars) => Small'
    <2> SUFFICES ASSUME IndexInv, Small, [Index!Next]_(Index!vars) PROVE Small'
        OBVIOUS
    <2>1. entries \in [Index!Keys -> IndexEntry]
        BY DEF IndexInv, CacheType
    <2>2. CASE entries' = entries
        BY <1>1, <2>2, KeepsRoom
    <2>3. ASSUME NEW ks, Index!Forget(ks) PROVE Small'
        <3>1. \A k \in Index!Keys : entries'[k] = IF k \in ks THEN Index!NoEntry ELSE entries[k]
            BY <2>3 DEF Index!Forget
        <3>2. \A k \in Index!Keys : entries'[k].index # <<>> => entries[k].index # <<>>
            BY <3>1 DEF Index!NoEntry
        <3> QED
            BY <1>1, <3>2, KeepsRoom
    <2>4. ASSUME NEW a \in Askers, Index!Warm(a) PROVE Small'
        <3>1. CASE Index!Cached(ask[a].key) /\ ~entries[ask[a].key].old
            <4> DEFINE y == [entries[ask[a].key] EXCEPT !.by = entries[ask[a].key].by \cup {ask[a].project}]
            <4>1. ask[a].key \in Index!Keys
                BY <2>4 DEF Index!Warm, IndexInv, AsksOK, AskOK
            <4>2. entries' = [entries EXCEPT ![ask[a].key] = y]
                BY <2>1, <2>4, <3>1, <4>1 DEF Index!Warm
            <4>3. y.index = entries[ask[a].key].index
                BY <2>1, <4>1 DEF IndexEntry
            <4> HIDE DEF y
            <4>4. \A k \in Index!Keys : entries'[k].index = entries[k].index
                BY <2>1, <4>2, <4>3
            <4> QED
                BY <1>1, <4>4, KeepsRoom
        <3>2. CASE ~(Index!Cached(ask[a].key) /\ ~entries[ask[a].key].old)
            <4>1. Index!Forget({ask[a].key})
                BY <2>4, <3>2 DEF Index!Warm
            <4> QED
                BY <2>3, <4>1
        <3> QED
            BY <3>1, <3>2
    <2>5. ASSUME NEW a \in Askers, Index!Put(a) PROVE Small'
        <3>1. CASE epoch = ask[a].epoch
            BY <1>1, <2>5, <3>1, InsertKeepsCap DEF Index!Put
        <3>2. CASE epoch # ask[a].epoch
            BY <2>2, <2>5, <3>2 DEF Index!Put
        <3> QED
            BY <3>1, <3>2
    <2>6. ASSUME NEW x \in Index!Keys, Index!Expire(x) PROVE Small'
        <3>1. entries' = [entries EXCEPT ![x] = [entries[x] EXCEPT !.old = TRUE]]
            BY <2>1, <2>6 DEF Index!Expire
        <3>2. [entries[x] EXCEPT !.old = TRUE].index = entries[x].index
            BY <2>1 DEF IndexEntry
        <3>3. \A k \in Index!Keys : entries'[k].index = entries[k].index
            BY <2>1, <3>1, <3>2
        <3> QED
            BY <1>1, <3>3, KeepsRoom
    <2> HIDE DEF Small
    <2>7. CASE UNCHANGED Index!vars
        BY <2>2, <2>7 DEF Index!vars
    <2>8. ASSUME NEW a \in Askers,
                 (\E p \in IndexProjects : Index!Ask(a, p)) \/ Index!Step(a) \/ Index!BuildFails(a)
          PROVE  Small'
        BY <2>2, <2>4, <2>5, <2>8
        DEF Index!Ask, Index!Step, Index!ReadEpoch, Index!Fly, Index!Build, Index!Finish, Index!BuildFails,
            Index!cache
    <2>9. ASSUME NEW v \in Versions, Index!Import(v) \/ Index!ImportElsewhere(v) PROVE Small'
        BY <2>2, <2>9 DEF Index!Import, Index!ImportElsewhere, Index!cache
    <2>10. ASSUME NEW e \in bus, Index!Published(e) \/ Index!PublishedLinks(e) PROVE Small'
        BY <2>3, <2>10 DEF Index!Published, Index!PublishedLinks
    <2>11. ASSUME NEW p \in IndexProjects, NEW l \in Links, Index!Relink(p, l) PROVE Small'
        BY <2>2, <2>11 DEF Index!Relink, Index!cache
    <2>12. CASE Index!Drop
        BY <2>3, <2>12 DEF Index!Drop
    <2> QED
        BY <2>6, <2>7, <2>8, <2>9, <2>10, <2>11, <2>12 DEF Index!Next
<1>4. Small => Index!CapKept
    BY Counting DEF AtMost, Index!CapKept
<1> HIDE DEF Small
<1> QED
    BY <1>2, <1>3, <1>4, IndexInitOK, IndexNextOK, PTL

-----------------------------------------------------------------------------
(* The pool of connections.                                                *)

PoolRecord == [pc : {"idle", "connect", "lock", "begin", "commit", "busy", "cut", "done"}, left : Int]
Held == {s \in Saves : save[s].pc \in Pool!Holding}
Writing == {s \in Saves : save[s].pc = "commit"}

\* A save holds one connection for its locks and one for its transaction.
Connections(pc) == IF pc = "commit" THEN 2 ELSE IF pc \in Pool!Holding THEN 1 ELSE 0

PoolInv ==
    /\ free \in Int
    /\ save \in [Saves -> PoolRecord]
    /\ IsFiniteSet(Held) /\ IsFiniteSet(Writing)
    /\ free + Cardinality(Held) + Cardinality(Writing) = PoolSize

\* One element more or less, or the same set.
LEMMA Flip ==
    ASSUME NEW S, IsFiniteSet(S), NEW s, NEW T, T = S \cup {s} \/ T = S \ {s}
    PROVE  /\ IsFiniteSet(T)
           /\ Cardinality(T) \in Int /\ Cardinality(S) \in Int
           /\ Cardinality(T) = Cardinality(S) - (IF s \in S THEN 1 ELSE 0) + (IF s \in T THEN 1 ELSE 0)
<1>1. Cardinality(S) \in Nat
    BY FS_CardinalityType
<1>2. CASE T = S \cup {s}
    <2>1. IsFiniteSet(S \cup {s}) /\
          Cardinality(S \cup {s}) = IF s \in S THEN Cardinality(S) ELSE Cardinality(S) + 1
        BY FS_AddElement
    <2>2. s \in T
        BY <1>2
    <2> QED
        BY <1>1, <1>2, <2>1, <2>2
<1>3. CASE T = S \ {s}
    <2>1. IsFiniteSet(S \ {s}) /\
          Cardinality(S \ {s}) = IF s \in S THEN Cardinality(S) - 1 ELSE Cardinality(S)
        BY FS_RemoveElement
    <2>2. s \notin T
        BY <1>3
    <2> QED
        BY <1>1, <1>3, <2>1, <2>2
<1> QED
    BY <1>2, <1>3

\* What one save takes and gives back is all that changes.
LEMMA SaveMoves ==
    ASSUME PoolInv, NEW s \in Saves, NEW x \in PoolRecord,
           save' = [save EXCEPT ![s] = x], free' \in Int,
           free' + Connections(x.pc) = free + Connections(save[s].pc)
    PROVE  PoolInv'
<1>1. save' \in [Saves -> PoolRecord] /\ save[s] \in PoolRecord
    BY DEF PoolInv
<1>2. \A t \in Saves : save'[t] = IF t = s THEN x ELSE save[t]
    BY DEF PoolInv
<1>3. /\ Held' = Held \cup {s} \/ Held' = Held \ {s}
      /\ s \in Held <=> save[s].pc \in Pool!Holding
      /\ s \in Held' <=> x.pc \in Pool!Holding
    BY <1>2 DEF Held
<1>4. /\ Writing' = Writing \cup {s} \/ Writing' = Writing \ {s}
      /\ s \in Writing <=> save[s].pc = "commit"
      /\ s \in Writing' <=> x.pc = "commit"
    BY <1>2 DEF Writing
<1> DEFINE H == Held
           W == Writing
<1>5. PICK H1, W1 : H1 = Held' /\ W1 = Writing'
    OBVIOUS
<1>6. /\ IsFiniteSet(H1) /\ Cardinality(H1) \in Int /\ Cardinality(H) \in Int
      /\ Cardinality(H1) = Cardinality(H) - (IF s \in H THEN 1 ELSE 0) + (IF s \in H1 THEN 1 ELSE 0)
    <2>1. IsFiniteSet(H) /\ (H1 = H \cup {s} \/ H1 = H \ {s})
        BY <1>3, <1>5 DEF PoolInv
    <2> HIDE DEF H
    <2> QED
        BY <2>1, Flip
<1>7. /\ IsFiniteSet(W1) /\ Cardinality(W1) \in Int /\ Cardinality(W) \in Int
      /\ Cardinality(W1) = Cardinality(W) - (IF s \in W THEN 1 ELSE 0) + (IF s \in W1 THEN 1 ELSE 0)
    <2>1. IsFiniteSet(W) /\ (W1 = W \cup {s} \/ W1 = W \ {s})
        BY <1>4, <1>5 DEF PoolInv
    <2> HIDE DEF W
    <2> QED
        BY <2>1, Flip
<1>8. /\ (IF s \in H THEN 1 ELSE 0) + (IF s \in W THEN 1 ELSE 0) = Connections(save[s].pc)
      /\ (IF s \in H1 THEN 1 ELSE 0) + (IF s \in W1 THEN 1 ELSE 0) = Connections(x.pc)
    BY <1>3, <1>4, <1>5 DEF Connections, Pool!Holding
<1>9. Connections(save[s].pc) \in Int /\ Connections(x.pc) \in Int
    BY DEF Connections
<1>10. free' + Cardinality(H1) + Cardinality(W1) = PoolSize
    <2>1. free \in Int /\ free + Cardinality(H) + Cardinality(W) = PoolSize
        BY DEF PoolInv
    <2> DEFINE hs == IF s \in H THEN 1 ELSE 0
               hs1 == IF s \in H1 THEN 1 ELSE 0
               ws == IF s \in W THEN 1 ELSE 0
               ws1 == IF s \in W1 THEN 1 ELSE 0
    <2>2. hs \in Int /\ hs1 \in Int /\ ws \in Int /\ ws1 \in Int
        OBVIOUS
    <2>3. /\ Cardinality(H1) = Cardinality(H) - hs + hs1
          /\ Cardinality(W1) = Cardinality(W) - ws + ws1
          /\ hs + ws = Connections(save[s].pc) /\ hs1 + ws1 = Connections(x.pc)
        BY <1>6, <1>7, <1>8
    <2> HIDE DEF H, W, hs, hs1, ws, ws1
    <2> QED
        BY <1>6, <1>7, <2>1, <2>2, <2>3
<1> QED
    BY <1>1, <1>5, <1>6, <1>7, <1>10 DEF PoolInv

\* Every connection that is not in the pool belongs to a save that gives it back
\* (WithAdvisoryLock and the transactions of override/store_postgres.go), however
\* many saves there are and wherever a save ends.
LEMMA NoConnectionLeaksHolds ==
    ASSUME Pool!SavePoolAssumption
    PROVE  Pool!Init /\ [][Pool!Next]_(Pool!vars) => []Pool!NoConnectionLeaks
<1>1. Pool!Init => PoolInv
    <2> SUFFICES ASSUME Pool!Init PROVE PoolInv
        OBVIOUS
    <2>1. Held = {} /\ Writing = {}
        BY DEF Pool!Init, Held, Writing, Pool!Holding
    <2>2. IsFiniteSet(Held) /\ IsFiniteSet(Writing) /\ Cardinality(Held) = 0 /\ Cardinality(Writing) = 0
        BY <2>1, FS_EmptySet
    <2>3. free = PoolSize /\ PoolSize \in Int /\ Transactions \in Int
        BY DEF Pool!Init, Pool!SavePoolAssumption
    <2>4. save \in [Saves -> PoolRecord]
        BY <2>3 DEF Pool!Init, PoolRecord
    <2> QED
        BY <2>2, <2>3, <2>4 DEF PoolInv
<1>2. PoolInv /\ [Pool!Next]_(Pool!vars) => PoolInv'
    <2> SUFFICES ASSUME PoolInv, [Pool!Next]_(Pool!vars) PROVE PoolInv'
        OBVIOUS
    <2>1. CASE UNCHANGED Pool!vars
        BY <2>1 DEF Pool!vars, PoolInv, Held, Writing
    <2>2. ASSUME NEW s \in Saves, NEW pc \in {"connect", "lock", "begin", "commit", "busy", "cut"},
                 Pool!Goto(s, pc), free' \in Int,
                 free' + Connections(pc) = free + Connections(save[s].pc)
          PROVE  PoolInv'
        <3> DEFINE x == [save[s] EXCEPT !.pc = pc]
        <3>1. save[s] \in PoolRecord /\ save' = [save EXCEPT ![s] = x]
            BY <2>2 DEF PoolInv, Pool!Goto
        <3>2. x \in PoolRecord /\ x.pc = pc
            BY <3>1 DEF PoolRecord
        <3> HIDE DEF x
        <3> QED
            BY <2>2, <3>1, <3>2, SaveMoves
    <2>3. free \in Int
        BY DEF PoolInv
    <2>4. ASSUME NEW s \in Saves, Pool!Commit(s) PROVE PoolInv'
        <3> DEFINE pc == IF save[s].left = 1 THEN "done" ELSE "begin"
                   x == [save[s] EXCEPT !.left = save[s].left - 1, !.pc = pc]
        <3>1. save[s] \in PoolRecord /\ save' = [save EXCEPT ![s] = x]
            BY <2>4 DEF PoolInv, Pool!Commit
        <3>2. pc \in {"done", "begin"}
            OBVIOUS
        <3>3. free' + Connections(pc) = free + 2 /\ free' \in Int /\ save[s].pc = "commit"
            <4>1. free' = free + (IF save[s].left = 1 THEN 2 ELSE 1) /\ save[s].pc = "commit"
                BY <2>4 DEF Pool!Commit
            <4>2. CASE save[s].left = 1
                <5>1. pc = "done" /\ free' = free + 2
                    BY <4>1, <4>2
                <5> QED
                    BY <2>3, <4>1, <5>1 DEF Connections, Pool!Holding
            <4>3. CASE save[s].left # 1
                <5>1. pc = "begin" /\ free' = free + 1
                    BY <4>1, <4>3
                <5> HIDE DEF pc
                <5> QED
                    BY <2>3, <4>1, <5>1 DEF Connections, Pool!Holding
            <4> QED
                BY <4>2, <4>3
        <3> HIDE DEF pc
        <3>4. x \in PoolRecord /\ x.pc = pc
            <4>1. save[s].left - 1 \in Int /\ save[s] \in PoolRecord
                BY <3>1 DEF PoolRecord
            <4> QED
                BY <3>2, <4>1 DEF PoolRecord
        <3> HIDE DEF x
        <3> QED
            BY <3>1, <3>3, <3>4, SaveMoves DEF Connections
    <2>5. ASSUME NEW s \in Saves, Pool!Arrive(s) PROVE PoolInv'
        BY <2>2, <2>3, <2>5 DEF Pool!Arrive, Connections, Pool!Holding
    <2>6. ASSUME NEW s \in Saves, Pool!Connect(s) PROVE PoolInv'
        BY <2>2, <2>3, <2>6 DEF Pool!Connect, Connections, Pool!Holding
    <2>7. ASSUME NEW s \in Saves, Pool!Lock(s) PROVE PoolInv'
        BY <2>2, <2>3, <2>7 DEF Pool!Lock, Connections, Pool!Holding
    <2>8. ASSUME NEW s \in Saves, Pool!LockBusy(s) PROVE PoolInv'
        BY <2>2, <2>3, <2>8 DEF Pool!LockBusy, Connections, Pool!Holding
    <2>9. ASSUME NEW s \in Saves, Pool!Begin(s) PROVE PoolInv'
        BY <2>2, <2>3, <2>9 DEF Pool!Begin, Connections, Pool!Holding
    <2>10. ASSUME NEW s \in Saves, Pool!Timeout(s) PROVE PoolInv'
        BY <2>2, <2>3, <2>10 DEF Pool!Timeout, Connections, Pool!Holding
    <2> QED
        BY <2>1, <2>4, <2>5, <2>6, <2>7, <2>8, <2>9, <2>10 DEF Pool!Next, Pool!Step
<1>3. PoolInv => Pool!NoConnectionLeaks
    BY Counting DEF PoolInv, Pool!NoConnectionLeaks, Held, Writing
<1> QED
    BY <1>1, <1>2, <1>3, PTL

-----------------------------------------------------------------------------
(* Presence of editors.                                                    *)

Sessions == [Sids -> Int]
PostRecord == [pc : {"idle", "beat", "others", "left"}, entity : Entities \cup {None},
               actor : Actors \cup {None}, sid : Sids \cup {NoSid, None}, now : Nat]
PostOK(p, at) ==
    /\ p \in PostRecord /\ p.now <= at
    /\ p.pc # "idle" => p.entity \in Entities /\ p.actor \in Actors
    /\ p.pc = "beat" => p.sid \in Sids

\* The latest beat is still in the registry, or past its time; at is the clock.
Remembered(sessions, beat, at) ==
    /\ beat.sid \in Sids \cup {None}
    /\ beat.sid # None => /\ beat.seen \in Nat
                          /\ sessions[beat.sid] = beat.seen \/ at - beat.seen > Ttl

ActorOK(sessions, beat, at) ==
    /\ sessions \in Sessions
    /\ AtMost(Editors!Open(sessions), Cap)
    /\ Remembered(sessions, beat, at)

PresenceInv ==
    /\ now \in Nat
    /\ DOMAIN byEntry = Entities /\ \A e \in Entities : DOMAIN byEntry[e] = Actors
    /\ DOMAIN last = Entities /\ \A e \in Entities : DOMAIN last[e] = Actors
    /\ DOMAIN post = Posts /\ \A r \in Posts : PostOK(post[r], now)
    /\ \A e \in Entities, a \in Actors : ActorOK(byEntry[e][a], last[e][a], now)

LEMMA PresenceInitOK == Editors!PresenceAssumption /\ Editors!Init => PresenceInv
<1> SUFFICES ASSUME Editors!PresenceAssumption, Editors!Init PROVE PresenceInv
    OBVIOUS
<1>1. Editors!Ready \in PostRecord /\ Editors!Ready.pc = "idle" /\ Editors!Ready.now = 0
    BY DEF Editors!Ready, PostRecord
<1>2. ASSUME NEW e \in Entities, NEW a \in Actors PROVE ActorOK(byEntry[e][a], last[e][a], now)
    <2>1. byEntry[e][a] = [s \in Sids |-> -1]
        BY DEF Editors!Init, Editors!Closed
    <2>2. Editors!Open(byEntry[e][a]) = {}
        BY <2>1 DEF Editors!Open, Editors!Closed
    <2>3. AtMost(Editors!Open(byEntry[e][a]), Cap)
        BY <2>2, FS_EmptySet DEF AtMost, Editors!PresenceAssumption
    <2>4. last[e][a].sid = None
        BY DEF Editors!Init
    <2>5. byEntry[e][a] \in Sessions
        BY <2>1 DEF Sessions
    <2> QED
        BY <2>3, <2>4, <2>5 DEF ActorOK, Remembered
<1>3. \A r \in Posts : PostOK(post[r], now)
    BY <1>1 DEF Editors!Init, PostOK
<1> QED
    BY <1>2, <1>3 DEF Editors!Init, PresenceInv

\* Time passes, or a request is at another step.
LEMMA PostMoves ==
    ASSUME PresenceInv, NEW r \in Posts, NEW x, PostOK(x, now),
           post' = [post EXCEPT ![r] = x], UNCHANGED <<now, byEntry, last>>
    PROVE  PresenceInv'
BY DEF PresenceInv

LEMMA Ticks ==
    ASSUME PresenceInv, Editors!PresenceAssumption, Editors!Tick
    PROVE  PresenceInv'
<1>1. now' = now + 1 /\ UNCHANGED <<byEntry, post, last>> /\ now \in Nat
    BY DEF Editors!Tick, PresenceInv
<1>2. ASSUME NEW r \in Posts PROVE PostOK(post[r], now')
    BY <1>1 DEF PresenceInv, PostOK, PostRecord
<1>3. ASSUME NEW e \in Entities, NEW a \in Actors PROVE ActorOK(byEntry[e][a], last[e][a], now')
    <2>1. ActorOK(byEntry[e][a], last[e][a], now) /\ Ttl \in Nat
        BY DEF PresenceInv, Editors!PresenceAssumption
    <2> QED
        BY <1>1, <2>1 DEF ActorOK, Remembered
<1> QED
    BY <1>1, <1>2, <1>3 DEF PresenceInv

\* Beat: what the actor has afterwards, and that it is remembered.
LEMMA BeatSessions ==
    ASSUME PresenceInv, Editors!PresenceAssumption, NEW r \in Posts, Editors!Beat(r)
    PROVE  \E sessions \in Sessions :
             /\ Editors!Applied(r, sessions)
             /\ AtMost(Editors!Open(sessions), Cap)
             /\ sessions[post[r].sid] = post[r].now
             /\ LET before == byEntry[post[r].entity][post[r].actor] IN
                  NoSid \notin Editors!Open(before) =>
                    \A d \in Editors!Open(before) \ Editors!Open(sessions), k \in Editors!Open(before) :
                      before[d] <= before[k]
             /\ LET before == byEntry[post[r].entity][post[r].actor]
                    latest == last[post[r].entity][post[r].actor]
                IN  Editors!Late(post[r], before, latest) /\ latest.sid \in Sids
                    /\ latest.seen \in Nat /\ before[latest.sid] = latest.seen =>
                      sessions[latest.sid] = latest.seen
<1> DEFINE before == byEntry[post[r].entity][post[r].actor]
           latest == last[post[r].entity][post[r].actor]
           sid == post[r].sid
           time == post[r].now
           opened == Editors!Open(before)
<1>1. /\ post[r].entity \in Entities /\ post[r].actor \in Actors /\ sid \in Sids /\ time \in Nat
      /\ post[r].pc = "beat"
    BY DEF Editors!Beat, PresenceInv, PostOK, PostRecord
<1>2. before \in Sessions /\ AtMost(opened, Cap) /\ Cap \in Nat \ {0, 1}
    BY <1>1 DEF PresenceInv, ActorOK, Editors!PresenceAssumption
<1>3. CASE before[sid] # Editors!Closed \/ Cardinality(opened) < Cap
    <2> DEFINE after == [before EXCEPT ![sid] = time]
    <2>1. Editors!Applied(r, after)
        BY <1>3, Counting DEF Editors!Beat
    <2>2. after \in Sessions /\ after[sid] = time
        BY <1>1, <1>2 DEF Sessions
    <2>3. Editors!Open(after) = opened \cup {sid}
        BY <1>1, <1>2 DEF Editors!Open, Editors!Closed, Sessions
    <2>4. AtMost(opened \cup {sid}, Cap)
        <3>1. CASE sid \in opened
            <4>1. opened \cup {sid} = opened
                BY <3>1
            <4> QED
                BY <1>2, <4>1
        <3>2. CASE sid \notin opened
            <4>1. Cardinality(opened) < Cap
                BY <1>1, <1>3, <3>2 DEF Editors!Open
            <4>2. IsFiniteSet(opened) /\ Cardinality(opened) \in Nat
                BY <1>2, FS_CardinalityType DEF AtMost
            <4>3. /\ IsFiniteSet(opened \cup {sid})
                  /\ Cardinality(opened \cup {sid}) =
                       IF sid \in opened THEN Cardinality(opened) ELSE Cardinality(opened) + 1
                BY <4>2, FS_AddElement
            <4> QED
                BY <1>2, <3>2, <4>1, <4>2, <4>3 DEF AtMost
        <3> QED
            BY <3>1, <3>2
    <2>5. AtMost(Editors!Open(after), Cap)
        BY <2>3, <2>4
    <2>6. opened \ Editors!Open(after) = {}
        BY <2>3
    <2>7. Editors!Late(post[r], before, latest) /\ latest.sid \in Sids => after[latest.sid] = before[latest.sid]
        BY <1>2 DEF Editors!Late, Sessions
    <2> HIDE DEF after
    <2> QED
        BY <2>1, <2>2, <2>5, <2>6, <2>7
<1>4. CASE ~(before[sid] # Editors!Closed \/ Cardinality(opened) < Cap)
    <2>1. PICK d \in Editors!Oldest(before) :
             Editors!Applied(r, [before EXCEPT ![d] = Editors!Closed, ![sid] = time])
        BY <1>4, Counting DEF Editors!Beat
    <2> DEFINE after == [before EXCEPT ![d] = Editors!Closed, ![sid] = time]
    <2>2. d \in opened /\ d \in Sids
        BY DEF Editors!Oldest, Editors!Open
    <2>3. after \in Sessions /\ after[sid] = time
        BY <1>1, <1>2, <2>2 DEF Sessions, Editors!Closed
    <2>4. d # sid
        BY <1>4, <2>2 DEF Editors!Open
    <2>5. Editors!Open(after) = (opened \ {d}) \cup {sid}
        BY <1>1, <1>2, <2>2, <2>4 DEF Editors!Open, Editors!Closed, Sessions
    <2>6. AtMost((opened \ {d}) \cup {sid}, Cap)
        <3>1. Cap \in Nat
            BY <1>2
        <3> HIDE DEF opened
        <3> QED
            BY <1>2, <2>2, <3>1, Exchange
    <2>7. AtMost(Editors!Open(after), Cap)
        BY <2>5, <2>6
    <2>8. ASSUME NoSid \notin opened, NEW x \in opened \ Editors!Open(after), NEW k \in opened
          PROVE  before[x] <= before[k]
        <3>1. x = d
            BY <2>5, <2>8
        <3>2. before[d] <= before[k]
            BY <2>8 DEF Editors!Oldest
        <3> QED
            BY <3>1, <3>2
    <2>9. Editors!Applied(r, after)
        BY <2>1
    \* The latest one is newer than all the others, and there are others.
    <2>10. ASSUME Editors!Late(post[r], before, latest), latest.sid \in Sids, latest.seen \in Nat,
                  before[latest.sid] = latest.seen
           PROVE  after[latest.sid] = latest.seen
        <3>1. \E k \in opened : k # latest.sid
            <4>1. opened \subseteq {latest.sid} => opened = {} \/ opened = {latest.sid}
                OBVIOUS
            <4>2. Cardinality({}) = 0 /\ Cardinality({latest.sid}) = 1
                BY FS_EmptySet, FS_Singleton
            <4>3. Cardinality(opened) >= 2
                <5>1. Cardinality(opened) \in Nat /\ ~(Cardinality(opened) < Cap)
                    BY <1>2, <1>4, FS_CardinalityType DEF AtMost
                <5> HIDE DEF opened
                <5> QED
                    BY <1>2, <5>1
            <4> HIDE DEF opened
            <4> QED
                BY <4>1, <4>2, <4>3
        <3>2. PICK k \in opened : k # latest.sid
            BY <3>1
        <3>3. k # NoSid /\ before[k] < latest.seen /\ before[k] \in Int
            BY <1>2, <2>10, <3>2 DEF Editors!Late, Editors!Open, Sessions
        <3>4. NoSid \in opened => NoSid = latest.sid
            BY <2>10 DEF Editors!Late
        <3>5. d # latest.sid
            <4>1. \/ NoSid \in opened /\ before[NoSid] < before[k]
                  \/ before[d] <= before[k]
                BY <3>2, <3>3 DEF Editors!Oldest
            <4>2. before[latest.sid] = latest.seen /\ latest.seen \in Int
                BY <2>10
            <4>3. ~(latest.seen < before[k]) /\ ~(latest.seen <= before[k])
                BY <3>3, <4>2
            <4>4. ~(NoSid \in opened /\ before[NoSid] < before[k])
                BY <3>4, <4>2, <4>3
            <4> HIDE DEF before, latest, opened
            <4> QED
                BY <4>1, <4>2, <4>3, <4>4
        <3>6. latest.sid # sid
            BY <2>10 DEF Editors!Late
        <3> QED
            BY <1>2, <2>2, <2>10, <3>5, <3>6 DEF Sessions
    <2> HIDE DEF after
    <2> QED
        BY <2>3, <2>7, <2>8, <2>9, <2>10
<1> QED
    BY <1>3, <1>4

LEMMA BeatKeeps ==
    ASSUME PresenceInv, Editors!PresenceAssumption, NEW r \in Posts, Editors!Beat(r)
    PROVE  PresenceInv'
<1>1. PICK sessions \in Sessions :
         /\ Editors!Applied(r, sessions)
         /\ AtMost(Editors!Open(sessions), Cap)
         /\ sessions[post[r].sid] = post[r].now
         /\ LET before == byEntry[post[r].entity][post[r].actor]
                latest == last[post[r].entity][post[r].actor]
            IN  Editors!Late(post[r], before, latest) /\ latest.sid \in Sids
                /\ latest.seen \in Nat /\ before[latest.sid] = latest.seen =>
                  sessions[latest.sid] = latest.seen
    BY BeatSessions
<1> DEFINE e == post[r].entity
           a == post[r].actor
           beat == IF Editors!Late(post[r], byEntry[e][a], last[e][a]) THEN last[e][a]
                   ELSE [sid |-> post[r].sid, seen |-> post[r].now]
           x == [post[r] EXCEPT !.pc = "others"]
<1>2. /\ byEntry' = [byEntry EXCEPT ![e][a] = sessions]
      /\ last' = [last EXCEPT ![e][a] = beat]
      /\ post' = [post EXCEPT ![r] = x]
      /\ now' = now
    BY <1>1 DEF Editors!Applied, PresenceInv
<1>3. post[r].pc = "beat" /\ PostOK(post[r], now) /\ e \in Entities /\ a \in Actors
    BY DEF Editors!Beat, PresenceInv, PostOK
<1>4. PostOK(x, now)
    BY <1>3 DEF PostOK, PostRecord
<1>5. ActorOK(sessions, beat, now)
    <2>1. post[r].sid \in Sids /\ post[r].now \in Nat
        BY <1>3 DEF PostOK, PostRecord
    <2>2. CASE Editors!Late(post[r], byEntry[e][a], last[e][a])
        <3>1. Remembered(byEntry[e][a], last[e][a], now)
            BY <1>3 DEF PresenceInv, ActorOK
        <3>2. Remembered(sessions, last[e][a], now)
            BY <1>1, <2>2, <3>1 DEF Remembered
        <3> QED
            BY <1>1, <2>2, <3>2 DEF ActorOK
    <2>3. CASE ~Editors!Late(post[r], byEntry[e][a], last[e][a])
        <3>1. beat.sid = post[r].sid /\ beat.seen = post[r].now
            BY <2>3
        <3> HIDE DEF beat
        <3> QED
            BY <1>1, <2>1, <3>1 DEF ActorOK, Remembered
    <2> QED
        BY <2>2, <2>3
<1> HIDE DEF e, a, beat, x
<1>6. ASSUME NEW f \in Entities, NEW b \in Actors PROVE ActorOK(byEntry'[f][b], last'[f][b], now)
    <2>1. \/ byEntry'[f][b] = byEntry[f][b] /\ last'[f][b] = last[f][b]
          \/ byEntry'[f][b] = sessions /\ last'[f][b] = beat
        BY <1>2, <1>3 DEF PresenceInv
    <2> QED
        BY <1>5, <2>1 DEF PresenceInv
<1>7. \A q \in Posts : PostOK(post'[q], now)
    BY <1>2, <1>4 DEF PresenceInv
<1>8. /\ DOMAIN byEntry' = Entities /\ DOMAIN last' = Entities /\ DOMAIN post' = Posts
      /\ \A f \in Entities : DOMAIN byEntry'[f] = Actors /\ DOMAIN last'[f] = Actors
    BY <1>2, <1>3 DEF PresenceInv
<1> QED
    BY <1>2, <1>6, <1>7, <1>8 DEF PresenceInv

\* sweepLocked takes nothing that is in time for a clock that was read later.
LEMMA OthersKeeps ==
    ASSUME PresenceInv, Editors!PresenceAssumption, NEW r \in Posts, Editors!Others(r)
    PROVE  PresenceInv'
<1> DEFINE at == post[r].now
<1>1. byEntry' = Editors!Swept(at) /\ post' = [post EXCEPT ![r] = Editors!Ready] /\ UNCHANGED <<now, last>>
    BY DEF Editors!Others
<1>2. at \in Nat /\ at <= now /\ now \in Nat /\ Ttl \in Nat /\ Cap \in Nat
    BY DEF PresenceInv, PostOK, PostRecord, Editors!PresenceAssumption
<1> HIDE DEF at
<1>3. ASSUME NEW e \in Entities, NEW a \in Actors PROVE ActorOK(byEntry'[e][a], last[e][a], now)
    <2> DEFINE before == byEntry[e][a]
               after == byEntry'[e][a]
               beat == last[e][a]
    <2>1. ActorOK(before, beat, now)
        BY DEF PresenceInv
    <2>2. after = [s \in Sids |-> IF at - before[s] > Ttl THEN -1 ELSE before[s]]
        BY <1>1 DEF Editors!Swept, Editors!Closed
    <2> HIDE DEF before, after, beat
    <2>3. before \in Sessions
        BY <2>1 DEF ActorOK
    <2>4. after \in Sessions
        BY <2>2, <2>3 DEF Sessions
    <2>5. Editors!Open(after) \subseteq Editors!Open(before)
        BY <2>2 DEF Editors!Open, Editors!Closed
    <2>6. AtMost(Editors!Open(after), Cap)
        BY <1>2, <2>1, <2>5, Fewer DEF ActorOK
    <2>7. Remembered(after, beat, now)
        <3>1. Remembered(before, beat, now)
            BY <2>1 DEF ActorOK
        <3>2. CASE beat.sid = None
            BY <3>1, <3>2 DEF Remembered
        <3>3. CASE beat.sid # None
            <4>1. beat.sid \in Sids /\ beat.seen \in Nat /\ (before[beat.sid] = beat.seen \/ now - beat.seen > Ttl)
                BY <3>1, <3>3 DEF Remembered
            <4>2. after[beat.sid] = IF at - before[beat.sid] > Ttl THEN -1 ELSE before[beat.sid]
                BY <2>2, <4>1
            <4>3. after[beat.sid] = beat.seen \/ now - beat.seen > Ttl
                BY <1>2, <4>1, <4>2
            <4> QED
                BY <4>1, <4>3 DEF Remembered
        <3> QED
            BY <3>2, <3>3
    <2> QED
        BY <2>4, <2>6, <2>7 DEF ActorOK, after, beat
<1>4. PostOK(Editors!Ready, now)
    BY <1>2 DEF PostOK, PostRecord, Editors!Ready
<1>5. \A q \in Posts : PostOK(post'[q], now)
    BY <1>1, <1>4 DEF PresenceInv
<1>6. DOMAIN byEntry' = Entities /\ (\A e \in Entities : DOMAIN byEntry'[e] = Actors) /\ DOMAIN post' = Posts
    BY <1>1 DEF PresenceInv, Editors!Swept
<1> QED
    BY <1>1, <1>3, <1>5, <1>6 DEF PresenceInv

\* Leave: an actor forgets its latest beat with the session of it.
LEMMA LeaveKeeps ==
    ASSUME PresenceInv, Editors!PresenceAssumption, NEW r \in Posts, Editors!Leave(r)
    PROVE  PresenceInv'
<1> DEFINE e == post[r].entity
           a == post[r].actor
           gone == IF post[r].sid = NoSid THEN Sids ELSE {post[r].sid}
           before == byEntry[e][a]
           after == [s \in Sids |-> IF s \in gone THEN -1 ELSE before[s]]
           beat == IF last[e][a].sid \in gone THEN [sid |-> None, seen |-> -1] ELSE last[e][a]
<1>1. /\ post[r].pc = "left" /\ e \in Entities /\ a \in Actors
      /\ now \in Nat /\ Ttl \in Nat /\ Cap \in Nat /\ None \notin Sids
    BY DEF Editors!Leave, PresenceInv, PostOK, Editors!PresenceAssumption
<1>2. /\ byEntry' = [byEntry EXCEPT ![e][a] = after]
      /\ last' = [last EXCEPT ![e][a] = beat]
      /\ post' = [post EXCEPT ![r] = Editors!Ready]
      /\ now' = now
    BY <1>1 DEF Editors!Leave, PresenceInv, Editors!Closed
<1>3. ActorOK(before, last[e][a], now)
    BY <1>1 DEF PresenceInv
<1> HIDE DEF gone
<1>4. ActorOK(after, beat, now)
    <2>1. before \in Sessions /\ AtMost(Editors!Open(before), Cap) /\ Remembered(before, last[e][a], now)
        BY <1>3 DEF ActorOK
    <2> HIDE DEF before
    <2>2. after \in Sessions
        BY <2>1 DEF Sessions
    <2>3. Editors!Open(after) \subseteq Editors!Open(before)
        BY DEF Editors!Open, Editors!Closed
    <2>4. AtMost(Editors!Open(after), Cap)
        <3> HIDE DEF after
        <3> QED
            BY <1>1, <2>1, <2>3, Fewer
    <2>5. Remembered(after, beat, now)
        <3>1. CASE last[e][a].sid \in gone
            BY <3>1 DEF Remembered
        <3>2. CASE last[e][a].sid \notin gone
            <4>1. beat = last[e][a]
                BY <3>2
            <4>2. last[e][a].sid \in Sids => after[last[e][a].sid] = before[last[e][a].sid]
                BY <3>2
            <4> HIDE DEF beat, after
            <4> QED
                BY <2>1, <4>1, <4>2 DEF Remembered
        <3> QED
            BY <3>1, <3>2
    <2> QED
        BY <2>2, <2>4, <2>5 DEF ActorOK
<1> HIDE DEF e, a, before, after, beat
<1>5. ASSUME NEW f \in Entities, NEW b \in Actors PROVE ActorOK(byEntry'[f][b], last'[f][b], now)
    <2>1. \/ byEntry'[f][b] = byEntry[f][b] /\ last'[f][b] = last[f][b]
          \/ byEntry'[f][b] = after /\ last'[f][b] = beat
        BY <1>1, <1>2 DEF PresenceInv
    <2> QED
        BY <1>4, <2>1 DEF PresenceInv
<1>6. PostOK(Editors!Ready, now)
    BY <1>1 DEF PostOK, PostRecord, Editors!Ready
<1>7. \A q \in Posts : PostOK(post'[q], now)
    BY <1>2, <1>6 DEF PresenceInv
<1>8. /\ DOMAIN byEntry' = Entities /\ DOMAIN last' = Entities /\ DOMAIN post' = Posts
      /\ \A f \in Entities : DOMAIN byEntry'[f] = Actors /\ DOMAIN last'[f] = Actors
    BY <1>1, <1>2 DEF PresenceInv
<1> QED
    BY <1>2, <1>5, <1>7, <1>8 DEF PresenceInv

LEMMA PresenceNextOK ==
    Editors!PresenceAssumption /\ PresenceInv /\ [Editors!Next]_(Editors!vars) => PresenceInv'
<1> SUFFICES ASSUME Editors!PresenceAssumption, PresenceInv, [Editors!Next]_(Editors!vars)
             PROVE  PresenceInv'
    OBVIOUS
<1>1. CASE UNCHANGED Editors!vars
    BY <1>1 DEF Editors!vars, PresenceInv
<1>2. ASSUME NEW r \in Posts, NEW e \in Entities, NEW a \in Actors, NEW s \in Sids \cup {NoSid},
             NEW state \in {"beat", "left"}, state = "beat" => s \in Sids,
             Editors!Arrive(r, e, a, s, state)
      PROVE  PresenceInv'
    <2> DEFINE x == [Editors!Ready EXCEPT !.pc = state, !.entity = e, !.actor = a, !.sid = s, !.now = now]
    <2>1. post' = [post EXCEPT ![r] = x] /\ UNCHANGED <<now, byEntry, last>>
        BY <1>2 DEF Editors!Arrive
    <2>2. now \in Nat
        BY DEF PresenceInv
    <2>3. Editors!Ready \in PostRecord
        BY DEF Editors!Ready, PostRecord
    <2>4. x \in PostRecord /\ x.pc = state /\ x.entity = e /\ x.actor = a /\ x.sid = s /\ x.now = now
        BY <2>2, <2>3 DEF PostRecord
    <2> HIDE DEF x
    <2>5. PostOK(x, now)
        BY <1>2, <2>2, <2>4 DEF PostOK
    <2> QED
        BY <2>1, <2>5, PostMoves
<1>3. \A a \in Actors : Tabs[a] \subseteq Sids
    BY DEF Editors!PresenceAssumption
<1>4. ASSUME NEW r \in Posts, NEW e \in Entities, NEW a \in Actors, NEW s \in Tabs[a],
             Editors!Arrive(r, e, a, s, "beat")
      PROVE  PresenceInv'
    BY <1>2, <1>3, <1>4
<1>5. ASSUME NEW r \in Posts, NEW e \in Entities, NEW a \in Actors, NEW s \in Tabs[a] \cup {NoSid},
             Editors!Arrive(r, e, a, s, "left")
      PROVE  PresenceInv'
    BY <1>2, <1>3, <1>5
<1> QED
    BY <1>1, <1>4, <1>5, Ticks, BeatKeeps, OthersKeeps, LeaveKeeps DEF Editors!Next

PresenceSpec == Editors!Init /\ [][Editors!Next]_(Editors!vars)

\* An actor has no more than the cap of sessions for one entity (Beat and
\* evictOldestSession of override/presence.go), whatever ids its requests carry.
LEMMA SessionsCappedHolds ==
    ASSUME Editors!PresenceAssumption
    PROVE  PresenceSpec => []Editors!SessionsCapped
<1>1. PresenceInv => Editors!SessionsCapped
    BY Counting DEF PresenceInv, ActorOK, AtMost, Editors!SessionsCapped
<1> QED
    BY <1>1, PresenceInitOK, PresenceNextOK, PTL DEF PresenceSpec

\* Which request was at a beat and is done with it.
LEMMA WhoBeat ==
    ASSUME PresenceInv, Editors!Next, NEW r \in Posts, post[r].pc = "beat", post'[r].pc = "others"
    PROVE  Editors!Beat(r)
<1>1. ASSUME NEW q \in Posts, NEW x, post' = [post EXCEPT ![q] = x], x.pc # "others" \/ q # r
      PROVE  FALSE
    BY <1>1 DEF PresenceInv
<1>2. ~Editors!Tick
    BY DEF Editors!Tick
<1>3. ASSUME NEW q \in Posts, NEW e \in Entities, NEW a \in Actors, NEW s, NEW state \in {"beat", "left"},
             Editors!Arrive(q, e, a, s, state)
      PROVE  FALSE
    <2> DEFINE x == [Editors!Ready EXCEPT !.pc = state, !.entity = e, !.actor = a, !.sid = s, !.now = now]
    <2>1. post' = [post EXCEPT ![q] = x]
        BY <1>3 DEF Editors!Arrive
    <2>2. x.pc # "others"
        BY DEF Editors!Ready
    <2> HIDE DEF x
    <2> QED
        BY <1>1, <2>1, <2>2
<1>4. ASSUME NEW q \in Posts, Editors!Others(q) \/ Editors!Leave(q) PROVE FALSE
    <2>1. post' = [post EXCEPT ![q] = Editors!Ready]
        BY <1>4 DEF Editors!Others, Editors!Leave
    <2>2. Editors!Ready.pc # "others"
        BY DEF Editors!Ready
    <2> QED
        BY <1>1, <2>1, <2>2
<1>5. ASSUME NEW q \in Posts, Editors!Beat(q), q # r PROVE FALSE
    <2>1. PICK sessions : Editors!Applied(q, sessions)
        BY <1>5 DEF Editors!Beat
    <2>2. post' = [post EXCEPT ![q] = [post[q] EXCEPT !.pc = "others"]]
        BY <2>1 DEF Editors!Applied, PresenceInv
    <2> QED
        BY <1>1, <1>5, <2>2
<1> QED
    BY <1>2, <1>3, <1>4, <1>5 DEF Editors!Next

\* A new session pushes out none that was seen later than one that stays.
LEMMA EvictsOldestHolds ==
    ASSUME Editors!PresenceAssumption
    PROVE  PresenceSpec => Editors!EvictsOldest
<1> DEFINE Evicts ==
      \A e \in Entities, a \in Actors :
         LET before == byEntry[e][a]
             after == byEntry'[e][a]
         IN  \A r \in Posts : post[r].pc = "beat" /\ post'[r].pc = "others" /\ NoSid \notin Editors!Open(before) =>
               \A d \in Editors!Open(before) \ Editors!Open(after),
                      k \in Editors!Open(before) \cap Editors!Open(after) :
                 before[d] <= before[k]
<1>1. PresenceInv /\ [Editors!Next]_(Editors!vars) => [Evicts]_(Editors!vars)
    <2> SUFFICES ASSUME PresenceInv, Editors!Next, NEW e \in Entities, NEW a \in Actors, NEW r \in Posts,
                        post[r].pc = "beat", post'[r].pc = "others", NoSid \notin Editors!Open(byEntry[e][a]),
                        NEW d \in Editors!Open(byEntry[e][a]) \ Editors!Open(byEntry'[e][a]),
                        NEW k \in Editors!Open(byEntry[e][a])
                 PROVE  byEntry[e][a][d] <= byEntry[e][a][k]
        OBVIOUS
    <2>1. Editors!Beat(r)
        BY WhoBeat
    <2>2. PICK sessions \in Sessions :
            /\ Editors!Applied(r, sessions)
            /\ LET before == byEntry[post[r].entity][post[r].actor] IN
                 NoSid \notin Editors!Open(before) =>
                   \A x \in Editors!Open(before) \ Editors!Open(sessions), y \in Editors!Open(before) :
                     before[x] <= before[y]
        BY <2>1, BeatSessions
    <2>3. byEntry' = [byEntry EXCEPT ![post[r].entity][post[r].actor] = sessions]
          /\ post[r].entity \in Entities /\ post[r].actor \in Actors
        BY <2>2 DEF Editors!Applied, PresenceInv, PostOK
    <2>4. \/ byEntry'[e][a] = byEntry[e][a]
          \/ byEntry'[e][a] = sessions /\ e = post[r].entity /\ a = post[r].actor
        BY <2>3 DEF PresenceInv
    <2> QED
        BY <2>2, <2>4
<1>2. (PresenceSpec => [][Evicts]_(Editors!vars)) => (PresenceSpec => Editors!EvictsOldest)
    BY DEF Editors!EvictsOldest
<1> HIDE DEF Evicts
<1> QED
    BY <1>1, <1>2, PresenceInitOK, PresenceNextOK, PTL DEF PresenceSpec

\* Whose latest beat is in time, and who has not left since, is in the answer.
LEMMA LastBeatShownHolds ==
    ASSUME Editors!PresenceAssumption
    PROVE  PresenceSpec => Editors!LastBeatShown
<1> DEFINE Shown ==
      \A r \in Posts : post[r].pc = "others" /\ post'[r].pc = "idle" =>
         \A a \in Actors \ {post[r].actor} :
           LET beat == last[post[r].entity][a] IN
             beat.sid # None /\ now - beat.seen <= Ttl => a \in Editors!Answer(post[r])
<1>1. PresenceInv /\ [Editors!Next]_(Editors!vars) => [Shown]_(Editors!vars)
    <2> SUFFICES ASSUME PresenceInv, NEW r \in Posts, post[r].pc = "others",
                        NEW a \in Actors \ {post[r].actor},
                        last[post[r].entity][a].sid # None, now - last[post[r].entity][a].seen <= Ttl
                 PROVE  a \in Editors!Answer(post[r])
        OBVIOUS
    <2> DEFINE e == post[r].entity
               at == post[r].now
               sid == last[e][a].sid
               seen == last[e][a].seen
    <2>1. e \in Entities /\ at \in Nat /\ at <= now /\ now \in Nat /\ Ttl \in Nat
        BY DEF PresenceInv, PostOK, PostRecord, Editors!PresenceAssumption
    <2>2. Remembered(byEntry[e][a], last[e][a], now)
        BY <2>1 DEF PresenceInv, ActorOK
    <2>3. sid \in Sids /\ seen \in Nat /\ byEntry[e][a][sid] = seen
        BY <2>1, <2>2 DEF Remembered
    <2> HIDE DEF e, at, sid, seen
    <2>4. Editors!Swept(at)[e][a][sid] = seen
        <3>1. Editors!Swept(at)[e][a][sid] = IF at - byEntry[e][a][sid] > Ttl THEN Editors!Closed ELSE byEntry[e][a][sid]
            BY <2>1, <2>3 DEF Editors!Swept
        <3>2. now - seen <= Ttl
            BY DEF e, seen
        <3> QED
            BY <2>1, <2>3, <3>1, <3>2
    <2>5. sid \in Editors!Open(Editors!Swept(at)[e][a])
        BY <2>3, <2>4 DEF Editors!Open, Editors!Closed
    <2> QED
        BY <2>5 DEF Editors!Answer, e, at
<1>2. (PresenceSpec => [][Shown]_(Editors!vars)) => (PresenceSpec => Editors!LastBeatShown)
    BY DEF Editors!LastBeatShown
<1> HIDE DEF Shown
<1> QED
    BY <1>1, <1>2, PresenceInitOK, PresenceNextOK, PTL DEF PresenceSpec

-----------------------------------------------------------------------------
(* Adoption.                                                               *)

AdoptionRows == Adopt!Receipt \X Nat
Request == [op : Adopt!AllOps \cup {None}, pc : Adopt!Steps, n : Nat, what : Models \cup {None},
       from : Parents \cup {None},
            id : Nat, name : Categories \cup {None}, seen : SUBSET Adopt!Receipt, goal : SUBSET Adopt!Receipt,
            erased : SUBSET AdoptionRows, own : SUBSET AdoptionRows, todo : SUBSET (Categories \cup Adopt!Ids),
            made : SUBSET Adopt!Ids, outcome : Adopt!Outcomes \cup {None}]

DataOK ==
    /\ table \subseteq AdoptionRows
    /\ local \in [Adopt!Ids -> Categories \cup {None}]
    /\ used \subseteq Adopt!Ids /\ models \subseteq Adopt!Ids
    /\ forks \subseteq [source : Models, model : Adopt!Ids]
    /\ linked \subseteq Parents
    /\ given \in [category : Nat, model : Nat]
    \* numbers are given once
    /\ \A i \in Adopt!Ids : local[i] # None \/ i \in used => i <= given.category
    /\ \A f \in forks : f.model <= given.model
    /\ begun \in Nat

Replacing == {"erase", "wait", "insert", "commit"}
Linking == {"copy", "copying", "failed"} \cup Replacing
UnlinkSteps == {"detachAll", "delete", "unlinking"} \cup Replacing

\* Where the requests of each kind come by.
Belongs(q) ==
    /\ q.pc \in {"fork", "create", "record"} => q.op = "fork"
    /\ q.pc = "failed" => q.op \in {"fork", "link"}
    /\ q.pc = "drop" => q.op = "drop"
    /\ q.pc \in {"edit", "remove", "removing", "detach"} => q.op \in {"edit", "remove"}
    /\ q.pc \in {"link", "copy", "copying"} => q.op = "link"
    /\ q.pc \in {"unlink", "detachAll", "delete", "unlinking"} => q.op = "unlink"
    /\ q.pc \in {"adopt"} \cup Replacing => q.op \in {"adopt", "edit", "remove", "link", "unlink"}
    /\ q.pc = "adopt" => q.op = "adopt"

\* What a request was asked for, and what it has made.
Knows(q, numbers) ==
    q.pc # "idle" =>
       /\ q.outcome = None
       /\ q.op \in {"adopt", "fork"} => q.what \in Models
       /\ q.op \in {"link", "unlink", "adopt"} => q.from \in Parents
       /\ q.op = "adopt" => q.from = ParentOf[q.what]
       /\ q.op \in {"edit", "remove", "drop"} => q.id \in Adopt!Ids
       /\ q.pc = "edit" => q.name \in Categories
       /\ q.pc \in {"fork", "create", "link", "copy"} => q.made = {} /\ q.goal = {}
       /\ q.op = "fork" => \A i \in q.made : i <= numbers.model
       /\ q.pc = "record" => \E i \in Adopt!Ids : q.made = {i}
       /\ q.pc = "copying" => /\ q.todo \subseteq CategoriesOf[q.from]
                              /\ \A x \in q.goal : x.from = q.from

\* What it takes away of the receipts that it listed.
Drops(q) ==
    \A x \in q.seen \ q.goal :
       \/ q.op = "unlink" /\ ~Adopt!OfModel(x) /\ x.from = q.from
       \/ q.op \in {"edit", "remove"} /\ (Adopt!OfModel(x) \/ x.what = q.name)

\* Alone or not.
RequestOK(q, numbers) ==
    /\ q \in Request
    /\ Belongs(q)
    /\ Knows(q, numbers)
    /\ q.pc \in Replacing => Drops(q)
    /\ q.pc = "commit" => Adopt!Keys(q.own) = q.goal

NoCopies(rows, p) == \A x \in Adopt!Keys(rows) : Adopt!OfModel(x) \/ x.from # p

\* When no other request is under way.
ReplaceOK(q, rows, parents) ==
    /\ q.pc \in Replacing =>
         /\ q.seen = Adopt!Keys(rows)
         /\ \A x \in q.goal : Adopt!OfModel(x) \/ x.from \in parents
    /\ q.pc \in {"wait", "insert", "commit"} => q.erased = rows

ForkOK(q, copies, made) ==
    /\ q.pc \in {"create", "record"} => \A f \in made : f.source # q.what
    /\ q.op = "fork" /\ q.pc \in {"record", "failed"} => \A f \in made : f.model \notin q.made
    /\ q.pc = "record" => q.made \subseteq copies

RemoveOK(q, placed) == q.pc = "removing" => q.id \notin placed

LinkOK(q, rows, parents, placed) ==
    q.op = "link" /\ q.pc \in Linking =>
       /\ q.from \in parents /\ NoCopies(rows, q.from)
       /\ q.made \cap placed = {}

UnlinkOK(q, rows, made, placed) ==
    q.op = "unlink" /\ q.pc \in UnlinkSteps =>
       /\ \A x \in Adopt!Keys(rows) : Adopt!OfModel(x) /\ x.from = q.from => \E f \in made : f.source = x.what
       /\ q.pc \in Replacing => \A x \in q.goal : x \in q.seen /\ (Adopt!OfModel(x) \/ x.from # q.from)
       /\ q.pc \in Replacing \cup {"delete"} => q.todo \cap placed = {}
       /\ q.pc \in {"delete", "unlinking"} => NoCopies(rows, q.from)

AloneOK(q) ==
    /\ ReplaceOK(q, table, linked)
    /\ ForkOK(q, models, forks)
    /\ RemoveOK(q, used)
    /\ LinkOK(q, table, linked, used)
    /\ UnlinkOK(q, table, forks, used)

Alone == \A q, r \in Requests : req[q].pc # "idle" /\ req[r].pc # "idle" => q = r
Vouched == \A x \in Adopt!Receipts : Adopt!OfModel(x) \/ x.from \in linked
ForkedOnce == \A f, g \in forks : f.source = g.source => f = g

SerialInv ==
    inTurn => Alone /\ Vouched /\ ForkedOnce /\ \A r \in Requests : AloneOK(req[r])

AdoptInv ==
    /\ DataOK
    /\ DOMAIN req = Requests /\ \A r \in Requests : RequestOK(req[r], given)
    /\ SerialInv

\* The requests other than r stay as they are.
ReqMoves(r) == DOMAIN req' = Requests /\ \A q \in Requests \ {r} : req'[q] = req[q]

LEMMA OtherRequests ==
    ASSUME AdoptInv, NEW r \in Requests, ReqMoves(r), DataOK', given.model <= given'.model,
           RequestOK(req[r], given)', inTurn' = inTurn,
           inTurn => req[r].pc # "idle" \/ Adopt!Quiet,
           inTurn => Vouched' /\ ForkedOnce' /\ AloneOK(req[r])'
    PROVE  AdoptInv'
<1>1. ASSUME NEW q \in Requests
      PROVE  RequestOK(req[q], given)'
    <2>1. CASE q = r
        BY <2>1
    <2>2. CASE q # r
        <3>1. req'[q] = req[q] /\ RequestOK(req[q], given)
            BY <2>2 DEF ReqMoves, AdoptInv
        <3>2. given.model \in Nat /\ given'.model \in Nat
            BY DEF AdoptInv, DataOK
        <3>3. Knows(req[q], given')
            <4>1. req[q].made \subseteq Nat
                BY <3>1 DEF RequestOK, Request, Adopt!Ids
            <4> QED
                BY <3>1, <3>2, <4>1 DEF RequestOK, Knows
        <3> QED
            BY <3>1, <3>3 DEF RequestOK
    <2> QED
        BY <2>1, <2>2
<1>2. ASSUME inTurn, NEW q \in Requests, q # r
      PROVE  req'[q] = req[q] /\ req[q].pc = "idle"
    BY <1>2 DEF ReqMoves, AdoptInv, SerialInv, Alone, Adopt!Quiet
<1>3. ASSUME inTurn
      PROVE  Alone' /\ \A q \in Requests : AloneOK(req[q])'
    <2>1. Alone'
        BY <1>2, <1>3 DEF Alone
    <2>2. ASSUME NEW q \in Requests, q # r
          PROVE  AloneOK(req[q])'
        BY <1>2, <1>3, <2>2 DEF AloneOK, ReplaceOK, ForkOK, RemoveOK, LinkOK, UnlinkOK,
                                Replacing, Linking, UnlinkSteps
    <2> QED
        BY <1>3, <2>1, <2>2
<1>4. SerialInv'
    BY <1>3 DEF SerialInv
<1> QED
    BY <1>1, <1>4 DEF AdoptInv, ReqMoves

\* A request that has its answer asks for nothing more.
LEMMA AnsweredOK ==
    ASSUME Adopt!AdoptionAssumption, AdoptInv, NEW r \in Requests, NEW o \in Adopt!Outcomes, Adopt!Done(r, o),
           DataOK',
           given.model <= given'.model, inTurn' = inTurn, req[r].pc # "idle",
           inTurn => Vouched' /\ ForkedOnce'
    PROVE  AdoptInv'
<1>1. ReqMoves(r) /\ req'[r] = [Adopt!Idle EXCEPT !.op = req[r].op, !.outcome = o]
    BY DEF Adopt!Done, ReqMoves, AdoptInv
<1>2. req[r].op \in Adopt!AllOps \cup {None}
    BY DEF AdoptInv, RequestOK, Request
<1>3. req'[r] \in Request
    <2>1. req'[r] = [op |-> req[r].op, pc |-> "idle", n |-> 0, what |-> None, from |-> None, id |-> 0, name |-> None,
                     seen |-> {}, goal |-> {}, erased |-> {}, own |-> {}, todo |-> {}, made |-> {}, outcome |-> o]
        BY <1>1 DEF Adopt!Idle
    <2>2. "idle" \in Adopt!Steps /\ o \in Adopt!Outcomes \cup {None}
        BY DEF Adopt!Steps
    <2> QED
        BY <1>2, <2>1, <2>2 DEF Request
<1>4. req'[r].pc = "idle"
    BY <1>1 DEF Adopt!Idle
<1>5. RequestOK(req[r], given)'
    BY <1>3, <1>4 DEF RequestOK, Belongs, Knows, Replacing
<1>6. AloneOK(req[r])'
    BY <1>4 DEF AloneOK, ReplaceOK, ForkOK, RemoveOK, LinkOK, UnlinkOK, Replacing, Linking, UnlinkSteps
<1> QED
    BY <1>1, <1>5, <1>6, OtherRequests

\* A request goes on and writes nothing.
LEMMA OnlyRequest ==
    ASSUME AdoptInv, NEW r \in Requests, ReqMoves(r), UNCHANGED <<Adopt!data, begun, inTurn>>,
           RequestOK(req'[r], given), req[r].pc # "idle",
           inTurn => AloneOK(req'[r])
    PROVE  AdoptInv'
<1>1. DataOK' /\ given' = given /\ given.model \in Nat /\ inTurn' = inTurn
    BY DEF AdoptInv, DataOK, Adopt!data
<1>2. inTurn => Vouched' /\ ForkedOnce'
    BY DEF AdoptInv, SerialInv, Adopt!data, Vouched, ForkedOnce, Adopt!Receipts
<1>3. RequestOK(req[r], given)'
    BY <1>1
<1>4. AloneOK(req'[r]) => AloneOK(req[r])'
    BY DEF AloneOK, Adopt!data
<1> QED
    BY <1>1, <1>2, <1>3, <1>4, OtherRequests

\* What is known of one request.
LEMMA KnownOfRequest ==
    ASSUME AdoptInv, NEW r \in Requests
    PROVE  RequestOK(req[r], given) /\ (inTurn => AloneOK(req[r]) /\ Vouched /\ ForkedOnce)
BY DEF AdoptInv, SerialInv

LEMMA Refused ==
    ASSUME Adopt!AdoptionAssumption, AdoptInv, NEW r \in Requests, NEW o \in Adopt!Outcomes, Adopt!Done(r, o),
           UNCHANGED <<Adopt!data, begun, inTurn>>, req[r].pc # "idle"
    PROVE  AdoptInv'
<1>1. DataOK' /\ given' = given /\ given.model \in Nat /\ inTurn' = inTurn
    BY DEF AdoptInv, DataOK, Adopt!data
<1>2. inTurn => Vouched' /\ ForkedOnce'
    BY DEF AdoptInv, SerialInv, Adopt!data, Vouched, ForkedOnce, Adopt!Receipts
<1> QED
    BY <1>1, <1>2, AnsweredOK

LEMMA EraseOK ==
    ASSUME AdoptInv, NEW r \in Requests, Adopt!Erase(r)
    PROVE  AdoptInv'
<1> DEFINE q == req[r]
           p == [q EXCEPT !.pc = "wait", !.erased = table]
<1>1. ReqMoves(r) /\ req'[r] = p /\ q.pc = "erase" /\ UNCHANGED <<Adopt!data, begun, inTurn>>
    BY DEF Adopt!Erase, ReqMoves, AdoptInv, Adopt!rest
<1>2. RequestOK(q, given) /\ (inTurn => AloneOK(q)) /\ table \subseteq AdoptionRows
    BY KnownOfRequest DEF AdoptInv, DataOK
<1>3. p \in Request
    BY <1>2 DEF RequestOK, Request, Adopt!Steps
<1>4. q \in Request
    BY <1>2 DEF RequestOK
<1>5. RequestOK(p, given)
    BY <1>1, <1>2, <1>3, <1>4 DEF RequestOK, Request, Belongs, Knows, Drops, Replacing
<1>6. inTurn => AloneOK(p)
    BY <1>1, <1>2, <1>4 DEF Request, AloneOK, ReplaceOK, ForkOK, RemoveOK, LinkOK, UnlinkOK, Replacing, Linking,
                            UnlinkSteps
<1> HIDE DEF p
<1> QED
    BY <1>1, <1>5, <1>6, OnlyRequest

LEMMA ErasedOK ==
    ASSUME AdoptInv, NEW r \in Requests, Adopt!Erased(r)
    PROVE  AdoptInv'
<1> DEFINE q == req[r]
           p == [q EXCEPT !.pc = "insert", !.erased = q.erased \cap table]
<1>1. ReqMoves(r) /\ req'[r] = p /\ q.pc = "wait" /\ UNCHANGED <<Adopt!data, begun, inTurn>>
    BY DEF Adopt!Erased, ReqMoves, AdoptInv, Adopt!rest
<1>2. RequestOK(q, given) /\ (inTurn => AloneOK(q)) /\ table \subseteq AdoptionRows
    BY KnownOfRequest DEF AdoptInv, DataOK
<1>3. p \in Request
    BY <1>2 DEF RequestOK, Request, Adopt!Steps
<1>4. q \in Request
    BY <1>2 DEF RequestOK
<1>5. RequestOK(p, given)
    BY <1>1, <1>2, <1>3, <1>4 DEF RequestOK, Request, Belongs, Knows, Drops, Replacing
<1>6. inTurn => AloneOK(p)
    BY <1>1, <1>2, <1>4 DEF Request, AloneOK, ReplaceOK, ForkOK, RemoveOK, LinkOK, UnlinkOK, Replacing, Linking,
                            UnlinkSteps
<1> HIDE DEF p
<1> QED
    BY <1>1, <1>5, <1>6, OnlyRequest

\* A fork or a link that fails goes to its clean-up, the others answer.
LEMMA AbortOK ==
    ASSUME Adopt!AdoptionAssumption, AdoptInv, NEW r \in Requests, Adopt!Abort(r), UNCHANGED <<Adopt!data, begun,
           inTurn>>,
           req[r].pc \notin {"idle", "failed"}
    PROVE  AdoptInv'
<1> DEFINE q == req[r]
           p == [q EXCEPT !.pc = "failed"]
<1>2. RequestOK(q, given) /\ (inTurn => AloneOK(q))
    BY KnownOfRequest
<1>c. CASE q.op = "fork" \/ (q.op = "link" /\ q.pc # "link")
    <2>1. ReqMoves(r) /\ req'[r] = p
        BY <1>c DEF Adopt!Abort, Adopt!Goto, ReqMoves, AdoptInv
    <2>3. p \in Request
        BY <1>2 DEF RequestOK, Request, Adopt!Steps
    <2>4. q \in Request
        BY <1>2 DEF RequestOK
    <2>5. RequestOK(p, given)
        BY <1>c, <1>2, <2>3, <2>4 DEF RequestOK, Request, Belongs, Knows, Drops, Replacing
    <2>6. q.pc \in Adopt!Steps /\ Belongs(q) /\ Knows(q, given)
        BY <1>2, <2>4 DEF Request, RequestOK
    <2>7. ASSUME inTurn, q.op = "fork"
          PROVE  AloneOK(p)
        <3>1. q.pc \in {"fork", "create", "record"}
            BY <2>6, <2>7 DEF Belongs, Adopt!Steps, Adopt!AllOps, Replacing
        <3>2. q.pc \in {"fork", "create"} => q.made = {}
            BY <2>6 DEF Knows
        <3>3. \A f \in forks : f.model \notin q.made
            BY <1>2, <2>7, <3>1, <3>2 DEF AloneOK, ForkOK
        <3> QED
            BY <2>4, <2>7, <3>3 DEF Request, AloneOK, ReplaceOK, ForkOK, RemoveOK, LinkOK, UnlinkOK, Replacing
    <2>8. ASSUME inTurn, q.op = "link", q.pc # "link"
          PROVE  AloneOK(p)
        <3>1. q.pc \in Linking
            BY <2>6, <2>8 DEF Belongs, Adopt!Steps, Adopt!AllOps, Replacing, Linking
        <3>2. LinkOK(q, table, linked, used)
            BY <1>2, <2>8 DEF AloneOK
        <3> QED
            BY <2>4, <2>8, <3>1, <3>2 DEF Request, AloneOK, ReplaceOK, ForkOK, RemoveOK, LinkOK, UnlinkOK, Replacing
    <2>9. inTurn => AloneOK(p)
        BY <1>c, <2>7, <2>8
    <2> HIDE DEF p
    <2> QED
        BY <2>1, <2>5, <2>9, OnlyRequest
<1>d. CASE ~(q.op = "fork" \/ (q.op = "link" /\ q.pc # "link"))
    <2>1. Adopt!Done(r, "error") /\ "error" \in Adopt!Outcomes
        BY <1>d DEF Adopt!Abort, Adopt!Outcomes
    <2> QED
        BY <2>1, Refused
<1> QED
    BY <1>c, <1>d

LEMMA InsertOK ==
    ASSUME Adopt!AdoptionAssumption, AdoptInv, NEW r \in Requests, Adopt!Insert(r)
    PROVE  AdoptInv'
<1> DEFINE q == req[r]
           rows == {<<x, q.n>> : x \in q.goal}
           p == [q EXCEPT !.pc = "commit", !.own = rows]
<1>0. q.pc = "insert" /\ UNCHANGED <<Adopt!data, begun, inTurn>>
    BY DEF Adopt!Insert, Adopt!rest
<1>2. RequestOK(q, given) /\ (inTurn => AloneOK(q))
    BY KnownOfRequest
<1>a. CASE Adopt!Abort(r)
    BY <1>0, <1>a, AbortOK
<1>b. CASE req' = [req EXCEPT ![r].pc = "commit", ![r].own = {<<x, req[r].n>> : x \in req[r].goal}]
    <2>1. ReqMoves(r) /\ req'[r] = p
        BY <1>b DEF ReqMoves, AdoptInv
    <2>4. q \in Request
        BY <1>2 DEF RequestOK
    <2>g. q.n \in Nat /\ q.goal \subseteq Adopt!Receipt
        BY <2>4 DEF Request
    <2>r. rows \subseteq AdoptionRows /\ Adopt!Keys(rows) = q.goal
        <3>1. rows \subseteq AdoptionRows
            BY <2>g DEF AdoptionRows
        <3>2. \A x \in q.goal : <<x, q.n>> \in rows /\ <<x, q.n>>[1] = x
            OBVIOUS
        <3>3. \A row \in rows : row[1] \in q.goal
            OBVIOUS
        <3> HIDE DEF rows
        <3>4. Adopt!Keys(rows) \subseteq q.goal
            BY <3>3 DEF Adopt!Keys
        <3>5. q.goal \subseteq Adopt!Keys(rows)
            BY <3>2 DEF Adopt!Keys
        <3> QED
            BY <3>1, <3>4, <3>5
    <2> HIDE DEF rows
    <2>3. p \in Request
        BY <2>4, <2>r DEF Request, Adopt!Steps
    <2>5. RequestOK(p, given)
        BY <1>0, <1>2, <2>3, <2>4, <2>r DEF RequestOK, Request, Belongs, Knows, Drops, Replacing
    <2>6. inTurn => AloneOK(p)
        BY <1>0, <1>2, <2>4 DEF Request, AloneOK, ReplaceOK, ForkOK, RemoveOK, LinkOK, UnlinkOK, Replacing,
                                Linking, UnlinkSteps
    <2> HIDE DEF p
    <2> QED
        BY <1>0, <2>1, <2>5, <2>6, OnlyRequest
<1> QED
    BY <1>a, <1>b DEF Adopt!Insert

LEMMA CommitOK ==
    ASSUME Adopt!AdoptionAssumption, AdoptInv, NEW r \in Requests, Adopt!Commit(r)
    PROVE  AdoptInv'
<1> DEFINE q == req[r]
           p == [q EXCEPT !.pc = "delete", !.erased = {}, !.own = {}]
<1>0. /\ q.pc = "commit" /\ table' = (table \ q.erased) \cup q.own
      /\ UNCHANGED <<local, used, models, forks, linked, given, begun, inTurn>>
    BY DEF Adopt!Commit, Adopt!rest
<1>2. RequestOK(q, given) /\ (inTurn => AloneOK(q) /\ Vouched /\ ForkedOnce)
    BY KnownOfRequest
<1>4. q \in Request
    BY <1>2 DEF RequestOK
<1>g. q.own \subseteq AdoptionRows /\ q.goal \subseteq Adopt!Receipt
    BY <1>4 DEF Request
<1>d. DataOK' /\ given'.model \in Nat
    BY <1>0, <1>g DEF AdoptInv, DataOK
<1>k. inTurn => Adopt!Receipts' = q.goal
    <2>1. ASSUME inTurn
          PROVE  q.erased = table /\ Adopt!Keys(q.own) = q.goal
        BY <1>0, <1>2, <2>1 DEF AloneOK, ReplaceOK, RequestOK
    <2> QED
        BY <1>0, <2>1 DEF Adopt!Receipts
<1>v. inTurn => Vouched' /\ ForkedOnce'
    BY <1>0, <1>2, <1>k DEF Vouched, ForkedOnce, AloneOK, ReplaceOK, Replacing
<1>a. CASE q.op = "unlink"
    <2>1. ReqMoves(r) /\ req'[r] = p
        BY <1>0, <1>a DEF Adopt!Commit, ReqMoves, AdoptInv
    <2>3. p \in Request
        BY <1>4 DEF Request, Adopt!Steps
    <2>5. RequestOK(p, given)
        BY <1>0, <1>a, <1>2, <2>3, <1>4 DEF RequestOK, Request, Belongs, Knows, Drops, Replacing
    <2>6. ASSUME inTurn
          PROVE  AloneOK(req[r])'
        <3>1. /\ q.seen = Adopt!Keys(table) /\ Adopt!Keys(table') = q.goal
              /\ UnlinkOK(q, table, forks, used)
            BY <1>0, <1>2, <1>k, <2>6 DEF AloneOK, ReplaceOK, Replacing, Adopt!Receipts
        <3>2. UnlinkOK(p, table', forks, used)
            BY <1>0, <1>4, <1>a, <3>1 DEF Request, UnlinkOK, UnlinkSteps, Replacing, NoCopies
        <3>3. p.pc = "delete" /\ p.op = "unlink"
            BY <1>4, <1>a DEF Request
        <3> HIDE DEF p
        <3> QED
            BY <1>0, <2>1, <3>2, <3>3 DEF AloneOK, ReplaceOK, ForkOK, RemoveOK, LinkOK, Replacing, Linking
    <2>7. RequestOK(req[r], given)'
        BY <1>0, <2>1, <2>5
    <2> QED
        BY <1>0, <1>d, <1>v, <2>1, <2>6, <2>7, OtherRequests
<1>b. CASE q.op # "unlink"
    <2>1. Adopt!Done(r, "ok") /\ "ok" \in Adopt!Outcomes
        BY <1>b DEF Adopt!Commit, Adopt!Outcomes
    <2> QED
        BY <1>0, <1>d, <1>v, <2>1, AnsweredOK
<1> QED
    BY <1>a, <1>b

\* What a handler lists and means to write.
LEMMA ReplaceGoes ==
    ASSUME AdoptInv, NEW r \in Requests, NEW goal, goal \subseteq Adopt!Receipt, NEW todo,
           todo \subseteq Categories \cup Adopt!Ids,
           ReqMoves(r), req'[r] = [req[r] EXCEPT !.pc = "erase", !.seen = Adopt!Receipts, !.goal = goal,
                  !.todo = todo],
           UNCHANGED <<Adopt!data, begun, inTurn>>,
           req[r].pc # "idle", req[r].op \in {"adopt", "edit", "remove", "link", "unlink"},
           \A x \in Adopt!Receipts \ goal :
              \/ req[r].op = "unlink" /\ ~Adopt!OfModel(x) /\ x.from = req[r].from
              \/ req[r].op \in {"edit", "remove"} /\ (Adopt!OfModel(x) \/ x.what = req[r].name),
           inTurn => /\ \A x \in goal : Adopt!OfModel(x) \/ x.from \in linked
                     /\ req[r].op = "link" => req[r].pc \in Linking
                     /\ req[r].op = "unlink" =>
                          /\ req[r].pc \in UnlinkSteps
                          /\ \A x \in goal : x \in Adopt!Receipts /\ (Adopt!OfModel(x) \/ x.from # req[r].from)
                          /\ todo \cap used = {}
    PROVE  AdoptInv'
<1> DEFINE q == req[r]
           p == [q EXCEPT !.pc = "erase", !.seen = Adopt!Receipts, !.goal = goal, !.todo = todo]
<1>1. ReqMoves(r) /\ req'[r] = p
    OBVIOUS
<1>2. RequestOK(q, given) /\ (inTurn => AloneOK(q))
    BY KnownOfRequest
<1>4. q \in Request
    BY <1>2 DEF RequestOK
<1>t. Adopt!Receipts \subseteq Adopt!Receipt
    <2>1. table \subseteq Adopt!Receipt \X Nat
        BY DEF AdoptInv, DataOK, AdoptionRows
    <2> QED
        BY <2>1 DEF Adopt!Receipts, Adopt!Keys
<1>3. p \in Request
    BY <1>4, <1>t DEF Request, Adopt!Steps
<1>f. /\ p.pc = "erase" /\ p.seen = Adopt!Receipts /\ p.goal = goal /\ p.todo = todo
      /\ p.op = q.op /\ p.from = q.from /\ p.name = q.name /\ p.what = q.what
      /\ p.id = q.id /\ p.made = q.made /\ p.outcome = q.outcome
    BY <1>4 DEF Request
<1> HIDE DEF p
<1>5. RequestOK(p, given)
    BY <1>2, <1>3, <1>f DEF RequestOK, Belongs, Knows, Drops, Replacing
<1>6. ASSUME inTurn
      PROVE  AloneOK(p)
    <2>1. LinkOK(q, table, linked, used) /\ UnlinkOK(q, table, forks, used)
        BY <1>2, <1>6 DEF AloneOK
    <2>2. LinkOK(p, table, linked, used)
        BY <1>6, <1>f, <2>1 DEF LinkOK
    <2>3. UnlinkOK(p, table, forks, used)
        BY <1>6, <1>f, <2>1 DEF UnlinkOK, Replacing
    <2>4. ReplaceOK(p, table, linked)
        BY <1>6, <1>f DEF ReplaceOK, Adopt!Receipts
    <2>5. ForkOK(p, models, forks) /\ RemoveOK(p, used)
        BY <1>f DEF ForkOK, RemoveOK
    <2> QED
        BY <2>2, <2>3, <2>4, <2>5 DEF AloneOK
<1> QED
    BY <1>1, <1>5, <1>6, OnlyRequest

\* The same where nothing is to be deleted afterwards.
LEMMA ReplaceStarts ==
    ASSUME AdoptInv, NEW r \in Requests, NEW goal, goal \subseteq Adopt!Receipt,
           Adopt!Replace(r, goal), UNCHANGED <<Adopt!data, begun, inTurn>>,
           req[r].pc # "idle", req[r].op \in {"adopt", "edit", "remove", "link"},
           \A x \in Adopt!Receipts \ goal : req[r].op \in {"edit", "remove"} /\ (Adopt!OfModel(x)
                  \/ x.what = req[r].name),
           inTurn => /\ \A x \in goal : Adopt!OfModel(x) \/ x.from \in linked
                     /\ req[r].op = "link" => req[r].pc \in Linking
    PROVE  AdoptInv'
<1> DEFINE q == req[r]
<1>2. RequestOK(q, given)
    BY KnownOfRequest
<1>4. q \in Request
    BY <1>2 DEF RequestOK
<1>5. q.todo \subseteq Categories \cup Adopt!Ids
    BY <1>4 DEF Request
<1>6. ReqMoves(r) /\ req'[r] = [q EXCEPT !.pc = "erase", !.seen = Adopt!Receipts, !.goal = goal]
    BY DEF Adopt!Replace, ReqMoves, AdoptInv
<1>7. [q EXCEPT !.pc = "erase", !.seen = Adopt!Receipts, !.goal = goal]
        = [q EXCEPT !.pc = "erase", !.seen = Adopt!Receipts, !.goal = goal, !.todo = q.todo]
    BY <1>4 DEF Request
<1>8. req'[r] = [q EXCEPT !.pc = "erase", !.seen = Adopt!Receipts, !.goal = goal, !.todo = q.todo]
    BY <1>6, <1>7
<1> QED
    BY <1>5, <1>6, <1>8, ReplaceGoes

\* A request goes on to another step without taking or writing anything.
LEMMA GoesOn ==
    ASSUME AdoptInv, NEW r \in Requests, NEW to \in Adopt!Steps, Adopt!Goto(r, to), UNCHANGED <<Adopt!data, begun,
           inTurn>>,
           req[r].pc # "idle",
           RequestOK([req[r] EXCEPT !.pc = to], given),
           inTurn => AloneOK([req[r] EXCEPT !.pc = to])
    PROVE  AdoptInv'
<1>1. ReqMoves(r) /\ req'[r] = [req[r] EXCEPT !.pc = to]
    BY DEF Adopt!Goto, ReqMoves, AdoptInv
<1> QED
    BY <1>1, OnlyRequest

LEMMA ReceiptsAre ==
    ASSUME DataOK
    PROVE  Adopt!Receipts \subseteq Adopt!Receipt
<1>1. table \subseteq Adopt!Receipt \X Nat
    BY DEF DataOK, AdoptionRows
<1> QED
    BY <1>1 DEF Adopt!Receipts, Adopt!Keys

LEMMA AdoptOK ==
    ASSUME Adopt!AdoptionAssumption, AdoptInv, NEW r \in Requests, Adopt!Adopt(r)
    PROVE  AdoptInv'
<1> DEFINE q == req[r]
           x == [what |-> q.what, from |-> q.from]
<1>0. q.pc = "adopt" /\ UNCHANGED <<Adopt!data, begun, inTurn>>
    BY DEF Adopt!Adopt, Adopt!rest
<1>2. RequestOK(q, given) /\ (inTurn => Vouched) /\ Adopt!Receipts \subseteq Adopt!Receipt
    BY KnownOfRequest, ReceiptsAre DEF AdoptInv
<1>3. q.op = "adopt"
    BY <1>0, <1>2 DEF RequestOK, Belongs
<1>4. q.what \in Models /\ q.from \in Parents /\ q.from = ParentOf[q.what]
    BY <1>0, <1>2, <1>3 DEF RequestOK, Knows
<1>5. x \in Adopt!Receipt /\ Adopt!OfModel(x)
    BY <1>4 DEF Adopt!Receipt, Adopt!OfModel
<1>a. CASE Adopt!Done(r, "refused")
    BY <1>0, <1>a, Refused DEF Adopt!Outcomes
<1>b. CASE Adopt!Replace(r, Adopt!Receipts \cup {x})
    <2>1. \A y \in Adopt!Receipts \cup {x} : inTurn => Adopt!OfModel(y) \/ y.from \in linked
        BY <1>2, <1>5 DEF Vouched
    <2> DEFINE goal == Adopt!Receipts \cup {x}
    <2>2. goal \subseteq Adopt!Receipt /\ Adopt!Receipts \ goal = {}
        BY <1>2, <1>5
    <2> HIDE DEF goal
    <2>3. Adopt!Replace(r, goal)
        BY <1>b DEF goal
    <2> QED
        BY <1>0, <1>3, <2>1, <2>2, <2>3, ReplaceStarts DEF goal
<1> QED
    BY <1>a, <1>b DEF Adopt!Adopt

LEMMA ForkStepOK ==
    ASSUME Adopt!AdoptionAssumption, AdoptInv, NEW r \in Requests, Adopt!Fork(r)
    PROVE  AdoptInv'
<1> DEFINE q == req[r]
           p == [q EXCEPT !.pc = "create"]
<1>0. q.pc = "fork" /\ UNCHANGED <<Adopt!data, begun, inTurn>>
    BY DEF Adopt!Fork, Adopt!rest
<1>2. RequestOK(q, given)
    BY KnownOfRequest
<1>a. CASE Adopt!Done(r, "refused") \/ Adopt!Done(r, "ok")
    BY <1>0, <1>a, Refused DEF Adopt!Outcomes
<1>b. CASE Adopt!ForkOf(q.what) = {} /\ Adopt!Goto(r, "create")
    <2>1. q \in Request /\ Belongs(q) /\ Knows(q, given)
        BY <1>2 DEF RequestOK
    <2>2. p \in Request
        BY <2>1 DEF Request, Adopt!Steps
    <2>f. /\ p.pc = "create" /\ p.op = q.op /\ p.what = q.what /\ p.from = q.from /\ p.id = q.id
          /\ p.name = q.name /\ p.made = q.made /\ p.goal = q.goal /\ p.outcome = q.outcome
        BY <2>1 DEF Request
    <2> HIDE DEF p
    <2>3. RequestOK(p, given)
        BY <1>0, <2>1, <2>2, <2>f DEF RequestOK, Belongs, Knows, Drops, Replacing
    <2>4. AloneOK(p)
        <3>1. q.op = "fork" /\ \A f \in forks : f.source # q.what
            BY <1>0, <1>b, <2>1 DEF Belongs, Adopt!ForkOf
        <3> QED
            BY <3>1, <2>f DEF AloneOK, ReplaceOK, ForkOK, RemoveOK, LinkOK, UnlinkOK, Replacing
    <2>5. "create" \in Adopt!Steps
        BY DEF Adopt!Steps
    <2> QED
        BY <1>0, <1>b, <2>3, <2>4, <2>5, GoesOn DEF p
<1> QED
    BY <1>a, <1>b DEF Adopt!Fork

LEMMA CreateForkOK ==
    ASSUME Adopt!AdoptionAssumption, AdoptInv, NEW r \in Requests, Adopt!CreateFork(r)
    PROVE  AdoptInv'
<1> DEFINE q == req[r]
<1>0. q.pc = "create" /\ UNCHANGED <<table, local, used, forks, linked, begun, inTurn>>
    BY DEF Adopt!CreateFork, Adopt!rest
<1>1. PICK i \in Adopt!Ids : /\ i = given.model + 1
                       /\ given' = [given EXCEPT !.model = i]
                       /\ models' = models \cup {i}
                       /\ req' = [req EXCEPT ![r].pc = "record", ![r].made = {i}]
    BY DEF Adopt!CreateFork
<1> DEFINE p == [q EXCEPT !.pc = "record", !.made = {i}]
<1>2. ReqMoves(r) /\ req'[r] = p
    BY <1>1 DEF ReqMoves, AdoptInv
<1>3. RequestOK(q, given) /\ (inTurn => AloneOK(q) /\ Vouched /\ ForkedOnce) /\ DataOK
    BY KnownOfRequest DEF AdoptInv
<1>g. /\ given \in [category : Nat, model : Nat] /\ given.model \in Nat /\ given'.model = i
      /\ given'.category = given.category /\ given' \in [category : Nat, model : Nat]
      /\ \A f \in forks : f.model \in Adopt!Ids /\ f.model <= given.model
    BY <1>1, <1>3 DEF DataOK, Adopt!Ids
<1>n. \A f \in forks : f.model # i /\ f.model <= i
    BY <1>1, <1>g DEF Adopt!Ids
<1>d. DataOK'
    <2>1. models' \subseteq Adopt!Ids
        BY <1>1, <1>3 DEF DataOK
    <2> QED
        BY <1>0, <1>3, <1>g, <1>n, <2>1 DEF DataOK, AdoptionRows
<1>4. q \in Request /\ Belongs(q) /\ Knows(q, given)
    BY <1>3 DEF RequestOK
<1>5. p \in Request
    BY <1>4 DEF Request, Adopt!Steps
<1>f. /\ p.pc = "record" /\ p.made = {i} /\ p.op = q.op /\ p.what = q.what /\ p.from = q.from
      /\ p.id = q.id /\ p.name = q.name /\ p.goal = q.goal /\ p.outcome = q.outcome
    BY <1>4 DEF Request
<1> HIDE DEF p
<1>6. RequestOK(p, given')
    BY <1>0, <1>g, <1>4, <1>5, <1>f DEF RequestOK, Belongs, Knows, Drops, Replacing, Adopt!Ids
<1>7. ASSUME inTurn
      PROVE  AloneOK(req[r])'
    <2>1. \A f \in forks : f.source # q.what
        BY <1>0, <1>3, <1>7 DEF AloneOK, ForkOK
    <2>2. ForkOK(p, models', forks)
        BY <1>1, <1>n, <1>f, <2>1 DEF ForkOK
    <2>3. q.op = "fork"
        BY <1>0, <1>4 DEF Belongs
    <2> QED
        BY <1>0, <1>2, <1>f, <2>2, <2>3 DEF AloneOK, ReplaceOK, RemoveOK, LinkOK, UnlinkOK, Replacing
<1>8. inTurn => Vouched' /\ ForkedOnce'
    BY <1>0, <1>3 DEF Vouched, ForkedOnce, Adopt!Receipts
<1>9. given.model <= given'.model /\ RequestOK(req[r], given)'
    BY <1>1, <1>2, <1>6, <1>g
<1> QED
    BY <1>0, <1>2, <1>d, <1>7, <1>8, <1>9, OtherRequests

LEMMA RecordForkOK ==
    ASSUME Adopt!AdoptionAssumption, AdoptInv, NEW r \in Requests, Adopt!RecordFork(r)
    PROVE  AdoptInv'
<1> DEFINE q == req[r]
<1>0. /\ q.pc = "record" /\ UNCHANGED <<table, local, used, models, linked, given, begun, inTurn>>
      /\ forks' = forks \cup {[source |-> q.what, model |-> i] : i \in q.made}
      /\ Adopt!Done(r, "ok") /\ "ok" \in Adopt!Outcomes
    BY DEF Adopt!RecordFork, Adopt!rest, Adopt!Outcomes
<1>3. RequestOK(q, given) /\ (inTurn => AloneOK(q) /\ Vouched /\ ForkedOnce) /\ DataOK
    BY KnownOfRequest DEF AdoptInv
<1>4. q.op = "fork" /\ Knows(q, given)
    BY <1>0, <1>3 DEF RequestOK, Belongs
<1>5. PICK i \in Adopt!Ids : q.made = {i}
    BY <1>0, <1>4 DEF Knows
<1>6. q.what \in Models /\ i <= given.model
    BY <1>0, <1>4, <1>5 DEF Knows
<1>7. forks' = forks \cup {[source |-> q.what, model |-> i]}
    BY <1>0, <1>5
<1>d. DataOK' /\ given.model \in Nat /\ given'.model = given.model
    BY <1>0, <1>3, <1>6, <1>7 DEF DataOK, AdoptionRows
<1>v. ASSUME inTurn
      PROVE  Vouched' /\ ForkedOnce'
    <2>1. \A f \in forks : f.source # q.what
        BY <1>0, <1>3, <1>v DEF AloneOK, ForkOK
    <2>2. ForkedOnce'
        BY <1>3, <1>7, <1>v, <2>1 DEF ForkedOnce
    <2> QED
        BY <1>0, <1>3, <1>v, <2>2 DEF Vouched, Adopt!Receipts
<1> QED
    BY <1>0, <1>d, <1>v, AnsweredOK

LEMMA DropOK ==
    ASSUME Adopt!AdoptionAssumption, AdoptInv, NEW r \in Requests, Adopt!Drop(r)
    PROVE  AdoptInv'
<1>0. /\ req[r].pc = "drop" /\ UNCHANGED <<table, local, used, forks, linked, given, begun, inTurn>>
      /\ models' = models \ {req[r].id}
      /\ Adopt!Done(r, "ok") \/ Adopt!Done(r, "refused")
    BY DEF Adopt!Drop, Adopt!rest
<1>1. DataOK' /\ given.model \in Nat /\ given'.model = given.model
    BY <1>0 DEF AdoptInv, DataOK, AdoptionRows
<1>2. inTurn => Vouched' /\ ForkedOnce'
    BY <1>0, KnownOfRequest DEF Vouched, ForkedOnce, Adopt!Receipts
<1>3. "ok" \in Adopt!Outcomes /\ "refused" \in Adopt!Outcomes
    BY DEF Adopt!Outcomes
<1> QED
    BY <1>0, <1>1, <1>2, <1>3, AnsweredOK

\* What stays when only the table of categories and its uses change.
LEMMA LocalOK ==
    ASSUME DataOK, local' \in [Adopt!Ids -> Categories \cup {None}], used' \subseteq Adopt!Ids,
           \A i \in Adopt!Ids : local'[i] # None \/ i \in used' => local[i] # None \/ i \in used,
           UNCHANGED <<table, models, forks, linked, given, begun>>
    PROVE  DataOK' /\ given.model \in Nat /\ given'.model = given.model
BY DEF DataOK, AdoptionRows

\* The category is gone or has another name: now its receipt.
LEMMA ToDetach ==
    ASSUME AdoptInv, NEW r \in Requests, NEW name \in Categories,
           req' = [req EXCEPT ![r].pc = "detach", ![r].name = name],
           req[r].pc \in {"edit", "remove"},
           DataOK', UNCHANGED <<table, forks, linked, given, inTurn>>
    PROVE  AdoptInv'
<1> DEFINE q == req[r]
           p == [q EXCEPT !.pc = "detach", !.name = name]
<1>1. ReqMoves(r) /\ req'[r] = p
    BY DEF ReqMoves, AdoptInv
<1>2. RequestOK(q, given) /\ (inTurn => Vouched /\ ForkedOnce)
    BY KnownOfRequest
<1>4. q \in Request /\ Belongs(q) /\ Knows(q, given)
    BY <1>2 DEF RequestOK
<1>3. p \in Request
    BY <1>4 DEF Request, Adopt!Steps
<1>f. /\ p.pc = "detach" /\ p.op = q.op /\ p.what = q.what /\ p.from = q.from /\ p.id = q.id
      /\ p.made = q.made /\ p.goal = q.goal /\ p.outcome = q.outcome
    BY <1>4 DEF Request
<1> HIDE DEF p
<1>5. RequestOK(p, given)
    BY <1>3, <1>4, <1>f DEF RequestOK, Belongs, Knows, Drops, Replacing
<1>6. AloneOK(req[r])'
    <2>1. p.op \in {"edit", "remove"}
        BY <1>4, <1>f DEF Belongs
    <2> QED
        BY <1>1, <1>f, <2>1 DEF AloneOK, ReplaceOK, ForkOK, RemoveOK, LinkOK, UnlinkOK, Replacing
<1>7. inTurn => Vouched' /\ ForkedOnce'
    BY <1>2 DEF Vouched, ForkedOnce, Adopt!Receipts
<1>8. given.model <= given'.model /\ RequestOK(req[r], given)' /\ inTurn' = inTurn
    BY <1>1, <1>5 DEF AdoptInv, DataOK
<1> QED
    BY <1>1, <1>6, <1>7, <1>8, OtherRequests

LEMMA EditOK ==
    ASSUME Adopt!AdoptionAssumption, AdoptInv, NEW r \in Requests, Adopt!Edit(r)
    PROVE  AdoptInv'
<1> DEFINE q == req[r]
<1>0. q.pc = "edit" /\ UNCHANGED <<table, used, models, forks, linked, given, begun, inTurn>>
    BY DEF Adopt!Edit, Adopt!rest
<1>2. RequestOK(q, given) /\ DataOK
    BY KnownOfRequest DEF AdoptInv
<1>3. q.id \in Adopt!Ids /\ q.name \in Categories
    BY <1>0, <1>2 DEF RequestOK, Belongs, Knows
<1>a. CASE local[q.id] = None
    BY <1>0, <1>a, Refused DEF Adopt!Edit, Adopt!Outcomes, Adopt!data
<1>b. CASE local[q.id] # None
    <2>1. /\ local' = [local EXCEPT ![q.id] = q.name]
          /\ req' = [req EXCEPT ![r].pc = "detach", ![r].name = local[q.id]]
        BY <1>b DEF Adopt!Edit
    <2>2. local[q.id] \in Categories
        BY <1>2, <1>3, <1>b DEF DataOK
    <2>3. DataOK'
        BY <1>0, <1>2, <1>3, <1>b, <2>1, LocalOK DEF DataOK
    <2> QED
        BY <1>0, <2>1, <2>2, <2>3, ToDetach
<1> QED
    BY <1>a, <1>b

LEMMA RemoveStepOK ==
    ASSUME Adopt!AdoptionAssumption, AdoptInv, NEW r \in Requests, Adopt!Remove(r)
    PROVE  AdoptInv'
<1> DEFINE q == req[r]
           p == [q EXCEPT !.pc = "removing", !.name = local[q.id]]
<1>0. q.pc = "remove" /\ UNCHANGED <<Adopt!data, begun, inTurn>>
    BY DEF Adopt!Remove, Adopt!rest
<1>2. RequestOK(q, given) /\ DataOK
    BY KnownOfRequest DEF AdoptInv
<1>4. q \in Request /\ Belongs(q) /\ Knows(q, given)
    BY <1>2 DEF RequestOK
<1>a. CASE Adopt!Done(r, "refused")
    BY <1>0, <1>a, Refused DEF Adopt!Outcomes
<1>b. CASE local[q.id] # None /\ q.id \notin used /\ req' = [req EXCEPT ![r].pc = "removing", ![r].name = local[q.id]]
    <2>0. q.op \in {"edit", "remove"} /\ q.id \in Adopt!Ids
        BY <1>0, <1>4 DEF Belongs, Knows
    <2>1. ReqMoves(r) /\ req'[r] = p
        BY <1>b DEF ReqMoves, AdoptInv
    <2>2. local[q.id] \in Categories
        BY <1>2, <2>0, <1>b DEF DataOK
    <2>3. p \in Request
        BY <1>4, <2>2 DEF Request, Adopt!Steps
    <2>f. /\ p.pc = "removing" /\ p.op = q.op /\ p.what = q.what /\ p.from = q.from /\ p.id = q.id
          /\ p.made = q.made /\ p.goal = q.goal /\ p.outcome = q.outcome
        BY <1>4 DEF Request
    <2> HIDE DEF p
    <2>5. RequestOK(p, given)
        BY <1>0, <1>4, <2>3, <2>f DEF RequestOK, Belongs, Knows, Drops, Replacing
    <2>6. AloneOK(p)
        BY <1>b, <2>0, <2>f DEF AloneOK, ReplaceOK, ForkOK, RemoveOK, LinkOK, UnlinkOK, Replacing
    <2> QED
        BY <1>0, <2>1, <2>5, <2>6, OnlyRequest
<1> QED
    BY <1>a, <1>b DEF Adopt!Remove

LEMMA ReassignOK ==
    ASSUME Adopt!AdoptionAssumption, AdoptInv, NEW r \in Requests, Adopt!RemoveAndReassign(r)
    PROVE  AdoptInv'
<1> DEFINE q == req[r]
<1>0. /\ q.pc = "remove" /\ UNCHANGED <<table, models, forks, linked, given, begun, inTurn>>
      /\ local[q.id] # None /\ local' = [local EXCEPT ![q.id] = None]
      /\ req' = [req EXCEPT ![r].pc = "detach", ![r].name = local[q.id]]
    BY DEF Adopt!RemoveAndReassign, Adopt!rest
<1>1. PICK i \in Adopt!Ids \ {q.id} :
         /\ local[i] # None
         /\ used' = IF q.id \in used THEN (used \ {q.id}) \cup {i} ELSE used
    BY DEF Adopt!RemoveAndReassign
<1>2. RequestOK(q, given) /\ DataOK
    BY KnownOfRequest DEF AdoptInv
<1>3. q.id \in Adopt!Ids
    BY <1>0, <1>2 DEF RequestOK, Belongs, Knows
<1>4. local[q.id] \in Categories
    BY <1>0, <1>2, <1>3 DEF DataOK
<1>5. local' \in [Adopt!Ids -> Categories \cup {None}] /\ used' \subseteq Adopt!Ids
    BY <1>0, <1>1, <1>2 DEF DataOK
<1>6. \A j \in Adopt!Ids : local'[j] # None \/ j \in used' => local[j] # None \/ j \in used
    BY <1>0, <1>1, <1>2 DEF DataOK
<1>7. DataOK'
    BY <1>0, <1>2, <1>5, <1>6, LocalOK
<1> QED
    BY <1>0, <1>4, <1>7, ToDetach

LEMMA RemovingOK ==
    ASSUME Adopt!AdoptionAssumption, AdoptInv, NEW r \in Requests, Adopt!Removing(r)
    PROVE  AdoptInv'
<1> DEFINE q == req[r]
           p == [q EXCEPT !.pc = "detach"]
<1>0. /\ q.pc = "removing" /\ UNCHANGED <<table, used, models, forks, linked, given, begun, inTurn>>
      /\ local' = [local EXCEPT ![q.id] = None] /\ Adopt!Goto(r, "detach")
    BY DEF Adopt!Removing, Adopt!rest
<1>1. ReqMoves(r) /\ req'[r] = p
    BY <1>0 DEF Adopt!Goto, ReqMoves, AdoptInv
<1>2. RequestOK(q, given) /\ DataOK /\ (inTurn => Vouched /\ ForkedOnce)
    BY KnownOfRequest DEF AdoptInv
<1>4. q \in Request /\ Belongs(q) /\ Knows(q, given)
    BY <1>2 DEF RequestOK
<1>5. p \in Request
    BY <1>4 DEF Request, Adopt!Steps
<1>f. /\ p.pc = "detach" /\ p.op = q.op /\ p.what = q.what /\ p.from = q.from /\ p.id = q.id
      /\ p.made = q.made /\ p.goal = q.goal /\ p.outcome = q.outcome
    BY <1>4 DEF Request
<1> HIDE DEF p
<1>6. RequestOK(p, given)
    BY <1>0, <1>4, <1>5, <1>f DEF RequestOK, Belongs, Knows, Drops, Replacing
<1>7. AloneOK(req[r])'
    <2>1. p.op \in {"edit", "remove"}
        BY <1>0, <1>4, <1>f DEF Belongs
    <2> QED
        BY <1>1, <1>f, <2>1 DEF AloneOK, ReplaceOK, ForkOK, RemoveOK, LinkOK, UnlinkOK, Replacing
<1>8. inTurn => Vouched' /\ ForkedOnce'
    BY <1>0, <1>2 DEF Vouched, ForkedOnce, Adopt!Receipts
<1>l. local' \in [Adopt!Ids -> Categories \cup {None}] /\ \A i \in Adopt!Ids : local'[i] # None => local[i] # None
    BY <1>0, <1>2 DEF DataOK
<1>9. DataOK' /\ given.model <= given'.model /\ RequestOK(req[r], given)'
    <2>1. DataOK' /\ given.model \in Nat /\ given'.model = given.model
        BY <1>0, <1>2, <1>l, LocalOK DEF DataOK
    <2> QED
        BY <1>0, <1>1, <1>6, <2>1
<1> QED
    BY <1>0, <1>1, <1>7, <1>8, <1>9, OtherRequests

LEMMA DetachOK ==
    ASSUME Adopt!AdoptionAssumption, AdoptInv, NEW r \in Requests, Adopt!Detach(r)
    PROVE  AdoptInv'
<1> DEFINE q == req[r]
           kept == {x \in {y \in Adopt!Receipts : ~Adopt!OfModel(y)} : x.what # q.name}
<1>0. /\ q.pc = "detach" /\ UNCHANGED <<Adopt!data, begun, inTurn>>
      /\ Adopt!Done(r, "ok") \/ Adopt!Replace(r, kept)
    BY DEF Adopt!Detach, Adopt!rest
<1>2. RequestOK(q, given) /\ (inTurn => Vouched) /\ Adopt!Receipts \subseteq Adopt!Receipt
    BY KnownOfRequest, ReceiptsAre DEF AdoptInv
<1>3. q.op \in {"edit", "remove"}
    BY <1>0, <1>2 DEF RequestOK, Belongs
<1>4. /\ kept \subseteq Adopt!Receipt /\ \A x \in Adopt!Receipts \ kept : Adopt!OfModel(x) \/ x.what = q.name
      /\ inTurn => \A x \in kept : Adopt!OfModel(x) \/ x.from \in linked
    BY <1>2 DEF Vouched
<1> HIDE DEF kept
<1>a. CASE Adopt!Done(r, "ok")
    BY <1>0, <1>a, Refused DEF Adopt!Outcomes
<1>b. CASE Adopt!Replace(r, kept)
    BY <1>0, <1>3, <1>4, <1>b, ReplaceStarts
<1> QED
    BY <1>0, <1>a, <1>b

LEMMA LinkStepOK ==
    ASSUME Adopt!AdoptionAssumption, AdoptInv, NEW r \in Requests, Adopt!Link(r)
    PROVE  AdoptInv'
<1> DEFINE q == req[r]
           p == [q EXCEPT !.pc = "copy"]
<1>0. q.pc = "link" /\ UNCHANGED <<table, local, used, models, forks, given, begun, inTurn>>
    BY DEF Adopt!Link, Adopt!rest
<1>2. RequestOK(q, given) /\ DataOK /\ (inTurn => Vouched /\ ForkedOnce)
    BY KnownOfRequest DEF AdoptInv
<1>4. q \in Request /\ Belongs(q) /\ Knows(q, given)
    BY <1>2 DEF RequestOK
<1>3. q.op = "link" /\ q.from \in Parents /\ q.made = {} /\ q.goal = {}
    BY <1>0, <1>4 DEF Belongs, Knows
<1>a. CASE q.from \in linked
    BY <1>0, <1>a, Refused DEF Adopt!Link, Adopt!Outcomes, Adopt!data
<1>b. CASE q.from \notin linked
    <2>1. linked' = linked \cup {q.from} /\ Adopt!Goto(r, "copy")
        BY <1>b DEF Adopt!Link
    <2>2. ReqMoves(r) /\ req'[r] = p
        BY <2>1 DEF Adopt!Goto, ReqMoves, AdoptInv
    <2>3. p \in Request
        BY <1>4 DEF Request, Adopt!Steps
    <2>f. /\ p.pc = "copy" /\ p.op = q.op /\ p.what = q.what /\ p.from = q.from /\ p.id = q.id
          /\ p.name = q.name /\ p.made = q.made /\ p.goal = q.goal /\ p.outcome = q.outcome
        BY <1>4 DEF Request
    <2> HIDE DEF p
    <2>5. RequestOK(p, given)
        BY <1>0, <1>4, <2>3, <2>f DEF RequestOK, Belongs, Knows, Drops, Replacing
    <2>6. ASSUME inTurn
          PROVE  AloneOK(req[r])'
        <3>1. NoCopies(table, q.from)
            BY <1>2, <1>b, <2>6 DEF NoCopies, Vouched, Adopt!Receipts
        <3> QED
            BY <1>0, <1>3, <2>1, <2>2, <2>f, <3>1 DEF AloneOK, ReplaceOK, ForkOK, RemoveOK, LinkOK, UnlinkOK,
                                                      Replacing
    <2>7. inTurn => Vouched' /\ ForkedOnce'
        BY <1>0, <1>2, <2>1 DEF Vouched, ForkedOnce, Adopt!Receipts
    <2>8. DataOK' /\ given.model <= given'.model /\ RequestOK(req[r], given)'
        BY <1>0, <1>2, <1>3, <2>1, <2>2, <2>5 DEF DataOK, AdoptionRows
    <2> QED
        BY <1>0, <2>2, <2>6, <2>7, <2>8, OtherRequests
<1> QED
    BY <1>a, <1>b

LEMMA ReadCategoriesOK ==
    ASSUME Adopt!AdoptionAssumption, AdoptInv, NEW r \in Requests, Adopt!ReadCategories(r)
    PROVE  AdoptInv'
<1> DEFINE q == req[r]
           rows == CategoriesOf[q.from] \ Adopt!Names
           p == [q EXCEPT !.pc = "copying", !.todo = rows]
<1>0. q.pc = "copy" /\ UNCHANGED <<Adopt!data, begun, inTurn>>
    BY DEF Adopt!ReadCategories, Adopt!rest
<1>1. ReqMoves(r) /\ req'[r] = p
    BY DEF Adopt!ReadCategories, ReqMoves, AdoptInv
<1>2. RequestOK(q, given) /\ (inTurn => AloneOK(q))
    BY KnownOfRequest
<1>4. q \in Request /\ Belongs(q) /\ Knows(q, given)
    BY <1>2 DEF RequestOK
<1>3. q.op = "link" /\ q.from \in Parents /\ q.made = {} /\ q.goal = {}
    BY <1>0, <1>4 DEF Belongs, Knows
<1>5. rows \subseteq CategoriesOf[q.from] /\ rows \subseteq Categories
    BY <1>3 DEF Adopt!AdoptionAssumption
<1> HIDE DEF rows
<1>6. p \in Request
    BY <1>4, <1>5 DEF Request, Adopt!Steps
<1>f. /\ p.pc = "copying" /\ p.todo = rows /\ p.op = q.op /\ p.what = q.what /\ p.from = q.from /\ p.id = q.id
      /\ p.name = q.name /\ p.made = q.made /\ p.goal = q.goal /\ p.outcome = q.outcome
    BY <1>4 DEF Request
<1> HIDE DEF p
<1>7. RequestOK(p, given)
    BY <1>0, <1>3, <1>4, <1>5, <1>6, <1>f DEF RequestOK, Belongs, Knows, Drops, Replacing
<1>8. ASSUME inTurn
      PROVE  AloneOK(p)
    <2>1. LinkOK(q, table, linked, used)
        BY <1>2, <1>8 DEF AloneOK
    <2> QED
        BY <1>0, <1>3, <1>f, <2>1 DEF AloneOK, ReplaceOK, ForkOK, RemoveOK, LinkOK, UnlinkOK, Replacing, Linking
<1> QED
    BY <1>0, <1>1, <1>7, <1>8, OnlyRequest

LEMMA CopyCategoryOK ==
    ASSUME Adopt!AdoptionAssumption, AdoptInv, NEW r \in Requests, Adopt!CopyCategory(r)
    PROVE  AdoptInv'
<1> DEFINE q == req[r]
<1>0. q.pc = "copying" /\ UNCHANGED <<table, used, models, forks, linked, begun, inTurn>>
    BY DEF Adopt!CopyCategory, Adopt!rest
<1>1. PICK c \in q.todo, i \in Adopt!Ids :
         /\ i = given.category + 1
         /\ given' = [given EXCEPT !.category = i]
         /\ local' = [local EXCEPT ![i] = c]
         /\ req' = [req EXCEPT ![r].todo = @ \ {c}, ![r].made = @ \cup {i},
                               ![r].goal = @ \cup {[what |-> c, from |-> req[r].from]}]
    BY DEF Adopt!CopyCategory
<1>2. RequestOK(q, given) /\ DataOK /\ (inTurn => AloneOK(q) /\ Vouched /\ ForkedOnce)
    BY KnownOfRequest DEF AdoptInv
<1>4. q \in Request /\ Belongs(q) /\ Knows(q, given)
    BY <1>2 DEF RequestOK
<1>3. q.op = "link" /\ q.from \in Parents /\ q.todo \subseteq CategoriesOf[q.from]
    BY <1>0, <1>4 DEF Belongs, Knows
<1> DEFINE x == [what |-> c, from |-> q.from]
           p == [q EXCEPT !.todo = q.todo \ {c}, !.made = q.made \cup {i}, !.goal = q.goal \cup {x}]
<1>5. ReqMoves(r) /\ req'[r] = p
    BY <1>1 DEF ReqMoves, AdoptInv
<1>6. c \in Categories /\ c \notin Models /\ x \in Adopt!Receipt /\ x.from = q.from
    BY <1>1, <1>3 DEF Adopt!AdoptionAssumption, Adopt!Receipt
<1> HIDE DEF x
<1>g. /\ given \in [category : Nat, model : Nat] /\ given.category \in Nat /\ given.model \in Nat
      /\ given'.category = i /\ given'.model = given.model
      /\ given' \in [category : Nat, model : Nat]
    BY <1>1, <1>2 DEF DataOK, Adopt!Ids
<1>n. \A j \in Adopt!Ids : j <= given.category => j <= i /\ j # i
    BY <1>1, <1>g DEF Adopt!Ids
<1>d. DataOK'
    <2>1. local' \in [Adopt!Ids -> Categories \cup {None}]
        BY <1>1, <1>2, <1>6 DEF DataOK
    <2>2. \A j \in Adopt!Ids : local'[j] # None \/ j \in used => j <= i
        <3>1. i <= i
            BY DEF Adopt!Ids
        <3> QED
            BY <1>1, <1>2, <1>n, <3>1 DEF DataOK
    <2> QED
        BY <1>0, <1>2, <1>g, <2>1, <2>2 DEF DataOK, AdoptionRows
<1>u. i \notin used
    BY <1>2, <1>n DEF DataOK
<1>7. p \in Request
    BY <1>4, <1>6 DEF Request
<1>f. /\ p.pc = q.pc /\ p.todo = q.todo \ {c} /\ p.made = q.made \cup {i} /\ p.goal = q.goal \cup {x}
      /\ p.op = q.op /\ p.what = q.what /\ p.from = q.from /\ p.id = q.id /\ p.name = q.name
      /\ p.outcome = q.outcome
    BY <1>4 DEF Request
<1> HIDE DEF p
<1>8. RequestOK(p, given')
    BY <1>0, <1>3, <1>4, <1>6, <1>7, <1>f DEF RequestOK, Belongs, Knows, Drops, Replacing
<1>9. ASSUME inTurn
      PROVE  AloneOK(req[r])'
    <2>1. LinkOK(q, table, linked, used)
        BY <1>2, <1>9 DEF AloneOK
    <2> QED
        BY <1>0, <1>3, <1>5, <1>f, <1>u, <2>1 DEF AloneOK, ReplaceOK, ForkOK, RemoveOK, LinkOK, UnlinkOK,
                                                  Replacing, Linking
<1>v. inTurn => Vouched' /\ ForkedOnce'
    BY <1>0, <1>2 DEF Vouched, ForkedOnce, Adopt!Receipts
<1>w. given.model <= given'.model /\ RequestOK(req[r], given)'
    BY <1>5, <1>8, <1>g
<1> QED
    BY <1>0, <1>5, <1>d, <1>9, <1>v, <1>w, OtherRequests

LEMMA ListReceiptsOK ==
    ASSUME Adopt!AdoptionAssumption, AdoptInv, NEW r \in Requests, Adopt!ListReceipts(r)
    PROVE  AdoptInv'
<1> DEFINE q == req[r]
           goal == Adopt!Receipts \cup q.goal
<1>0. /\ q.pc = "copying" /\ UNCHANGED <<Adopt!data, begun, inTurn>>
      /\ Adopt!Done(r, "ok") \/ Adopt!Replace(r, goal)
    BY DEF Adopt!ListReceipts, Adopt!rest
<1>2. RequestOK(q, given) /\ (inTurn => Vouched /\ AloneOK(q)) /\ Adopt!Receipts \subseteq Adopt!Receipt
    BY KnownOfRequest, ReceiptsAre DEF AdoptInv
<1>4. q \in Request /\ Belongs(q) /\ Knows(q, given)
    BY <1>2 DEF RequestOK
<1>3. q.op = "link" /\ \A x \in q.goal : x.from = q.from
    BY <1>0, <1>4 DEF Belongs, Knows
<1>5. ASSUME inTurn
      PROVE  \A x \in goal : Adopt!OfModel(x) \/ x.from \in linked
    <2>1. q.from \in linked
        BY <1>0, <1>2, <1>3, <1>5 DEF AloneOK, LinkOK, Linking
    <2> QED
        BY <1>2, <1>3, <1>5, <2>1 DEF Vouched
<1>6. goal \subseteq Adopt!Receipt /\ Adopt!Receipts \ goal = {}
    BY <1>2, <1>4 DEF Request
<1> HIDE DEF goal
<1>a. CASE Adopt!Done(r, "ok")
    BY <1>0, <1>a, Refused DEF Adopt!Outcomes
<1>b. CASE Adopt!Replace(r, goal)
    <2>1. q.pc \in Linking
        BY <1>0 DEF Linking
    <2> QED
        BY <1>0, <1>3, <1>5, <1>6, <1>b, <2>1, ReplaceStarts
<1> QED
    BY <1>0, <1>a, <1>b

LEMMA UnlinkStepOK ==
    ASSUME Adopt!AdoptionAssumption, AdoptInv, NEW r \in Requests, Adopt!Unlink(r)
    PROVE  AdoptInv'
<1> DEFINE q == req[r]
           p == [q EXCEPT !.pc = "detachAll"]
<1>0. q.pc = "unlink" /\ UNCHANGED <<Adopt!data, begun, inTurn>>
    BY DEF Adopt!Unlink, Adopt!rest
<1>2. RequestOK(q, given)
    BY KnownOfRequest
<1>4. q \in Request /\ Belongs(q) /\ Knows(q, given)
    BY <1>2 DEF RequestOK
<1>3. q.op = "unlink" /\ q.from \in Parents
    BY <1>0, <1>4 DEF Belongs, Knows
<1>a. CASE Adopt!Done(r, "refused")
    BY <1>0, <1>a, Refused DEF Adopt!Outcomes
<1>b. CASE /\ ~\E x \in Adopt!Receipts : Adopt!OfModel(x) /\ x.from = q.from /\ Adopt!ForkOf(x.what) = {}
           /\ Adopt!Goto(r, "detachAll")
    <2>1. p \in Request
        BY <1>4 DEF Request, Adopt!Steps
    <2>f. /\ p.pc = "detachAll" /\ p.op = q.op /\ p.what = q.what /\ p.from = q.from /\ p.id = q.id
          /\ p.name = q.name /\ p.made = q.made /\ p.goal = q.goal /\ p.outcome = q.outcome
        BY <1>4 DEF Request
    <2> HIDE DEF p
    <2>2. RequestOK(p, given)
        BY <1>0, <1>4, <2>1, <2>f DEF RequestOK, Belongs, Knows, Drops, Replacing
    <2>3. \A x \in Adopt!Keys(table) : Adopt!OfModel(x) /\ x.from = q.from => \E f \in forks : f.source = x.what
        BY <1>b DEF Adopt!ForkOf, Adopt!Receipts
    <2>4. AloneOK(p)
        BY <1>3, <2>3, <2>f DEF AloneOK, ReplaceOK, ForkOK, RemoveOK, LinkOK, UnlinkOK, Replacing
    <2>5. "detachAll" \in Adopt!Steps
        BY DEF Adopt!Steps
    <2> QED
        BY <1>0, <1>b, <2>2, <2>4, <2>5, GoesOn DEF p
<1> QED
    BY <1>a, <1>b DEF Adopt!Unlink

LEMMA ListCopiesOK ==
    ASSUME Adopt!AdoptionAssumption, AdoptInv, NEW r \in Requests, Adopt!ListCopies(r)
    PROVE  AdoptInv'
<1> DEFINE q == req[r]
           gone == {x \in Adopt!Receipts : ~Adopt!OfModel(x) /\ x.from = q.from}
           names == {x.what : x \in gone} \cap Adopt!Names
           goal == Adopt!Receipts \ gone
           p == [q EXCEPT !.pc = "unlinking"]
<1>0. q.pc = "detachAll" /\ UNCHANGED <<Adopt!data, begun, inTurn>>
    BY DEF Adopt!ListCopies, Adopt!rest
<1>2. RequestOK(q, given) /\ (inTurn => Vouched /\ AloneOK(q)) /\ Adopt!Receipts \subseteq Adopt!Receipt
    BY KnownOfRequest, ReceiptsAre DEF AdoptInv
<1>4. q \in Request /\ Belongs(q) /\ Knows(q, given)
    BY <1>2 DEF RequestOK
<1>3. q.op = "unlink" /\ q.from \in Parents
    BY <1>0, <1>4 DEF Belongs, Knows
<1>a. CASE gone = {} /\ Adopt!Goto(r, "unlinking")
    <2>1. p \in Request
        BY <1>4 DEF Request, Adopt!Steps
    <2>f. /\ p.pc = "unlinking" /\ p.op = q.op /\ p.what = q.what /\ p.from = q.from /\ p.id = q.id
          /\ p.name = q.name /\ p.made = q.made /\ p.goal = q.goal /\ p.outcome = q.outcome
        BY <1>4 DEF Request
    <2> HIDE DEF p
    <2>2. RequestOK(p, given)
        BY <1>0, <1>4, <2>1, <2>f DEF RequestOK, Belongs, Knows, Drops, Replacing
    <2>3. NoCopies(table, q.from)
        BY <1>a DEF NoCopies, Adopt!Receipts
    <2>4. ASSUME inTurn
          PROVE  AloneOK(p)
        <3>1. UnlinkOK(q, table, forks, used)
            BY <1>2, <2>4 DEF AloneOK
        <3> QED
            BY <1>0, <1>3, <2>3, <2>f, <3>1 DEF AloneOK, ReplaceOK, ForkOK, RemoveOK, LinkOK, UnlinkOK, Replacing,
                                                UnlinkSteps
    <2>5. "unlinking" \in Adopt!Steps
        BY DEF Adopt!Steps
    <2> QED
        BY <1>0, <1>a, <2>2, <2>4, <2>5, GoesOn DEF p
<1>b. ASSUME NEW byName \in [names -> Adopt!Ids],
             req' = [req EXCEPT ![r].pc = "erase", ![r].seen = Adopt!Receipts, ![r].goal = goal,
                                ![r].todo = {byName[c] : c \in names} \ used]
      PROVE  AdoptInv'
    <2> DEFINE todo == {byName[c] : c \in names} \ used
    <2>1. todo \subseteq Categories \cup Adopt!Ids /\ todo \cap used = {}
        OBVIOUS
    <2>2. /\ goal \subseteq Adopt!Receipt
          /\ \A x \in Adopt!Receipts \ goal : ~Adopt!OfModel(x) /\ x.from = q.from
          /\ \A x \in goal : x \in Adopt!Receipts /\ (Adopt!OfModel(x) \/ x.from # q.from)
          /\ inTurn => \A x \in goal : Adopt!OfModel(x) \/ x.from \in linked
        BY <1>2 DEF Vouched
    <2>3. ReqMoves(r) /\ req'[r] = [q EXCEPT !.pc = "erase", !.seen = Adopt!Receipts, !.goal = goal, !.todo = todo]
        BY <1>b DEF ReqMoves, AdoptInv
    <2>4. q.pc \in UnlinkSteps
        BY <1>0 DEF UnlinkSteps
    <2> HIDE DEF todo, goal
    <2> QED
        BY <1>0, <1>3, <2>1, <2>2, <2>3, <2>4, ReplaceGoes
<1> QED
    BY <1>a, <1>b DEF Adopt!ListCopies

LEMMA DeleteCopiesOK ==
    ASSUME Adopt!AdoptionAssumption, AdoptInv, NEW r \in Requests, Adopt!DeleteCopies(r)
    PROVE  AdoptInv'
<1> DEFINE q == req[r]
           p == [q EXCEPT !.pc = "unlinking"]
<1>0. /\ q.pc = "delete" /\ UNCHANGED <<table, used, models, forks, linked, given, begun, inTurn>>
      /\ local' = [i \in Adopt!Ids |-> IF i \in q.todo THEN None ELSE local[i]] /\ Adopt!Goto(r, "unlinking")
    BY DEF Adopt!DeleteCopies, Adopt!rest
<1>1. ReqMoves(r) /\ req'[r] = p
    BY <1>0 DEF Adopt!Goto, ReqMoves, AdoptInv
<1>2. RequestOK(q, given) /\ DataOK /\ (inTurn => AloneOK(q) /\ Vouched /\ ForkedOnce)
    BY KnownOfRequest DEF AdoptInv
<1>4. q \in Request /\ Belongs(q) /\ Knows(q, given)
    BY <1>2 DEF RequestOK
<1>3. q.op = "unlink"
    BY <1>0, <1>4 DEF Belongs
<1>5. p \in Request
    BY <1>4 DEF Request, Adopt!Steps
<1>f. /\ p.pc = "unlinking" /\ p.op = q.op /\ p.what = q.what /\ p.from = q.from /\ p.id = q.id
      /\ p.name = q.name /\ p.made = q.made /\ p.goal = q.goal /\ p.outcome = q.outcome
    BY <1>4 DEF Request
<1> HIDE DEF p
<1>6. RequestOK(p, given)
    BY <1>0, <1>4, <1>5, <1>f DEF RequestOK, Belongs, Knows, Drops, Replacing
<1>7. ASSUME inTurn
      PROVE  AloneOK(req[r])'
    <2>1. UnlinkOK(q, table, forks, used)
        BY <1>2, <1>7 DEF AloneOK
    <2>2. UnlinkOK(p, table, forks, used)
        BY <1>0, <1>3, <1>f, <2>1 DEF UnlinkOK, UnlinkSteps, Replacing
    <2> QED
        BY <1>0, <1>1, <1>3, <1>f, <2>2 DEF AloneOK, ReplaceOK, ForkOK, RemoveOK, LinkOK, Replacing
<1>8. inTurn => Vouched' /\ ForkedOnce'
    BY <1>0, <1>2 DEF Vouched, ForkedOnce, Adopt!Receipts
<1>l. local' \in [Adopt!Ids -> Categories \cup {None}] /\ \A i \in Adopt!Ids : local'[i] # None => local[i] # None
    BY <1>0, <1>2 DEF DataOK
<1>9. DataOK' /\ given.model <= given'.model /\ RequestOK(req[r], given)'
    <2>1. DataOK' /\ given.model \in Nat /\ given'.model = given.model
        BY <1>0, <1>2, <1>l, LocalOK DEF DataOK
    <2> QED
        BY <1>0, <1>1, <1>6, <2>1
<1> QED
    BY <1>0, <1>1, <1>7, <1>8, <1>9, OtherRequests

LEMMA UnlinkingOK ==
    ASSUME Adopt!AdoptionAssumption, AdoptInv, NEW r \in Requests, Adopt!Unlinking(r)
    PROVE  AdoptInv'
<1> DEFINE q == req[r]
<1>0. /\ q.pc = "unlinking" /\ UNCHANGED <<table, local, used, models, forks, given, begun, inTurn>>
      /\ linked' = linked \ {q.from} /\ Adopt!Done(r, "ok") /\ "ok" \in Adopt!Outcomes
    BY DEF Adopt!Unlinking, Adopt!rest, Adopt!Outcomes
<1>2. RequestOK(q, given) /\ DataOK /\ (inTurn => AloneOK(q) /\ Vouched /\ ForkedOnce)
    BY KnownOfRequest DEF AdoptInv
<1>3. q.op = "unlink"
    BY <1>0, <1>2 DEF RequestOK, Belongs
<1>4. ASSUME inTurn
      PROVE  Vouched' /\ ForkedOnce'
    <2>1. NoCopies(table, q.from)
        BY <1>0, <1>2, <1>3, <1>4 DEF AloneOK, UnlinkOK, UnlinkSteps
    <2> QED
        BY <1>0, <1>2, <1>4, <2>1 DEF Vouched, ForkedOnce, NoCopies, Adopt!Receipts
<1>5. DataOK' /\ given.model \in Nat /\ given'.model = given.model
    BY <1>0, <1>2 DEF DataOK, AdoptionRows
<1> QED
    BY <1>0, <1>4, <1>5, AnsweredOK

LEMMA CleanUpOK ==
    ASSUME Adopt!AdoptionAssumption, AdoptInv, NEW r \in Requests, Adopt!CleanUp(r)
    PROVE  AdoptInv'
<1> DEFINE q == req[r]
<1>0. /\ q.pc = "failed" /\ UNCHANGED <<table, used, forks, given, begun, inTurn>>
      /\ Adopt!Done(r, "error") /\ "error" \in Adopt!Outcomes
    BY DEF Adopt!CleanUp, Adopt!rest, Adopt!Outcomes
<1>2. RequestOK(q, given) /\ DataOK /\ (inTurn => AloneOK(q) /\ Vouched /\ ForkedOnce)
    BY KnownOfRequest DEF AdoptInv
<1>a. CASE q.op = "fork"
    <2>1. models' = models \ q.made /\ UNCHANGED <<local, linked>>
        BY <1>a DEF Adopt!CleanUp
    <2>2. DataOK' /\ given.model \in Nat /\ given'.model = given.model
        BY <1>0, <1>2, <2>1 DEF DataOK, AdoptionRows
    <2>3. inTurn => Vouched' /\ ForkedOnce'
        BY <1>0, <1>2, <2>1 DEF Vouched, ForkedOnce, Adopt!Receipts
    <2> QED
        BY <1>0, <2>2, <2>3, AnsweredOK
<1>b. CASE q.op # "fork"
    <2>1. /\ local' = [i \in Adopt!Ids |-> IF i \in q.made THEN None ELSE local[i]]
          /\ linked' = linked \ {q.from} /\ UNCHANGED models
        BY <1>b DEF Adopt!CleanUp
    <2>2. q.op = "link"
        BY <1>0, <1>2, <1>b DEF RequestOK, Belongs
    <2>l. local' \in [Adopt!Ids -> Categories \cup {None}] /\ \A i \in Adopt!Ids : local'[i] # None => local[i] # None
        BY <2>1, <1>2 DEF DataOK
    <2>3. DataOK' /\ given.model \in Nat /\ given'.model = given.model
        BY <1>0, <1>2, <2>1, <2>l DEF DataOK, AdoptionRows
    <2>4. ASSUME inTurn
          PROVE  Vouched' /\ ForkedOnce'
        <3>1. NoCopies(table, q.from)
            BY <1>0, <1>2, <2>2, <2>4 DEF AloneOK, LinkOK, Linking
        <3> QED
            BY <1>0, <1>2, <2>1, <2>4, <3>1 DEF Vouched, ForkedOnce, NoCopies, Adopt!Receipts
    <2> QED
        BY <1>0, <2>3, <2>4, AnsweredOK
<1> QED
    BY <1>a, <1>b

LEMMA DiesOK ==
    ASSUME Adopt!AdoptionAssumption, AdoptInv, NEW r \in Requests, Adopt!Dies(r)
    PROVE  AdoptInv'
BY Refused DEF Adopt!Dies, Adopt!rest, Adopt!Outcomes

LEMMA FailsOK ==
    ASSUME Adopt!AdoptionAssumption, AdoptInv, NEW r \in Requests, Adopt!Fails(r)
    PROVE  AdoptInv'
<1> DEFINE q == req[r]
           p == [q EXCEPT !.pc = "failed", !.made = {}]
<1>0. q.pc \notin {"idle", "failed"} /\ UNCHANGED <<Adopt!data, begun, inTurn>>
    BY DEF Adopt!Fails, Adopt!rest
<1>a. CASE Adopt!Abort(r)
    BY <1>0, <1>a, AbortOK
<1>b. CASE q.pc = "copying" /\ req' = [req EXCEPT ![r].pc = "failed", ![r].made = {}]
    <2>1. ReqMoves(r) /\ req'[r] = p
        BY <1>b DEF ReqMoves, AdoptInv
    <2>2. RequestOK(q, given) /\ (inTurn => AloneOK(q))
        BY KnownOfRequest
    <2>4. q \in Request /\ Belongs(q) /\ Knows(q, given)
        BY <2>2 DEF RequestOK
    <2>5. p \in Request
        BY <2>4 DEF Request, Adopt!Steps
    <2>f. /\ p.pc = "failed" /\ p.made = {} /\ p.op = q.op /\ p.what = q.what /\ p.from = q.from /\ p.id = q.id
          /\ p.name = q.name /\ p.goal = q.goal /\ p.outcome = q.outcome
        BY <2>4 DEF Request
    <2>g. q.op = "link"
        BY <1>b, <2>4 DEF Belongs
    <2> HIDE DEF p
    <2>6. RequestOK(p, given)
        BY <1>b, <2>4, <2>5, <2>f, <2>g DEF RequestOK, Belongs, Knows, Drops, Replacing
    <2>7. ASSUME inTurn
          PROVE  AloneOK(p)
        <3>1. LinkOK(q, table, linked, used)
            BY <2>2, <2>7 DEF AloneOK
        <3> QED
            BY <1>b, <2>f, <2>g, <3>1 DEF AloneOK, ReplaceOK, ForkOK, RemoveOK, LinkOK, UnlinkOK, Replacing, Linking
    <2> QED
        BY <1>0, <2>1, <2>6, <2>7, OnlyRequest
<1> QED
    BY <1>a, <1>b DEF Adopt!Fails

LEMMA PlaceOK ==
    ASSUME AdoptInv, Adopt!Place
    PROVE  AdoptInv'
<1>0. UNCHANGED <<table, local, models, forks, linked, given, req, begun, inTurn>> /\ (inTurn => Adopt!Quiet)
    BY DEF Adopt!Place, Adopt!rest
<1>1. PICK i \in Adopt!Ids : local[i] # None /\ used' = used \cup {i}
    BY DEF Adopt!Place
<1>2. DataOK /\ DataOK'
    BY <1>0, <1>1, LocalOK DEF AdoptInv, DataOK
<1>3. SerialInv'
    <2>1. ASSUME inTurn
          PROVE  Alone /\ Vouched /\ ForkedOnce /\ \A r \in Requests : req[r].pc = "idle"
        BY <1>0, <2>1 DEF AdoptInv, SerialInv, Adopt!Quiet
    <2>2. inTurn => \A r \in Requests : AloneOK(req[r])'
        BY <1>0, <2>1 DEF AloneOK, ReplaceOK, ForkOK, RemoveOK, LinkOK, UnlinkOK, Replacing, Linking, UnlinkSteps
    <2> QED
        BY <1>0, <2>1, <2>2 DEF SerialInv, Alone, Vouched, ForkedOnce, Adopt!Receipts
<1> QED
    BY <1>0, <1>2, <1>3 DEF AdoptInv

LEMMA StartOK ==
    ASSUME Adopt!AdoptionAssumption, AdoptInv, NEW r \in Requests, Adopt!Start(r)
    PROVE  AdoptInv'
<1>0. /\ UNCHANGED <<table, local, used, models, forks, linked, given, inTurn>>
      /\ begun' = begun + 1 /\ (inTurn => Adopt!Quiet) /\ begun \in Nat
    BY DEF Adopt!Start, Adopt!data, AdoptInv, DataOK
<1>1. PICK op \in Ops, m \in Models, p \in Parents, i \in Adopt!Ids, c \in Categories :
         req' = [req EXCEPT ![r] = [Adopt!Idle EXCEPT !.op = op, !.pc = op, !.n = begun + 1,
                      !.what = IF op \in {"adopt", "fork"} THEN m ELSE None,
                      !.from = IF op \in {"link", "unlink"} THEN p ELSE
                               IF op = "adopt" THEN ParentOf[m] ELSE None,
                      !.id = IF op \in {"drop", "edit", "remove"} THEN i ELSE 0,
                      !.name = IF op = "edit" THEN c ELSE None]]
    BY DEF Adopt!Start
<1> DEFINE what == IF op \in {"adopt", "fork"} THEN m ELSE None
           from == IF op \in {"link", "unlink"} THEN p ELSE IF op = "adopt" THEN ParentOf[m] ELSE None
           id == IF op \in {"drop", "edit", "remove"} THEN i ELSE 0
           name == IF op = "edit" THEN c ELSE None
           q == [op |-> op, pc |-> op, n |-> begun + 1, what |-> what, from |-> from, id |-> id, name |-> name,
                 seen |-> {}, goal |-> {}, erased |-> {}, own |-> {}, todo |-> {}, made |-> {}, outcome |-> None]
<1>2. ReqMoves(r) /\ req'[r] = q
    BY <1>1 DEF ReqMoves, AdoptInv, Adopt!Idle
<1>3. /\ op \in Adopt!AllOps /\ op \in Adopt!Steps /\ begun + 1 \in Nat /\ what \in Models \cup {None}
      /\ from \in Parents \cup {None} /\ id \in Nat /\ name \in Categories \cup {None}
    BY <1>0 DEF Adopt!AdoptionAssumption, Adopt!Steps, Adopt!Ids
<1>4. /\ op \in {"adopt", "fork"} => what \in Models
      /\ op \in {"link", "unlink", "adopt"} => from \in Parents
      /\ op = "adopt" => from = ParentOf[what]
      /\ op \in {"edit", "remove", "drop"} => id \in Adopt!Ids
      /\ op = "edit" => name \in Categories
    BY DEF Adopt!AdoptionAssumption
<1> HIDE DEF what, from, id, name
<1>5. q \in Request
    BY <1>3 DEF Request
<1>f. /\ q.op = op /\ q.pc = op /\ q.what = what /\ q.from = from /\ q.id = id /\ q.name = name
      /\ q.made = {} /\ q.goal = {} /\ q.outcome = None
    OBVIOUS
<1> HIDE DEF q
<1>6. RequestOK(q, given)
    BY <1>3, <1>4, <1>5, <1>f DEF RequestOK, Belongs, Knows, Drops, Replacing, Adopt!AllOps
<1>7. AloneOK(req[r])'
    BY <1>2, <1>3, <1>f DEF AloneOK, ReplaceOK, ForkOK, RemoveOK, LinkOK, UnlinkOK, Replacing, Linking,
                            UnlinkSteps, Adopt!AllOps
<1>8. DataOK' /\ given.model <= given'.model /\ RequestOK(req[r], given)'
    BY <1>0, <1>2, <1>6 DEF AdoptInv, DataOK, AdoptionRows
<1>9. inTurn => Vouched' /\ ForkedOnce'
    BY <1>0 DEF AdoptInv, SerialInv, Vouched, ForkedOnce, Adopt!Receipts
<1> QED
    BY <1>0, <1>2, <1>7, <1>8, <1>9, OtherRequests

\* The numbers of an initial segment.
LEMMA Segment ==
    ASSUME NEW n \in Nat, NEW S, S \subseteq 1..n, \A i \in S : \A j \in 1..n : j <= i => j \in S
    PROVE  Cardinality(S) \in Nat /\ \A i \in S : i <= Cardinality(S)
<1>1. IsFiniteSet(1..n)
    BY FS_Interval
<1>2. IsFiniteSet(S) /\ Cardinality(S) \in Nat
    BY <1>1, FS_Subset, FS_CardinalityType
<1>3. ASSUME NEW i \in S
      PROVE  i <= Cardinality(S)
    <2>1. i \in Nat /\ 1..i \subseteq S
        OBVIOUS
    <2>2. Cardinality(1..i) = i
        <3>1. Cardinality(1..i) = IF 1 > i THEN 0 ELSE i - 1 + 1
            BY <2>1, FS_Interval
        <3> QED
            BY <3>1, <2>1
    <2> QED
        BY <1>2, <2>1, <2>2, FS_Subset
<1> QED
    BY <1>2, <1>3

LEMMA CategoriesGiven ==
    ASSUME Adopt!AdoptionAssumption, local \in [Adopt!Ids -> Categories \cup {None}], NEW C,
           {local[i] : i \in Adopt!Ids} \ {None} = C,
           \A i \in Adopt!Ids : local[i] # None <=> i <= Cardinality(C)
    PROVE  LET S == {i \in Adopt!Ids : local[i] # None} IN Cardinality(S) \in Nat /\ \A i \in S : i <= Cardinality(S)
<1> DEFINE S == {i \in Adopt!Ids : local[i] # None}
           T == {local[i] : i \in Adopt!Ids}
<1>1. MaxIds \in Nat
    BY DEF Adopt!AdoptionAssumption
<1>2. IsFiniteSet(Adopt!Ids)
    BY <1>1, FS_Interval DEF Adopt!Ids
<1>3. IsFiniteSet(T)
    <2>1. local \in Surjection(Adopt!Ids, T)
        BY DEF Surjection
    <2> QED
        BY <1>2, <2>1, FS_Surjection
<1>4. Cardinality(C) \in Nat
    <2>1. C \subseteq T
        OBVIOUS
    <2> QED
        BY <1>3, <2>1, FS_Subset, FS_CardinalityType
<1>5. S \subseteq 1..MaxIds /\ \A i \in S : \A j \in 1..MaxIds : j <= i => j \in S
    BY <1>1, <1>4 DEF Adopt!Ids
<1> HIDE DEF S
<1>6. Cardinality(S) \in Nat /\ \A i \in S : i <= Cardinality(S)
    BY <1>1, <1>5, Segment
<1> QED
    BY <1>6 DEF S

LEMMA AdoptInitOK ==
    ASSUME Adopt!AdoptionAssumption, Adopt!Init
    PROVE  AdoptInv
<1> DEFINE S == {i \in Adopt!Ids : local[i] # None}
<1>0. /\ used = {} /\ models = {} /\ forks = {} /\ begun = 0
      /\ given = [category |-> Cardinality(S), model |-> 0]
      /\ req = [r \in Requests |-> Adopt!Idle]
    BY Counting DEF Adopt!Init
<1>1. \A r \in Requests : req[r] = Adopt!Idle /\ req[r].pc = "idle"
    BY <1>0 DEF Adopt!Idle
<1>2. RequestOK(Adopt!Idle, given)
    <2>1. Adopt!Idle \in Request
        BY DEF Adopt!Idle, Request, Adopt!Steps
    <2>2. Adopt!Idle.pc = "idle"
        BY DEF Adopt!Idle
    <2> QED
        BY <2>1, <2>2 DEF RequestOK, Belongs, Knows, Replacing
<1>3. \A r \in Requests : AloneOK(req[r])
    BY <1>1 DEF AloneOK, ReplaceOK, ForkOK, RemoveOK, LinkOK, UnlinkOK, Replacing, Linking, UnlinkSteps
<1>4. /\ linked \subseteq Parents /\ table \subseteq AdoptionRows /\ Vouched
      /\ local \in [Adopt!Ids -> Categories \cup {None}]
      /\ Cardinality(S) \in Nat /\ \A i \in S : i <= Cardinality(S)
    <2>a. CASE linked = {} /\ table = {} /\ local = [i \in Adopt!Ids |-> None]
        <3>1. S = {}
            BY <2>a
        <3>2. Cardinality(S) = 0
            BY <3>1, FS_EmptySet
        <3> HIDE DEF S
        <3> QED
            BY <2>a, <3>1, <3>2 DEF Vouched, Adopt!Receipts, Adopt!Keys
    <2>b. ASSUME NEW p \in Parents, NEW m \in Models,
                 ParentOf[m] = p, linked = {p},
                 table = {<<[what |-> c, from |-> p], 0>> : c \in CategoriesOf[p] \cup {m}},
                 local \in {f \in [Adopt!Ids -> Categories \cup {None}] :
                              /\ {f[i] : i \in Adopt!Ids} \ {None} = CategoriesOf[p]
                              /\ \A i \in Adopt!Ids : f[i] # None <=> i <= Cardinality(CategoriesOf[p])}
          PROVE  /\ linked \subseteq Parents /\ table \subseteq AdoptionRows /\ Vouched
                 /\ local \in [Adopt!Ids -> Categories \cup {None}]
                 /\ Cardinality(S) \in Nat /\ \A i \in S : i <= Cardinality(S)
        <3>1. /\ local \in [Adopt!Ids -> Categories \cup {None}] /\ {local[i] : i \in Adopt!Ids} \ {None} = CategoriesOf[p]
              /\ \A i \in Adopt!Ids : local[i] # None <=> i <= Cardinality(CategoriesOf[p])
            BY <2>b
        <3>2. Cardinality(S) \in Nat /\ \A i \in S : i <= Cardinality(S)
            BY <3>1, CategoriesGiven
        <3>3. \A c \in CategoriesOf[p] \cup {m} : [what |-> c, from |-> p] \in Adopt!Receipt
            BY <2>b DEF Adopt!AdoptionAssumption, Adopt!Receipt
        <3>4. table \subseteq AdoptionRows
            BY <2>b, <3>3 DEF AdoptionRows
        <3>5. Vouched
            BY <2>b DEF Vouched, Adopt!Receipts, Adopt!Keys
        <3> QED
            BY <2>b, <3>1, <3>2, <3>4, <3>5
    <2> QED
        BY Counting, <2>a, <2>b DEF Adopt!Init
<1>5. DataOK
    BY <1>0, <1>4 DEF DataOK
<1>6. SerialInv
    BY <1>0, <1>1, <1>3, <1>4 DEF SerialInv, Alone, ForkedOnce
<1> QED
    BY <1>0, <1>1, <1>2, <1>5, <1>6 DEF AdoptInv

LEMMA AdoptNextOK ==
    ASSUME Adopt!AdoptionAssumption, AdoptInv, [Adopt!Next]_(Adopt!vars)
    PROVE  AdoptInv'
<1>1. CASE UNCHANGED Adopt!vars
    BY <1>1 DEF Adopt!vars, AdoptInv, DataOK, AdoptionRows, SerialInv, Alone, Vouched, ForkedOnce, Adopt!Receipts,
                AloneOK, RequestOK
<1>2. CASE Adopt!Place
    BY <1>2, PlaceOK
<1>3. ASSUME NEW r \in Requests, Adopt!Step(r)
      PROVE  AdoptInv'
    BY <1>3, EraseOK, ErasedOK, InsertOK, CommitOK, AdoptOK, ForkStepOK, CreateForkOK, RecordForkOK, DropOK,
       EditOK, RemoveStepOK, ReassignOK, RemovingOK, DetachOK, LinkStepOK, ReadCategoriesOK, CopyCategoryOK,
       ListReceiptsOK, UnlinkStepOK, ListCopiesOK, DeleteCopiesOK, UnlinkingOK, CleanUpOK
       DEF Adopt!Step
<1> QED
    BY <1>1, <1>2, <1>3, StartOK, FailsOK, DiesOK DEF Adopt!Next

\* The requests keep it: whatever runs at once, their own records; one after the other,
\* what the receipts, links, forks and uses have to do with the request under way.
LEMMA AdoptionKeeps ==
    ASSUME Adopt!AdoptionAssumption
    PROVE  Adopt!Init /\ [][Adopt!Next]_(Adopt!vars) => []AdoptInv
<1>1. Adopt!Init => AdoptInv
    BY AdoptInitOK
<1>2. AdoptInv /\ [Adopt!Next]_(Adopt!vars) => AdoptInv'
    BY AdoptNextOK
<1> QED
    BY <1>1, <1>2, PTL

\* Only a commit writes receipts.
LEMMA OnlyCommitWrites ==
    ASSUME [Adopt!Next]_(Adopt!vars), table' # table
    PROVE  \E r \in Requests : Adopt!Commit(r)
<1>1. CASE UNCHANGED Adopt!vars
    BY <1>1 DEF Adopt!vars
<1>2. CASE Adopt!Place
    BY <1>2 DEF Adopt!Place
<1>3. ASSUME NEW r \in Requests, Adopt!Start(r) \/ Adopt!Fails(r) \/ Adopt!Dies(r)
      PROVE  FALSE
    BY <1>3 DEF Adopt!Start, Adopt!Fails, Adopt!Dies, Adopt!data
<1>4. ASSUME NEW r \in Requests, Adopt!Step(r)
      PROVE  Adopt!Commit(r)
    <2> USE DEF Adopt!data
    <2>1. CASE Adopt!Erase(r) \/ Adopt!Erased(r) \/ Adopt!Insert(r) \/ Adopt!Adopt(r) \/ Adopt!Fork(r)
               \/ Adopt!CreateFork(r)
        BY <2>1 DEF Adopt!Erase, Adopt!Erased, Adopt!Insert, Adopt!Adopt, Adopt!Fork, Adopt!CreateFork
    <2>2. CASE Adopt!RecordFork(r) \/ Adopt!Drop(r) \/ Adopt!Edit(r) \/ Adopt!Remove(r)
               \/ Adopt!RemoveAndReassign(r) \/ Adopt!Removing(r) \/ Adopt!Detach(r)
        BY <2>2 DEF Adopt!RecordFork, Adopt!Drop, Adopt!Edit, Adopt!Remove, Adopt!RemoveAndReassign,
                    Adopt!Removing, Adopt!Detach
    <2>3. CASE Adopt!Link(r) \/ Adopt!ReadCategories(r) \/ Adopt!CopyCategory(r) \/ Adopt!ListReceipts(r)
        BY <2>3 DEF Adopt!Link, Adopt!ReadCategories, Adopt!CopyCategory, Adopt!ListReceipts
    <2>4. CASE Adopt!Unlink(r) \/ Adopt!ListCopies(r) \/ Adopt!DeleteCopies(r) \/ Adopt!Unlinking(r)
               \/ Adopt!CleanUp(r)
        BY <2>4 DEF Adopt!Unlink, Adopt!ListCopies, Adopt!DeleteCopies, Adopt!Unlinking, Adopt!CleanUp
    <2> QED
        BY <1>4, <2>1, <2>2, <2>3, <2>4 DEF Adopt!Step
<1> QED
    BY <1>1, <1>2, <1>3, <1>4 DEF Adopt!Next

\* x is lost to the commit of r, in one of the ways it may be.
LostTo(x, r) ==
    Adopt!Commits(r) /\
       \/ x \notin req[r].seen
       \/ req[r].op = "unlink" /\ ~Adopt!OfModel(x) /\ x.from = req[r].from
       \/ req[r].op \in {"edit", "remove"} /\ (Adopt!OfModel(x) \/ x.what = req[r].name)

LEMMA LostToCommit ==
    ASSUME Adopt!AdoptionAssumption, AdoptInv, [Adopt!Next]_(Adopt!vars),
           NEW x \in Adopt!Receipts \ Adopt!Keys(table')
    PROVE  \E r \in Requests : LostTo(x, r)
<1>1. table' # table
    BY DEF Adopt!Receipts
<1>2. PICK r \in Requests : Adopt!Commit(r)
    BY <1>1, OnlyCommitWrites
<1> DEFINE q == req[r]
<1>3. q.pc = "commit" /\ q.own \subseteq table'
    BY <1>2 DEF Adopt!Commit
<1>4. RequestOK(q, given) /\ q \in Request
    BY KnownOfRequest DEF RequestOK
<1>5. Adopt!Keys(q.own) = q.goal /\ Drops(q) /\ q.outcome = None
    BY <1>3, <1>4 DEF RequestOK, Knows, Replacing
<1>6. x \notin q.goal
    BY <1>3, <1>5 DEF Adopt!Keys
<1>7. Adopt!Commits(r)
    <2>1. CASE q.op = "unlink"
        <3>1. req'[r].pc = "delete" /\ req'[r].outcome = q.outcome
            BY <1>2, <1>4, <2>1 DEF Adopt!Commit, AdoptInv, Request
        <3>2. None # "error"
            BY DEF Adopt!AdoptionAssumption, Adopt!Outcomes
        <3> QED
            BY <1>3, <1>5, <3>1, <3>2 DEF Adopt!Commits
    <2>2. CASE q.op # "unlink"
        <3>1. req'[r].pc = "idle" /\ req'[r].outcome = "ok"
            BY <1>2, <2>2 DEF Adopt!Commit, Adopt!Done, AdoptInv, Adopt!Idle
        <3> QED
            BY <1>3, <3>1 DEF Adopt!Commits
    <2> QED
        BY <2>1, <2>2
<1> QED
    BY <1>5, <1>6, <1>7 DEF Drops, LostTo

\* What a commit takes away it had listed and meant to take away, or never listed
\* (ReplaceForContext of adoption_store.go).
LEMMA LostOnlyToStaleListHolds ==
    ASSUME Adopt!AdoptionAssumption
    PROVE  Adopt!Init /\ [][Adopt!Next]_(Adopt!vars) => Adopt!LostOnlyToStaleList
<1>1. AdoptInv /\ [Adopt!Next]_(Adopt!vars) =>
        \A x \in Adopt!Receipts \ Adopt!Keys(table') : \E r \in Requests : Adopt!Commits(r) /\
           \/ x \notin req[r].seen
           \/ req[r].op = "unlink" /\ ~Adopt!OfModel(x) /\ x.from = req[r].from
           \/ req[r].op \in {"edit", "remove"} /\ (Adopt!OfModel(x) \/ x.what = req[r].name)
    BY LostToCommit DEF LostTo
<1> QED
    BY <1>1, AdoptionKeeps, PTL DEF Adopt!LostOnlyToStaleList

LEMMA VouchedHolds ==
    AdoptInv => Adopt!ReceiptsOfParents /\ Adopt!OneForkPerSource
BY DEF AdoptInv, SerialInv, Vouched, ForkedOnce, Adopt!ReceiptsOfParents, Adopt!OneForkPerSource

LEMMA NothingStrandedHolds ==
    ASSUME AdoptInv, inTurn, NEW r \in Requests, NEW x \in Adopt!Receipts, req[r].pc = "unlinking",
           x.from = req[r].from
    PROVE  Adopt!OfModel(x) /\ Adopt!ForkOf(x.what) # {}
<1>1. RequestOK(req[r], given) /\ AloneOK(req[r])
    BY KnownOfRequest
<1>2. req[r].op = "unlink"
    BY <1>1 DEF RequestOK, Belongs
<1>3. UnlinkOK(req[r], table, forks, used) /\ x \in Adopt!Keys(table)
    BY <1>1 DEF AloneOK, Adopt!Receipts
<1>4. Adopt!OfModel(x) /\ \E f \in forks : f.source = x.what
    BY <1>2, <1>3 DEF UnlinkOK, UnlinkSteps, NoCopies
<1> QED
    BY <1>4 DEF Adopt!ForkOf

LEMMA UsedCopyHolds ==
    ASSUME Adopt!AdoptionAssumption, AdoptInv, inTurn, [Adopt!Next]_(Adopt!vars),
           NEW i \in used, local[i] # None, local'[i] = None
    PROVE  i \notin used'
<1>0. local' # local /\ DataOK /\ i \in Adopt!Ids /\ None \notin Categories
    BY DEF AdoptInv, DataOK, Adopt!AdoptionAssumption
<1>1. CASE UNCHANGED Adopt!vars
    BY <1>0, <1>1 DEF Adopt!vars
<1>2. CASE Adopt!Place
    BY <1>0, <1>2 DEF Adopt!Place
<1>3. ASSUME NEW r \in Requests, Adopt!Start(r) \/ Adopt!Fails(r) \/ Adopt!Dies(r)
      PROVE  FALSE
    BY <1>0, <1>3 DEF Adopt!Start, Adopt!Fails, Adopt!Dies, Adopt!data
<1>4. ASSUME NEW r \in Requests, Adopt!Step(r)
      PROVE  i \notin used'
    <2> USE DEF Adopt!data
    <2>q. RequestOK(req[r], given) /\ AloneOK(req[r]) /\ Belongs(req[r]) /\ Knows(req[r], given)
        BY KnownOfRequest DEF RequestOK
    <2>1. CASE Adopt!Erase(r) \/ Adopt!Erased(r) \/ Adopt!Insert(r) \/ Adopt!Adopt(r) \/ Adopt!Fork(r)
               \/ Adopt!CreateFork(r)
        BY <1>0, <2>1 DEF Adopt!Erase, Adopt!Erased, Adopt!Insert, Adopt!Adopt, Adopt!Fork, Adopt!CreateFork
    <2>2. CASE Adopt!RecordFork(r) \/ Adopt!Drop(r) \/ Adopt!Remove(r) \/ Adopt!Detach(r) \/ Adopt!Commit(r)
        BY <1>0, <2>2 DEF Adopt!RecordFork, Adopt!Drop, Adopt!Remove, Adopt!Detach, Adopt!Commit
    <2>3. CASE Adopt!Link(r) \/ Adopt!ReadCategories(r) \/ Adopt!ListReceipts(r)
        BY <1>0, <2>3 DEF Adopt!Link, Adopt!ReadCategories, Adopt!ListReceipts
    <2>4. CASE Adopt!Unlink(r) \/ Adopt!ListCopies(r) \/ Adopt!Unlinking(r)
        BY <1>0, <2>4 DEF Adopt!Unlink, Adopt!ListCopies, Adopt!Unlinking
    <2>5. CASE Adopt!Edit(r)
        <3>1. req[r].pc = "edit" /\ local' = [local EXCEPT ![req[r].id] = req[r].name]
            BY <1>0, <2>5 DEF Adopt!Edit
        <3>2. req[r].name \in Categories
            BY <2>q, <3>1 DEF Knows
        <3> QED
            BY <1>0, <3>1, <3>2 DEF DataOK
    <2>6. CASE Adopt!RemoveAndReassign(r)
        <3>1. local' = [local EXCEPT ![req[r].id] = None]
            BY <2>6 DEF Adopt!RemoveAndReassign
        <3>2. i = req[r].id
            BY <1>0, <3>1 DEF DataOK
        <3> QED
            BY <2>6, <3>2 DEF Adopt!RemoveAndReassign
    <2>7. CASE Adopt!Removing(r)
        <3>1. req[r].pc = "removing" /\ local' = [local EXCEPT ![req[r].id] = None]
            BY <2>7 DEF Adopt!Removing
        <3>2. i = req[r].id
            BY <1>0, <3>1 DEF DataOK
        <3> QED
            BY <2>q, <3>1, <3>2 DEF AloneOK, RemoveOK
    <2>8. CASE Adopt!CopyCategory(r)
        <3>1. PICK c \in req[r].todo, j \in Adopt!Ids : j = given.category + 1 /\ local' = [local EXCEPT ![j] = c]
            BY <2>8 DEF Adopt!CopyCategory
        <3>2. i <= given.category /\ given.category \in Nat
            BY <1>0 DEF DataOK
        <3>3. i # j
            BY <1>0, <3>1, <3>2 DEF Adopt!Ids
        <3> QED
            BY <1>0, <3>1, <3>3 DEF DataOK
    <2>9. CASE Adopt!DeleteCopies(r)
        <3>1. req[r].pc = "delete" /\ local' = [k \in Adopt!Ids |-> IF k \in req[r].todo THEN None ELSE local[k]]
            BY <2>9 DEF Adopt!DeleteCopies
        <3>2. req[r].op = "unlink" /\ i \in req[r].todo
            BY <1>0, <2>q, <3>1 DEF Belongs
        <3> QED
            BY <2>q, <3>1, <3>2 DEF AloneOK, UnlinkOK, UnlinkSteps
    <2>10. CASE Adopt!CleanUp(r)
        <3>1. req[r].pc = "failed" /\ req[r].op # "fork"
              /\ local' = [k \in Adopt!Ids |-> IF k \in req[r].made THEN None ELSE local[k]]
            BY <1>0, <2>10 DEF Adopt!CleanUp
        <3>2. req[r].op = "link" /\ i \in req[r].made
            BY <1>0, <2>q, <3>1 DEF Belongs
        <3> QED
            BY <2>q, <3>1, <3>2 DEF AloneOK, LinkOK, Linking
    <2> QED
        BY <1>4, <2>1, <2>2, <2>3, <2>4, <2>5, <2>6, <2>7, <2>8, <2>9, <2>10 DEF Adopt!Step
<1> QED
    BY <1>1, <1>2, <1>3, <1>4 DEF Adopt!Next

LEMMA CleanForksHolds ==
    ASSUME Adopt!AdoptionAssumption, AdoptInv, inTurn, [Adopt!Next]_(Adopt!vars), NEW f \in forks',
           f.model \notin models'
    PROVE  f \in forks /\ (f.model \in models => \E r \in Requests : req[r].op = "drop")
<1>1. CASE UNCHANGED <<models, forks>>
    BY <1>1
<1>2. ASSUME NEW r \in Requests, Adopt!Step(r), ~UNCHANGED <<models, forks>>
      PROVE  f \in forks /\ (f.model \in models => req[r].op = "drop")
    <2> USE DEF Adopt!data
    <2>q. RequestOK(req[r], given) /\ AloneOK(req[r]) /\ Belongs(req[r]) /\ Knows(req[r], given)
        BY KnownOfRequest DEF RequestOK
    <2>1. CASE Adopt!Erase(r) \/ Adopt!Erased(r) \/ Adopt!Insert(r) \/ Adopt!Commit(r) \/ Adopt!Adopt(r)
               \/ Adopt!Fork(r)
        BY <1>2, <2>1 DEF Adopt!Erase, Adopt!Erased, Adopt!Insert, Adopt!Commit, Adopt!Adopt, Adopt!Fork
    <2>2. CASE Adopt!Edit(r) \/ Adopt!Remove(r) \/ Adopt!RemoveAndReassign(r) \/ Adopt!Removing(r) \/ Adopt!Detach(r)
        BY <1>2, <2>2 DEF Adopt!Edit, Adopt!Remove, Adopt!RemoveAndReassign, Adopt!Removing, Adopt!Detach
    <2>3. CASE Adopt!Link(r) \/ Adopt!ReadCategories(r) \/ Adopt!CopyCategory(r) \/ Adopt!ListReceipts(r)
        BY <1>2, <2>3 DEF Adopt!Link, Adopt!ReadCategories, Adopt!CopyCategory, Adopt!ListReceipts
    <2>4. CASE Adopt!Unlink(r) \/ Adopt!ListCopies(r) \/ Adopt!DeleteCopies(r) \/ Adopt!Unlinking(r)
        BY <1>2, <2>4 DEF Adopt!Unlink, Adopt!ListCopies, Adopt!DeleteCopies, Adopt!Unlinking
    <2>5. CASE Adopt!CreateFork(r)
        BY <2>5 DEF Adopt!CreateFork
    <2>6. CASE Adopt!RecordFork(r)
        <3>1. /\ req[r].pc = "record" /\ models' = models
              /\ forks' = forks \cup {[source |-> req[r].what, model |-> j] : j \in req[r].made}
            BY <2>6 DEF Adopt!RecordFork
        <3>2. req[r].made \subseteq models
            BY <2>q, <3>1 DEF AloneOK, ForkOK
        <3> QED
            BY <3>1, <3>2
    <2>7. CASE Adopt!Drop(r)
        <3>1. req[r].pc = "drop" /\ forks' = forks
            BY <2>7 DEF Adopt!Drop
        <3> QED
            BY <2>q, <3>1 DEF Belongs
    <2>8. CASE Adopt!CleanUp(r)
        <3>1. req[r].pc = "failed" /\ forks' = forks /\ req[r].op = "fork" /\ models' = models \ req[r].made
            BY <1>2, <2>8 DEF Adopt!CleanUp
        <3>2. f.model \notin req[r].made
            BY <2>q, <3>1 DEF AloneOK, ForkOK
        <3> QED
            BY <3>1, <3>2
    <2> QED
        BY <1>2, <2>1, <2>2, <2>3, <2>4, <2>5, <2>6, <2>7, <2>8 DEF Adopt!Step
<1>3. ASSUME ~UNCHANGED <<models, forks>>
      PROVE  \E r \in Requests : Adopt!Step(r)
    <2>1. ~Adopt!Place
        BY <1>3 DEF Adopt!Place
    <2>2. \A r \in Requests : ~Adopt!Start(r) /\ ~Adopt!Fails(r) /\ ~Adopt!Dies(r)
        BY <1>3 DEF Adopt!Start, Adopt!Fails, Adopt!Dies, Adopt!data
    <2>3. Adopt!vars' # Adopt!vars
        BY <1>3 DEF Adopt!vars
    <2> QED
        BY <2>1, <2>2, <2>3 DEF Adopt!Next
<1> QED
    BY <1>1, <1>2, <1>3

\* The promises that need the requests one after the other.
LEMMA AdoptionPromises ==
    ASSUME Adopt!AdoptionAssumption
    PROVE  Adopt!Init /\ [][Adopt!Next]_(Adopt!vars) => /\ []Adopt!ReceiptsOfParents /\ []Adopt!OneForkPerSource
                                    /\ Adopt!NothingStranded /\ Adopt!UsedCopyStays /\ Adopt!CleanForks
<1>1. AdoptInv => Adopt!ReceiptsOfParents /\ Adopt!OneForkPerSource
    BY VouchedHolds
<1>2. AdoptInv => (inTurn => \A r \in Requests : \A x \in Adopt!Receipts :
         req[r].pc = "unlinking" /\ req'[r].outcome = "ok" /\ x.from = req[r].from =>
           Adopt!OfModel(x) /\ Adopt!ForkOf(x.what) # {})
    BY NothingStrandedHolds
<1>3. AdoptInv /\ [Adopt!Next]_(Adopt!vars) => (inTurn => \A i \in used : local[i] # None /\ local'[i] = None =>
       i \notin used')
    BY UsedCopyHolds
<1>4. AdoptInv /\ [Adopt!Next]_(Adopt!vars) => (inTurn => \A f \in forks' : f.model \notin models' =>
         f \in forks /\ (f.model \in models => \E r \in Requests : req[r].op = "drop"))
    BY CleanForksHolds
<1>5. Adopt!Init /\ [][Adopt!Next]_(Adopt!vars) => Adopt!NothingStranded
    BY <1>2, AdoptionKeeps, PTL DEF Adopt!NothingStranded
<1>6. Adopt!Init /\ [][Adopt!Next]_(Adopt!vars) => Adopt!UsedCopyStays
    BY <1>3, AdoptionKeeps, PTL DEF Adopt!UsedCopyStays
<1>7. Adopt!Init /\ [][Adopt!Next]_(Adopt!vars) => Adopt!CleanForks
    BY <1>4, AdoptionKeeps, PTL DEF Adopt!CleanForks
<1>8. Adopt!Init /\ [][Adopt!Next]_(Adopt!vars) => []Adopt!ReceiptsOfParents /\ []Adopt!OneForkPerSource
    BY <1>1, AdoptionKeeps, PTL
<1> QED
    BY <1>5, <1>6, <1>7, <1>8

-----------------------------------------------------------------------------
(* The services together: each takes its own steps or keeps still.         *)

LEMMA PartsBegin ==
    ServicesInit => Adopt!Init /\ Index!Init /\ Editors!Init /\ Pool!Init
BY DEF ServicesInit

LEMMA PartsStep ==
    [ServicesNext]_allVars => /\ [Adopt!Next]_(Adopt!vars) /\ [Index!Next]_(Index!vars)
                              /\ [Editors!Next]_(Editors!vars) /\ [Pool!Next]_(Pool!vars)
BY DEF ServicesNext, allVars, adoptionVars, indexVars, presenceVars, poolVars,
       Adopt!vars, Index!vars, Editors!vars, Pool!vars

\* The four services that are instances behave as their modules say.
THEOREM EachServiceRuns ==
    ServicesSpec => /\ Adopt!Init /\ [][Adopt!Next]_(Adopt!vars)
                    /\ Index!Init /\ [][Index!Next]_(Index!vars)
                    /\ Editors!Init /\ [][Editors!Next]_(Editors!vars)
                    /\ Pool!Init /\ [][Pool!Next]_(Pool!vars)
BY PartsBegin, PartsStep, PTL DEF ServicesSpec

\* The limits hold for every limit and every number of entries, sessions and saves:
\* the cache of indexes keeps to its soft cap (evictLocked of
\* ontology/autocomplete/cache.go), an actor to maxSessionsPerActor
\* (evictOldestSession of override/presence.go), and no connection of the pool is
\* without a save that will give it back (WithAdvisoryLock of
\* override/store_postgres.go).
THEOREM ServicesKeepLimits ==
    ASSUME ServicesAssumption
    PROVE  ServicesSpec => []LimitsHold
<1>1. Index!IndexCacheAssumption /\ Editors!PresenceAssumption /\ Pool!SavePoolAssumption
    BY DEF ServicesAssumption
<1>2. Index!Init /\ [][Index!Next]_(Index!vars) => []Index!CapKept
    BY <1>1, CapKeptHolds
<1>3. Editors!Init /\ [][Editors!Next]_(Editors!vars) => []Editors!SessionsCapped
    BY <1>1, SessionsCappedHolds DEF PresenceSpec
<1>4. Pool!Init /\ [][Pool!Next]_(Pool!vars) => []Pool!NoConnectionLeaks
    BY <1>1, NoConnectionLeaksHolds
<1>5. Index!CapKept /\ Editors!SessionsCapped /\ Pool!NoConnectionLeaks => LimitsHold
    BY DEF LimitsHold
<1> QED
    BY <1>2, <1>3, <1>4, <1>5, EachServiceRuns, PTL

\* Neither the cache nor an answer has an index from before an import of which the
\* cache had been told, for any number of projects, versions, requests and imports
\* (put, InvalidateForVersion and For of ontology/autocomplete/cache.go).
THEOREM IndexStaysFresh ==
    ASSUME ServicesAssumption
    PROVE  ServicesSpec => []IndexIsFresh
<1>1. Index!IndexCacheAssumption
    BY DEF ServicesAssumption
<1>2. Index!Init /\ [][Index!Next]_(Index!vars) => []Index!NoStaleEntry /\ []Index!AnswersAreFresh
    BY <1>1, NoStaleEntryHolds, FreshAnswers
<1>3. Index!NoStaleEntry /\ Index!AnswersAreFresh => IndexIsFresh
    BY DEF IndexIsFresh
<1> QED
    BY <1>2, <1>3, EachServiceRuns, PTL

\* A beat of a new session at the cap pushes out the one seen longest ago, whatever
\* the order in which the map is walked (evictOldestSession of override/presence.go),
\* as long as no session without an id is among the open ones.
THEOREM OldestIsEvicted ==
    ASSUME ServicesAssumption
    PROVE  ServicesSpec => EvictsOldest
<1>1. Editors!PresenceAssumption
    BY DEF ServicesAssumption
<1>2. Editors!Init /\ [][Editors!Next]_(Editors!vars) => Editors!EvictsOldest
    BY <1>1, EvictsOldestHolds DEF PresenceSpec
<1> QED
    BY <1>2, EachServiceRuns DEF EvictsOldest

\* Beats, departures and the sweep of other posts never hide an editor whose latest
\* beat is in time (Beat, Leave and Others of override/presence.go).
THEOREM EditorsAreShown ==
    ASSUME ServicesAssumption
    PROVE  ServicesSpec => LastBeatShown
<1>1. Editors!PresenceAssumption
    BY DEF ServicesAssumption
<1>2. Editors!Init /\ [][Editors!Next]_(Editors!vars) => Editors!LastBeatShown
    BY <1>1, LastBeatShownHolds DEF PresenceSpec
<1> QED
    BY <1>2, EachServiceRuns DEF LastBeatShown

\* With requests one after the other, a receipt of a copied category always has its
\* parent's link, wherever a request fails or dies (settings/handler.go,
\* project/adoption.go).
THEOREM ParentsVouchForReceipts ==
    ASSUME ServicesAssumption
    PROVE  ServicesSpec => []ReceiptsOfParents
<1>1. Adopt!AdoptionAssumption
    BY DEF ServicesAssumption
<1>2. Adopt!Init /\ [][Adopt!Next]_(Adopt!vars) => []Adopt!ReceiptsOfParents
    BY <1>1, AdoptionPromises, PTL
<1>3. Adopt!ReceiptsOfParents => ReceiptsOfParents
    BY DEF ReceiptsOfParents
<1> QED
    BY <1>2, <1>3, EachServiceRuns, PTL

\* Any number of requests at once lose receipts only by writing over what was written
\* after they had listed them (ReplaceForContext of adoption_store.go).
THEOREM ReceiptsLostToStaleList ==
    ASSUME ServicesAssumption
    PROVE  ServicesSpec => LostOnlyToStaleList
<1>1. Adopt!AdoptionAssumption
    BY DEF ServicesAssumption
<1>2. Adopt!Init /\ [][Adopt!Next]_(Adopt!vars) => Adopt!LostOnlyToStaleList
    BY <1>1, LostOnlyToStaleListHolds
<1> QED
    BY <1>2, EachServiceRuns DEF LostOnlyToStaleList

\* Removing a parent strands nothing adopted from it
\* (receiptOnlyAdoptionRemovalBlockers of settings/handler.go), and no category with
\* placements goes without another taking them (Delete of category/service.go).
THEOREM RemovalStaysSafe ==
    ASSUME ServicesAssumption
    PROVE  ServicesSpec => RemovalIsSafe
<1>1. Adopt!AdoptionAssumption
    BY DEF ServicesAssumption
<1>2. Adopt!Init /\ [][Adopt!Next]_(Adopt!vars) => Adopt!NothingStranded /\ Adopt!UsedCopyStays
    BY <1>1, AdoptionPromises
<1> QED
    BY <1>2, EachServiceRuns DEF RemovalIsSafe

\* A source has one fork, and what fails while forking takes away no model that is
\* recorded as a fork (ForkFromSource of model/service.go).
THEOREM ForksStay ==
    ASSUME ServicesAssumption
    PROVE  ServicesSpec => ForksAreKept
<1>1. Adopt!AdoptionAssumption
    BY DEF ServicesAssumption
<1>2. Adopt!Init /\ [][Adopt!Next]_(Adopt!vars) => []Adopt!OneForkPerSource /\ Adopt!CleanForks
    BY <1>1, AdoptionPromises
<1> QED
    BY <1>2, EachServiceRuns DEF ForksAreKept
=============================================================================
