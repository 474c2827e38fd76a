------------------------- MODULE OverrideRowsProofs -------------------------
(***************************************************************************)
(* Row identity, for any drafts, tables and numbers of saves.  Diff and     *)
(* write classify the rows of a draft independently of each other; they     *)
(* agree because the draft that both are given has been stamped, and to     *)
(* match a stamped draft once more changes nothing.                         *)
(***************************************************************************)
EXTENDS OverrideRows, FiniteSetTheorems, TLAPS

-----------------------------------------------------------------------------
(* Numbers and ranks.                                                      *)

\* A set of numbers that is not empty has a least one.
LEMMA Least ==
    ASSUME NEW S \in SUBSET Nat, S # {}
    PROVE  \E x \in S : \A y \in S : x <= y
<1>1. PICK x \in S : \A y \in S : ~ (<<y, x>> \in OpToRel(<, Nat))
    BY NatLessThanWellFounded, WFMin
<1>2. \A y \in S : x <= y
  <2> TAKE y \in S
  <2>1. ~ (y < x)
    BY <1>1 DEF OpToRel
  <2> QED
    BY <2>1
<1> QED
    BY <1>2

\* A one-to-one numbering of a finite set with numbers below its size uses all
\* of them.
LEMMA Onto ==
    ASSUME NEW S, IsFiniteSet(S), NEW f \in [S -> Nat],
           \A x \in S : f[x] < Cardinality(S),
           \A x, y \in S : f[x] = f[y] => x = y,
           NEW k \in Nat, k < Cardinality(S)
    PROVE  \E x \in S : f[x] = k
<1>1. PICK n \in Nat : n = Cardinality(S)
    BY FS_CardinalityType
<1> DEFINE T == 0 .. (n - 1)
<1>2. IsFiniteSet(T) /\ Cardinality(T) = n
    <2>1. 0 \in Int /\ n - 1 \in Int
        OBVIOUS
    <2>2. IsFiniteSet(T) /\ Cardinality(T) = IF 0 > n - 1 THEN 0 ELSE (n - 1) - 0 + 1
        BY <2>1, FS_Interval
    <2> QED
        BY <2>2
<1>3. f \in Injection(S, T)
    BY <1>1 DEF Injection, IsInjective
<1>4. k \in T
    BY <1>1
<1> HIDE DEF T
<1>5. f \in Surjection(S, T)
    BY <1>1, <1>2, <1>3, FS_Injection
<1> QED
    BY <1>4, <1>5 DEF Surjection

\* Members of a finite set of numbers, ordered by position and then by number.
HasPos(S, row) == \A x \in S : row[x].pos \in Nat
Before(row, y, x) == row[y].pos < row[x].pos \/ (row[y].pos = row[x].pos /\ y < x)

\* Among numbers that have positions, each has a rank of its own below their
\* number.
LEMMA RankIs ==
    ASSUME NEW S \in SUBSET Nat, IsFiniteSet(S), NEW row, HasPos(S, row)
    PROVE  /\ \A x \in S : Rank(x, S, row) \in Nat /\ Rank(x, S, row) < Cardinality(S)
           /\ \A x, y \in S : Before(row, y, x) => Rank(y, S, row) < Rank(x, S, row)
<1> DEFINE Prior(x) == {y \in S : Before(row, y, x)}
<1>1. \A x \in S : Rank(x, S, row) = Cardinality(Prior(x))
    BY DEF Rank, Before
<1>2. ASSUME NEW x \in S
      PROVE  IsFiniteSet(Prior(x)) /\ Cardinality(Prior(x)) \in Nat
    BY FS_Subset, FS_CardinalityType
<1>3. ASSUME NEW x \in S, NEW T \in SUBSET S, Prior(x) \cup {x} \subseteq T
      PROVE  Cardinality(Prior(x)) < Cardinality(T)
    <2>1. x \notin Prior(x)
        BY DEF Before, HasPos
    <2>2. /\ IsFiniteSet(Prior(x) \cup {x})
          /\ Cardinality(Prior(x) \cup {x}) = Cardinality(Prior(x)) + 1
        BY <1>2, <2>1, FS_AddElement
    <2>3. IsFiniteSet(T) /\ Cardinality(T) \in Nat
        BY FS_Subset, FS_CardinalityType
    <2>4. Cardinality(Prior(x) \cup {x}) <= Cardinality(T)
        BY <1>3, <2>3, FS_Subset
    <2> QED
        BY <1>2, <2>2, <2>3, <2>4
<1>4. \A x \in S : Cardinality(Prior(x)) < Cardinality(S)
    BY <1>3
<1>5. ASSUME NEW x \in S, NEW y \in S, Before(row, y, x)
      PROVE  Cardinality(Prior(y)) < Cardinality(Prior(x))
    <2>1. ASSUME NEW z \in S, Before(row, z, y)
          PROVE  Before(row, z, x)
        <3>1. {row[x].pos, row[y].pos, row[z].pos, x, y, z} \subseteq Nat
            BY DEF HasPos
        <3> QED
            BY <1>5, <2>1, <3>1 DEF Before
    <2>2. Prior(y) \cup {y} \subseteq Prior(x)
        BY <1>5, <2>1
    <2> QED
        BY <1>3, <2>2
<1> HIDE DEF Prior
<1> QED
    BY <1>1, <1>2, <1>4, <1>5

\* Ranks are the numbers below the size, each once.
LEMMA Ranks ==
    ASSUME NEW S \in SUBSET Nat, IsFiniteSet(S), NEW row, HasPos(S, row)
    PROVE  /\ \A x \in S : Rank(x, S, row) \in Nat /\ Rank(x, S, row) < Cardinality(S)
           /\ \A x, y \in S : Rank(x, S, row) = Rank(y, S, row) => x = y
           /\ \A k \in Nat : k < Cardinality(S) => \E x \in S : Rank(x, S, row) = k
<1>1. \A x \in S : Rank(x, S, row) \in Nat /\ Rank(x, S, row) < Cardinality(S)
    BY RankIs
<1>2. ASSUME NEW x \in S, NEW y \in S, Rank(x, S, row) = Rank(y, S, row)
      PROVE  x = y
    <2>1. ~Before(row, x, y) /\ ~Before(row, y, x)
        BY <1>1, <1>2, RankIs
    <2>2. {row[x].pos, row[y].pos, x, y} \subseteq Nat
        BY DEF HasPos
    <2> QED
        BY <2>1, <2>2 DEF Before
<1>3. ASSUME NEW k \in Nat, k < Cardinality(S)
      PROVE  \E x \in S : Rank(x, S, row) = k
    <2>1. PICK f \in [S -> Nat] : \A x \in S : f[x] = Rank(x, S, row)
        <3>1. [x \in S |-> Rank(x, S, row)] \in [S -> Nat]
            BY <1>1
        <3> QED
            BY <3>1
    <2>2. \A x \in S : f[x] < Cardinality(S)
        BY <1>1, <2>1
    <2>3. \A x, y \in S : f[x] = f[y] => x = y
        BY <1>2, <2>1
    <2>4. \E x \in S : f[x] = k
        BY <1>3, <2>2, <2>3, Onto
    <2> QED
        BY <2>1, <2>4
<1> QED
    BY <1>1, <1>2, <1>3

-----------------------------------------------------------------------------
(* Matching.                                                               *)

DraftRow == [id: Nat, field: Field, place: Place, pos: Position]

\* A table whose ids were given by a sequence that has come to n.
IsTable(t, n) == DOMAIN t \subseteq 1 .. n /\ t \in [DOMAIN t -> Row]

\* What a table is, in the terms the proofs need.
LEMMA TableIs ==
    ASSUME NEW n \in Nat, NEW ex, IsTable(ex, n)
    PROVE  /\ DOMAIN ex \subseteq Nat /\ 0 \notin DOMAIN ex /\ IsFiniteSet(DOMAIN ex)
           /\ \A e \in DOMAIN ex : ex[e] \in Row /\ ex[e].pos \in Nat
<1>1. DOMAIN ex \subseteq Nat /\ 0 \notin DOMAIN ex
    BY DEF IsTable
<1>2. IsFiniteSet(1 .. n)
    BY FS_Interval
<1>3. IsFiniteSet(DOMAIN ex)
    BY <1>2, FS_Subset DEF IsTable
<1>4. \A e \in DOMAIN ex : ex[e] \in Row /\ ex[e].pos \in Nat
    BY OverrideRowsAssumption DEF IsTable, Row
<1> QED
    BY <1>1, <1>3, <1>4

\* What a draft is, in the same terms.
LEMMA DraftIs ==
    ASSUME NEW d \in Seq(DraftRow)
    PROVE  /\ DOMAIN d = 1 .. Len(d) /\ Len(d) \in Nat
           /\ DOMAIN d \subseteq Nat /\ IsFiniteSet(DOMAIN d)
           /\ \A i \in DOMAIN d : d[i] \in DraftRow /\ d[i].pos \in Nat /\ d[i].id \in Nat
<1>1. DOMAIN d = 1 .. Len(d) /\ Len(d) \in Nat /\ \A i \in DOMAIN d : d[i] \in DraftRow
    OBVIOUS
<1>2. IsFiniteSet(1 .. Len(d))
    BY <1>1, FS_Interval
<1>3. \A i \in DOMAIN d : d[i].pos \in Nat /\ d[i].id \in Nat
    BY <1>1, OverrideRowsAssumption DEF DraftRow
<1> QED
    BY <1>1, <1>2, <1>3

\* The rows that are left to be matched by rank.
LEMMA LeftIs ==
    ASSUME NEW n \in Nat, NEW ex, IsTable(ex, n), NEW d \in Seq(DraftRow), NEW key
    PROVE  /\ Free(ex, d, key) \in SUBSET Nat /\ IsFiniteSet(Free(ex, d, key))
           /\ HasPos(Free(ex, d, key), ex)
           /\ Waiting(ex, d, key) \in SUBSET Nat /\ IsFiniteSet(Waiting(ex, d, key))
           /\ HasPos(Waiting(ex, d, key), d)
<1>1. Free(ex, d, key) \subseteq DOMAIN ex /\ Waiting(ex, d, key) \subseteq DOMAIN d
    BY DEF Free, Waiting
<1>2. IsFiniteSet(Free(ex, d, key)) /\ Free(ex, d, key) \in SUBSET Nat
    BY <1>1, TableIs, FS_Subset
<1>3. IsFiniteSet(Waiting(ex, d, key)) /\ Waiting(ex, d, key) \in SUBSET Nat
    BY <1>1, DraftIs, FS_Subset
<1>4. HasPos(Free(ex, d, key), ex)
    BY <1>1, TableIs DEF HasPos
<1>5. HasPos(Waiting(ex, d, key), d)
    BY <1>1, DraftIs DEF HasPos
<1> QED
    BY <1>2, <1>3, <1>4, <1>5

\* A row that a draft names is claimed by the first that names it.
Names(ex, d, i) == d[i].id \in DOMAIN ex /\ ex[d[i].id].field = d[i].field

\* If a row of a draft names an existing row, the first to name it claims it.
LEMMA FirstClaims ==
    ASSUME NEW ex, NEW d \in Seq(DraftRow), NEW i \in DOMAIN d, Names(ex, d, i)
    PROVE  \E j \in DOMAIN d : j <= i /\ d[j].id = d[i].id /\ Claims(ex, d, j)
<1> DEFINE S == {j \in DOMAIN d : d[j].id = d[i].id /\ d[j].field = d[i].field}
<1>1. S \in SUBSET Nat /\ i \in S
    BY DraftIs
<1>2. PICK j \in S : \A y \in S : j <= y
    BY <1>1, Least
<1>3. j \in DOMAIN d /\ j <= i /\ d[j].id = d[i].id /\ d[j].field = d[i].field
    BY <1>1, <1>2
<1>4. ASSUME NEW y \in 1 .. (j - 1)
      PROVE  <<d[y].id, d[y].field>> # <<d[j].id, d[j].field>>
    <2>1. y \in DOMAIN d /\ ~(j <= y)
        BY <1>3, DraftIs
    <2>2. y \notin S
        BY <1>2, <2>1
    <2> QED
        BY <1>3, <2>1, <2>2
<1>5. Claims(ex, d, j)
    BY <1>3, <1>4 DEF Names, Claims
<1> QED
    BY <1>3, <1>5

\* What matchOverrides returns.
LEMMA MatchIs ==
    ASSUME NEW ex, NEW d, 0 \notin DOMAIN ex
    PROVE  LET m == matchOverrides(ex, d) IN
           /\ DOMAIN m.update = DOMAIN d
           /\ m.remove = DOMAIN ex \ Range(m.update)
           /\ \A i \in DOMAIN d : Claims(ex, d, i) => m.update[i] = d[i].id
           /\ \A i \in DOMAIN d : ~Claims(ex, d, i) /\ m.update[i] # 0 =>
                /\ m.update[i] \in Free(ex, d, overrideKey(d[i]))
                /\ Rank(m.update[i], Free(ex, d, overrideKey(d[i])), ex)
                     = Rank(i, Waiting(ex, d, overrideKey(d[i])), d)
           /\ \A i \in DOMAIN d : ~Claims(ex, d, i) /\ m.update[i] = 0 =>
                \A e \in Free(ex, d, overrideKey(d[i])) :
                  Rank(e, Free(ex, d, overrideKey(d[i])), ex)
                    # Rank(i, Waiting(ex, d, overrideKey(d[i])), d)
<1> DEFINE F(i) == Free(ex, d, overrideKey(d[i]))
           W(i) == Waiting(ex, d, overrideKey(d[i]))
           mates(i) == {e \in F(i) : Rank(e, F(i), ex) = Rank(i, W(i), d)}
           m == matchOverrides(ex, d)
<1>1. /\ m.update = [i \in DOMAIN d |-> IF Claims(ex, d, i) THEN d[i].id
                                        ELSE IF mates(i) = {} THEN 0
                                        ELSE CHOOSE e \in mates(i) : TRUE]
      /\ m.remove = DOMAIN ex \ Range(m.update)
    BY DEF matchOverrides
<1>2. \A i \in DOMAIN d : ~Claims(ex, d, i) =>
        \/ m.update[i] = 0 /\ mates(i) = {}
        \/ m.update[i] \in mates(i)
    <2> HIDE DEF mates, m
    <2> QED
        BY <1>1
<1>3. \A i \in DOMAIN d : Claims(ex, d, i) => m.update[i] = d[i].id
    <2> HIDE DEF mates, m
    <2> QED
        BY <1>1
<1>4. DOMAIN m.update = DOMAIN d
    <2> HIDE DEF mates, m
    <2> QED
        BY <1>1
<1>5. ASSUME NEW i \in DOMAIN d, ~Claims(ex, d, i), m.update[i] # 0
      PROVE  m.update[i] \in F(i) /\ Rank(m.update[i], F(i), ex) = Rank(i, W(i), d)
    <2>1. m.update[i] \in mates(i)
        BY <1>2, <1>5
    <2> HIDE DEF m
    <2> QED
        BY <2>1
<1>6. ASSUME NEW i \in DOMAIN d, ~Claims(ex, d, i), m.update[i] = 0, NEW e \in F(i)
      PROVE  Rank(e, F(i), ex) # Rank(i, W(i), d)
    <2> SUFFICES ASSUME Rank(e, F(i), ex) = Rank(i, W(i), d)
                 PROVE  FALSE
        OBVIOUS
    <2>1. e \in mates(i)
        OBVIOUS
    <2>2. 0 \in mates(i)
        BY <1>2, <1>6, <2>1
    <2>3. 0 \notin F(i)
        BY DEF Free
    <2> QED
        BY <2>2, <2>3
<1> HIDE DEF m
<1> QED
    BY <1>1, <1>3, <1>4, <1>5, <1>6 DEF m

\* An existing row is updated by one row of the draft at most, and by one of the
\* same field; and where a row of the draft is inserted, no existing row of its
\* key is left over.
LEMMA Matched ==
    ASSUME NEW n \in Nat, NEW ex, IsTable(ex, n), NEW d \in Seq(DraftRow),
           NEW u, u = matchOverrides(ex, d).update
    PROVE  /\ DOMAIN u = DOMAIN d
           /\ \A i \in DOMAIN d : u[i] = 0 \/ (u[i] \in DOMAIN ex /\ ex[u[i]].field = d[i].field)
           /\ \A i, j \in DOMAIN d : u[i] # 0 /\ u[i] = u[j] => i = j
           /\ \A i \in DOMAIN d : u[i] = 0 =>
                \A e \in DOMAIN ex : overrideKey(ex[e]) = overrideKey(d[i]) => \E j \in DOMAIN d : u[j] = e
           /\ matchOverrides(ex, d).remove = DOMAIN ex \ Range(u)
           /\ \A i \in DOMAIN d : Claims(ex, d, i) => u[i] = d[i].id
           /\ \A i \in DOMAIN d : Names(ex, d, i) => \E j \in DOMAIN d : j <= i /\ u[j] = d[i].id
<1> DEFINE F(i) == Free(ex, d, overrideKey(d[i]))
           W(i) == Waiting(ex, d, overrideKey(d[i]))
<1>0. 0 \notin DOMAIN ex
    BY TableIs
<1>1. /\ DOMAIN u = DOMAIN d
      /\ matchOverrides(ex, d).remove = DOMAIN ex \ Range(u)
      /\ \A i \in DOMAIN d : Claims(ex, d, i) => u[i] = d[i].id
      /\ \A i \in DOMAIN d : ~Claims(ex, d, i) /\ u[i] # 0 =>
           u[i] \in F(i) /\ Rank(u[i], F(i), ex) = Rank(i, W(i), d)
      /\ \A i \in DOMAIN d : ~Claims(ex, d, i) /\ u[i] = 0 =>
           \A e \in F(i) : Rank(e, F(i), ex) # Rank(i, W(i), d)
    BY <1>0, MatchIs
<1>2. \A i \in DOMAIN d : Claims(ex, d, i) =>
        u[i] \in DOMAIN ex /\ ex[u[i]].field = d[i].field
    BY <1>1 DEF Claims
<1>3. \A i \in DOMAIN d : ~Claims(ex, d, i) /\ u[i] # 0 =>
        /\ u[i] \in DOMAIN ex /\ overrideKey(ex[u[i]]) = overrideKey(d[i])
        /\ \A j \in DOMAIN d : Claims(ex, d, j) => d[j].id # u[i]
    BY <1>1 DEF Free
<1>4. \A i \in DOMAIN d : u[i] = 0 \/ (u[i] \in DOMAIN ex /\ ex[u[i]].field = d[i].field)
    BY <1>2, <1>3 DEF overrideKey
<1>5. ASSUME NEW i \in DOMAIN d, NEW j \in DOMAIN d, u[i] # 0, u[i] = u[j]
      PROVE  i = j
    <2>1. CASE Claims(ex, d, i) /\ Claims(ex, d, j)
        <3>1. d[i].id = d[j].id /\ d[i].field = d[j].field
            BY <1>1, <1>5, <2>1 DEF Claims
        <3>2. ~(i < j) /\ ~(j < i)
            <4>1. i \in Nat /\ j \in Nat /\ 1 <= i /\ 1 <= j
                BY DraftIs
            <4>2. i < j => i \in 1 .. (j - 1)
                BY <4>1
            <4>3. j < i => j \in 1 .. (i - 1)
                BY <4>1
            <4> QED
                BY <2>1, <3>1, <4>2, <4>3 DEF Claims
        <3> QED
            BY <3>2, DraftIs
    <2>2. CASE ~(Claims(ex, d, i) <=> Claims(ex, d, j))
        BY <1>1, <1>3, <1>5, <2>2
    <2>3. CASE ~Claims(ex, d, i) /\ ~Claims(ex, d, j)
        <3>1. overrideKey(d[i]) = overrideKey(d[j])
            BY <1>3, <1>5, <2>3
        <3>2. W(i) = W(j) /\ F(i) = F(j) /\ i \in W(i) /\ j \in W(i)
            BY <2>3, <3>1 DEF Waiting
        <3>3. Rank(i, W(i), d) = Rank(j, W(i), d)
            BY <1>1, <1>5, <2>3, <3>2
        <3> HIDE DEF W, F
        <3>4. W(i) \in SUBSET Nat /\ IsFiniteSet(W(i)) /\ HasPos(W(i), d)
            BY LeftIs DEF W
        <3> QED
            BY <3>2, <3>3, <3>4, Ranks
    <2> QED
        BY <2>1, <2>2, <2>3
<1>6. ASSUME NEW i \in DOMAIN d, u[i] = 0, NEW e \in DOMAIN ex, overrideKey(ex[e]) = overrideKey(d[i])
      PROVE  \E j \in DOMAIN d : u[j] = e
    <2>1. CASE e \notin F(i)
        BY <1>1, <1>6, <2>1 DEF Free
    <2>2. CASE e \in F(i)
        <3>1. ~Claims(ex, d, i) /\ i \in W(i)
            BY <1>0, <1>2, <1>6 DEF Waiting
        <3>2. \A x \in F(i) : Rank(x, F(i), ex) # Rank(i, W(i), d)
            BY <1>1, <1>6, <3>1
        <3>3. \A j \in W(i) : /\ j \in DOMAIN d /\ ~Claims(ex, d, j) /\ F(j) = F(i) /\ W(j) = W(i)
            BY DEF Waiting
        <3> HIDE DEF W, F
        <3>4. /\ W(i) \in SUBSET Nat /\ IsFiniteSet(W(i)) /\ HasPos(W(i), d)
              /\ F(i) \in SUBSET Nat /\ IsFiniteSet(F(i)) /\ HasPos(F(i), ex)
            BY LeftIs DEF W, F
        <3>5. PICK a \in Nat, b \in Nat, f \in Nat, w \in Nat :
                /\ a = Rank(i, W(i), d) /\ b = Rank(e, F(i), ex)
                /\ f = Cardinality(F(i)) /\ w = Cardinality(W(i)) /\ b < f /\ a < w
            BY <2>2, <3>1, <3>4, Ranks, FS_CardinalityType
        <3>6. ~(a < f)
            BY <3>2, <3>4, <3>5, Ranks
        <3>7. b < w
            BY <3>5, <3>6
        <3>8. PICK j \in W(i) : Rank(j, W(i), d) = b
            BY <3>4, <3>5, <3>7, Ranks
        <3>9. Rank(j, W(j), d) = Rank(e, F(j), ex) /\ e \in F(j) /\ j \in DOMAIN d /\ ~Claims(ex, d, j)
            BY <2>2, <3>3, <3>5, <3>8
        <3>10. u[j] # 0
            BY <1>1, <3>9
        <3>11. u[j] \in F(j) /\ Rank(u[j], F(j), ex) = Rank(e, F(j), ex)
            BY <1>1, <3>9, <3>10
        <3>12. F(j) \in SUBSET Nat /\ IsFiniteSet(F(j)) /\ HasPos(F(j), ex)
            BY LeftIs DEF F
        <3>13. u[j] = e
            BY <3>9, <3>11, <3>12, Ranks
        <3> QED
            BY <3>9, <3>13
    <2> QED
        BY <2>1, <2>2
<1>7. ASSUME NEW i \in DOMAIN d, Names(ex, d, i)
      PROVE  \E j \in DOMAIN d : j <= i /\ u[j] = d[i].id
    BY <1>1, <1>7, FirstClaims
<1> HIDE DEF F, W
<1> QED
    BY <1>1, <1>4, <1>5, <1>6, <1>7

-----------------------------------------------------------------------------
(* Stamped drafts.                                                         *)

\* A draft each of whose rows names the existing row that it updates, and no
\* other row is updated: matching finds nothing new.
Stamped(ex, s) ==
    \A i \in DOMAIN s :
        matchOverrides(ex, s).update[i] = IF Claims(ex, s, i) THEN s[i].id ELSE 0

\* stampMatchedIDs writes the matches into the draft.
LEMMA StampRows ==
    ASSUME NEW n \in Nat, NEW ex, IsTable(ex, n), NEW d \in Seq(DraftRow),
           NEW u, u = matchOverrides(ex, d).update,
           NEW s, s = stampMatchedIDs(d, matchOverrides(ex, d))
    PROVE  /\ s \in Seq(DraftRow) /\ DOMAIN s = DOMAIN d
           /\ \A i \in DOMAIN d :
                /\ s[i].id = IF u[i] = 0 THEN d[i].id ELSE u[i]
                /\ s[i].field = d[i].field /\ overrideKey(s[i]) = overrideKey(d[i])
<1>1. s = [i \in DOMAIN d |-> IF u[i] = 0 THEN d[i] ELSE [d[i] EXCEPT !.id = u[i]]]
    BY DEF stampMatchedIDs
<1>2. ASSUME NEW i \in DOMAIN d
      PROVE  /\ s[i] \in DraftRow
             /\ s[i].id = IF u[i] = 0 THEN d[i].id ELSE u[i]
             /\ s[i].field = d[i].field /\ s[i].place = d[i].place
    <2>1. d[i] \in DraftRow
        BY DraftIs
    <2>2. u[i] = 0 \/ u[i] \in Nat
        BY Matched, TableIs
    <2>3. s[i] = IF u[i] = 0 THEN d[i] ELSE [d[i] EXCEPT !.id = u[i]]
        BY <1>1
    <2> QED
        BY <2>1, <2>2, <2>3 DEF DraftRow
<1>3. s \in Seq(DraftRow)
    <2>1. s \in [1 .. Len(d) -> DraftRow] /\ Len(d) \in Nat
        BY <1>1, <1>2, DraftIs
    <2> QED
        BY <2>1
<1> QED
    BY <1>1, <1>2, <1>3 DEF overrideKey

\* To match a stamped draft once more changes nothing: the write finds what the
\* diff has found.
LEMMA StampIs ==
    ASSUME NEW n \in Nat, NEW ex, IsTable(ex, n), NEW d \in Seq(DraftRow)
    PROVE  Stamped(ex, stampMatchedIDs(d, matchOverrides(ex, d)))
<1>1. PICK u : u = matchOverrides(ex, d).update
    OBVIOUS
<1>2. PICK s : s = stampMatchedIDs(d, matchOverrides(ex, d))
    OBVIOUS
<1>3. PICK v : v = matchOverrides(ex, s).update
    OBVIOUS
<1>4. /\ s \in Seq(DraftRow) /\ DOMAIN s = DOMAIN d
      /\ \A i \in DOMAIN d :
           /\ s[i].id = IF u[i] = 0 THEN d[i].id ELSE u[i]
           /\ s[i].field = d[i].field /\ overrideKey(s[i]) = overrideKey(d[i])
    BY <1>1, <1>2, StampRows
<1>5. /\ \A i \in DOMAIN d : u[i] = 0 \/ (u[i] \in DOMAIN ex /\ ex[u[i]].field = d[i].field)
      /\ \A i, j \in DOMAIN d : u[i] # 0 /\ u[i] = u[j] => i = j
      /\ \A i \in DOMAIN d : u[i] = 0 =>
           \A e \in DOMAIN ex : overrideKey(ex[e]) = overrideKey(d[i]) => \E j \in DOMAIN d : u[j] = e
      /\ \A i \in DOMAIN d : Claims(ex, d, i) => u[i] = d[i].id
      /\ \A i \in DOMAIN d : Names(ex, d, i) => \E j \in DOMAIN d : j <= i /\ u[j] = d[i].id
    BY <1>1, Matched
<1>6. 0 \notin DOMAIN ex /\ \A i \in DOMAIN d : i \in Nat /\ i >= 1
    BY TableIs, DraftIs
<1>7. ASSUME NEW i \in DOMAIN d, u[i] # 0
      PROVE  Claims(ex, s, i)
    <2>1. s[i].id = u[i] /\ s[i].field = d[i].field /\ ex[u[i]].field = d[i].field /\ u[i] \in DOMAIN ex
        BY <1>4, <1>5, <1>7
    <2>2. ASSUME NEW j \in 1 .. (i - 1), s[j].id = s[i].id, s[j].field = s[i].field
          PROVE  FALSE
        <3>1. j \in DOMAIN d /\ j < i
            BY <1>6, DraftIs
        <3>2. u[j] = 0
            BY <1>4, <1>5, <1>7, <2>1, <2>2, <3>1
        <3>3. Names(ex, d, j) /\ d[j].id = u[i]
            BY <1>4, <2>1, <2>2, <3>1, <3>2 DEF Names
        <3>4. PICK k \in DOMAIN d : k <= j /\ u[k] = u[i]
            BY <1>5, <3>1, <3>3
        <3>5. k = i
            BY <1>5, <1>7, <3>4
        <3> QED
            BY <1>6, <3>1, <3>4, <3>5
    <2> QED
        BY <2>1, <2>2 DEF Claims
<1>8. ASSUME NEW i \in DOMAIN d, u[i] = 0
      PROVE  ~Claims(ex, s, i)
    <2> SUFFICES ASSUME Claims(ex, s, i)
                 PROVE  FALSE
        OBVIOUS
    <2>1. s[i].id = d[i].id /\ s[i].field = d[i].field
        BY <1>4, <1>8
    <2>2. Names(ex, d, i)
        BY <2>1 DEF Claims, Names
    <2>3. PICK j \in DOMAIN d : j <= i /\ u[j] = d[i].id
        BY <1>5, <2>2
    <2>4. d[i].id # 0 /\ j # i /\ j \in 1 .. (i - 1)
        BY <1>6, <1>8, <2>2, <2>3 DEF Names
    <2>5. s[j].id = s[i].id /\ s[j].field = s[i].field
        BY <1>4, <1>5, <2>1, <2>2, <2>3, <2>4 DEF Names
    <2> QED
        BY <2>4, <2>5 DEF Claims
<1>9. /\ DOMAIN v = DOMAIN d
      /\ \A i \in DOMAIN d : Claims(ex, s, i) => v[i] = s[i].id
    BY <1>3, <1>4, Matched
<1>10. ASSUME NEW i \in DOMAIN d, u[i] = 0, v[i] # 0
       PROVE  FALSE
    <2>1. v[i] \in Free(ex, s, overrideKey(s[i]))
        BY <1>3, <1>4, <1>6, <1>8, <1>10, MatchIs
    <2>2. v[i] \in DOMAIN ex /\ overrideKey(ex[v[i]]) = overrideKey(d[i])
        BY <1>4, <2>1 DEF Free
    <2>3. PICK j \in DOMAIN d : u[j] = v[i]
        BY <1>5, <1>10, <2>2
    <2>4. Claims(ex, s, j) /\ s[j].id = v[i]
        BY <1>4, <1>7, <1>10, <2>3
    <2> QED
        BY <1>4, <2>1, <2>4 DEF Free
<1>11. \A i \in DOMAIN s : v[i] = IF Claims(ex, s, i) THEN s[i].id ELSE 0
    BY <1>4, <1>7, <1>8, <1>9, <1>10
<1>12. Stamped(ex, s)
    BY <1>3, <1>11 DEF Stamped
<1> QED
    BY <1>2, <1>12

\* What ComputeDiff makes of a stamped draft is what the plan does.
LEMMA StampedDiff ==
    ASSUME NEW n \in Nat, NEW ex, IsTable(ex, n), NEW s \in Seq(DraftRow), Stamped(ex, s),
           NEW u, u = matchOverrides(ex, s).update
    PROVE  /\ \A i \in DOMAIN s : u[i] # 0 => s[i].id = u[i]
           /\ ComputeDiff(ex, s).addedIdx = {i \in DOMAIN s : u[i] = 0}
           /\ ComputeDiff(ex, s).removed = matchOverrides(ex, s).remove
           /\ ComputeDiff(ex, s).changedIdx = {i \in DOMAIN s : u[i] # 0 /\ ex[u[i]] # Content(s[i])}
<1>0. 0 \notin DOMAIN ex
    BY TableIs
<1>1. \A i \in DOMAIN s : u[i] = IF Claims(ex, s, i) THEN s[i].id ELSE 0
    BY DEF Stamped
<1>2. \A i \in DOMAIN s : Claims(ex, s, i) <=> Pairs(ex, s, i)
    BY <1>0 DEF Claims, Pairs
<1>3. \A i \in DOMAIN s : Claims(ex, s, i) => s[i].id # 0
    BY <1>0 DEF Claims
<1>4. {i \in DOMAIN s : Pairs(ex, s, i)} = {i \in DOMAIN s : u[i] # 0}
    BY <1>1, <1>2, <1>3
<1>5. \A i \in DOMAIN s : u[i] # 0 => s[i].id = u[i]
    BY <1>1
<1>6. DOMAIN u = DOMAIN s /\ matchOverrides(ex, s).remove = DOMAIN ex \ Range(u)
    BY Matched
<1>7. PICK paired : paired = {i \in DOMAIN s : u[i] # 0}
    OBVIOUS
<1>8. ComputeDiff(ex, s) = [addedIdx |-> DOMAIN s \ paired,
                            removed |-> DOMAIN ex \ {s[i].id : i \in paired},
                            changedIdx |-> {i \in paired : ex[s[i].id] # Content(s[i])}]
    BY <1>4, <1>7 DEF ComputeDiff
<1>9. DOMAIN ex \ {s[i].id : i \in paired} = DOMAIN ex \ Range(u)
    <2>1. \A e \in DOMAIN ex : e \in {s[i].id : i \in paired} <=> e \in Range(u)
        BY <1>0, <1>5, <1>6, <1>7 DEF Range
    <2> QED
        BY <2>1
<1>10. {i \in paired : ex[s[i].id] # Content(s[i])} = {i \in DOMAIN s : u[i] # 0 /\ ex[u[i]] # Content(s[i])}
    BY <1>5, <1>7
<1> QED
    BY <1>5, <1>6, <1>7, <1>8, <1>9, <1>10

-----------------------------------------------------------------------------
(* The write.                                                              *)

\* A plan is fit for a draft: it updates rows that the sequence has given an id,
\* each once, and those still there with the field they have.
PlanOK(p, d) ==
    /\ DOMAIN p.update = DOMAIN d
    /\ \A i \in DOMAIN d :
         p.update[i] # 0 =>
           /\ p.update[i] \in 1 .. lastId
           /\ p.update[i] \in DOMAIN rows => rows[p.update[i]].field = d[i].field
    /\ \A i, j \in DOMAIN d : p.update[i] # 0 /\ p.update[i] = p.update[j] => i = j

Given(p) == lastId + Cardinality({i \in DOMAIN p.update : p.update[i] = 0})

\* Ids are given to inserted rows in order, and none twice.
LEMMA StoredIs ==
    ASSUME lastId \in Nat, NEW d \in Seq(DraftRow), NEW p, PlanOK(p, d)
    PROVE  /\ DOMAIN StoredIds(p) = DOMAIN d
           /\ Given(p) \in Nat /\ lastId <= Given(p)
           /\ \A i \in DOMAIN d :
                /\ p.update[i] # 0 => StoredIds(p)[i] = p.update[i]
                /\ p.update[i] = 0 => StoredIds(p)[i] \in Nat /\ lastId < StoredIds(p)[i] /\ StoredIds(p)[i] <= Given(p)
           /\ \A i, j \in DOMAIN d : StoredIds(p)[i] = StoredIds(p)[j] => i = j
<1> DEFINE New(i) == {j \in 1 .. i : p.update[j] = 0}
           All == {i \in DOMAIN d : p.update[i] = 0}
           ids == StoredIds(p)
<1>0. DOMAIN d = 1 .. Len(d) /\ Len(d) \in Nat /\ DOMAIN p.update = DOMAIN d /\ IsFiniteSet(DOMAIN d)
    BY DraftIs DEF PlanOK
<1>1. \A i \in DOMAIN d : ids[i] = IF p.update[i] # 0 THEN p.update[i] ELSE lastId + Cardinality(New(i))
    BY <1>0 DEF StoredIds
<1>2. DOMAIN ids = DOMAIN d
    BY <1>0 DEF StoredIds
<1>3. IsFiniteSet(All) /\ Cardinality(All) \in Nat
    BY <1>0, FS_Subset, FS_CardinalityType
<1>4. Given(p) = lastId + Cardinality(All)
    BY <1>0 DEF Given
<1>5. \A i \in DOMAIN d : New(i) \subseteq All
    BY <1>0
<1>6. \A i \in DOMAIN d : IsFiniteSet(New(i)) /\ Cardinality(New(i)) \in Nat /\ Cardinality(New(i)) <= Cardinality(All)
    BY <1>3, <1>5, FS_Subset, FS_CardinalityType
<1>7. ASSUME NEW i \in DOMAIN d, p.update[i] = 0
      PROVE  Cardinality(New(i)) > 0
    <2>1. i \in New(i)
        BY <1>0, <1>7
    <2> HIDE DEF New, All
    <2>2. Cardinality(New(i)) # 0
        BY <1>6, <2>1, FS_EmptySet
    <2> QED
        BY <1>6, <2>2
<1>8. ASSUME NEW i \in DOMAIN d, NEW j \in DOMAIN d, i < j, p.update[j] = 0
      PROVE  Cardinality(New(i)) < Cardinality(New(j))
    <2>1. New(i) \subseteq New(j) /\ j \in New(j) /\ j \notin New(i)
        BY <1>0, <1>8
    <2> HIDE DEF New, All
    <2>2. Cardinality(New(i)) <= Cardinality(New(j)) /\ (Cardinality(New(j)) = Cardinality(New(i)) => New(j) = New(i))
        BY <1>6, <2>1, FS_Subset
    <2> QED
        BY <1>6, <2>1, <2>2
<1> HIDE DEF New, All, ids
<1>9. ASSUME NEW i \in DOMAIN d, p.update[i] = 0
      PROVE  ids[i] \in Nat /\ lastId < ids[i] /\ ids[i] <= Given(p)
    BY <1>1, <1>3, <1>4, <1>6, <1>7, <1>9
<1>10. ASSUME NEW i \in DOMAIN d, NEW j \in DOMAIN d, ids[i] = ids[j], i < j
       PROVE  FALSE
    <2>1. CASE p.update[i] # 0 /\ p.update[j] # 0
        BY <1>1, <1>10, <2>1 DEF PlanOK
    <2>2. CASE p.update[i] # 0 /\ p.update[j] = 0
        BY <1>1, <1>9, <1>10, <2>2 DEF PlanOK
    <2>3. CASE p.update[i] = 0 /\ p.update[j] # 0
        BY <1>1, <1>9, <1>10, <2>3 DEF PlanOK
    <2>4. CASE p.update[i] = 0 /\ p.update[j] = 0
        BY <1>1, <1>6, <1>8, <1>10, <2>4
    <2> QED
        BY <2>1, <2>2, <2>3, <2>4
<1>11. \A i, j \in DOMAIN d : ids[i] = ids[j] => i = j
    <2> SUFFICES ASSUME NEW i \in DOMAIN d, NEW j \in DOMAIN d, ids[i] = ids[j], i # j
                 PROVE  FALSE
        OBVIOUS
    <2>1. i < j \/ j < i
        BY <1>0
    <2> QED
        BY <1>10, <2>1
<1>12. Given(p) \in Nat /\ lastId <= Given(p)
    BY <1>3, <1>4
<1> QED
    BY <1>1, <1>2, <1>9, <1>11, <1>12 DEF ids

\* What a transaction writes: every row of the draft under its id, and the rows
\* that the plan neither removes nor updates as they were.
WriteIs(p, d, ids, W) ==
    /\ DOMAIN W = (DOMAIN rows \ p.remove) \cup Range(ids)
    /\ DOMAIN ids = DOMAIN d
    /\ \A i \in DOMAIN d : ids[i] \in DOMAIN W /\ W[ids[i]] = Content(d[i])
    /\ \A x \in DOMAIN W \ Range(ids) : x \in DOMAIN rows /\ W[x] = rows[x]
    /\ \A x \in DOMAIN W : x <= lastId => x \in DOMAIN rows \/ \E i \in DOMAIN d : p.update[i] = x
    /\ \A x \in DOMAIN W : x \in DOMAIN rows => W[x].field = rows[x].field
    /\ IsTable(W, Given(p))

\* The write of a fit plan is such a write.
LEMMA WrittenIs ==
    ASSUME lastId \in Nat, IsTable(rows, lastId), NEW d \in Seq(DraftRow), NEW p, PlanOK(p, d),
           NEW ids, ids = StoredIds(p), NEW W, W = Written(p, d)
    PROVE  WriteIs(p, d, ids, W)
<1>1. /\ DOMAIN ids = DOMAIN d
      /\ Given(p) \in Nat /\ lastId <= Given(p)
      /\ \A i \in DOMAIN d : p.update[i] # 0 => ids[i] = p.update[i]
      /\ \A i \in DOMAIN d : p.update[i] = 0 => ids[i] \in Nat /\ lastId < ids[i] /\ ids[i] <= Given(p)
      /\ \A i, j \in DOMAIN d : ids[i] = ids[j] => i = j
    BY StoredIs
<1>2. /\ DOMAIN W = (DOMAIN rows \ p.remove) \cup Range(ids)
      /\ \A x \in DOMAIN W \ Range(ids) : x \in DOMAIN rows /\ W[x] = rows[x]
      /\ \A x \in Range(ids) :
           W[x] = LET r == Content(d[CHOOSE i \in DOMAIN d : ids[i] = x])
                  IN IF x \in DOMAIN rows THEN [r EXCEPT !.field = rows[x].field] ELSE r
    BY DEF Written
<1>3. DOMAIN rows \subseteq 1 .. lastId /\ \A x \in DOMAIN rows : rows[x] \in Row
    BY DEF IsTable
<1>4. ASSUME NEW i \in DOMAIN d
      PROVE  /\ ids[i] \in DOMAIN W /\ W[ids[i]] = Content(d[i])
             /\ Content(d[i]) \in Row /\ Content(d[i]).field = d[i].field
    <2>1. ids[i] \in Range(ids)
        BY <1>1 DEF Range
    <2>2. (CHOOSE j \in DOMAIN d : ids[j] = ids[i]) = i
        BY <1>1
    <2>3. W[ids[i]] = IF ids[i] \in DOMAIN rows THEN [Content(d[i]) EXCEPT !.field = rows[ids[i]].field]
                      ELSE Content(d[i])
        BY <1>2, <2>1, <2>2
    <2>4. ids[i] \in DOMAIN rows => rows[ids[i]].field = d[i].field
        BY <1>1, <1>3 DEF PlanOK
    <2>5. Content(d[i]) \in Row /\ Content(d[i]).field = d[i].field
        BY DraftIs DEF Content, Row, DraftRow
    <2>6. [Content(d[i]) EXCEPT !.field = d[i].field] = Content(d[i])
        BY DEF Content
    <2> QED
        BY <1>2, <2>1, <2>3, <2>4, <2>5, <2>6
<1>5. \A x \in Range(ids) : \E i \in DOMAIN d : ids[i] = x
    BY <1>1 DEF Range
<1>6. \A x \in DOMAIN W : x \in 1 .. Given(p) /\ W[x] \in Row
    <2> SUFFICES ASSUME NEW x \in DOMAIN W
                 PROVE  x \in 1 .. Given(p) /\ W[x] \in Row
        OBVIOUS
    <2>1. CASE x \in Range(ids)
        <3>1. PICK i \in DOMAIN d : ids[i] = x
            BY <1>5, <2>1
        <3>2. x \in 1 .. Given(p)
            BY <1>1, <3>1 DEF PlanOK
        <3> QED
            BY <1>4, <3>1, <3>2
    <2>2. CASE x \notin Range(ids)
        BY <1>1, <1>2, <1>3, <2>2
    <2> QED
        BY <2>1, <2>2
<1>7. IsTable(W, Given(p))
    <2>1. W = [x \in DOMAIN W |-> W[x]]
        BY DEF Written
    <2> QED
        BY <1>6, <2>1 DEF IsTable
<1>8. ASSUME NEW x \in DOMAIN W, x \notin DOMAIN rows, x <= lastId
      PROVE  \E i \in DOMAIN d : p.update[i] = x
    <2>1. PICK i \in DOMAIN d : ids[i] = x
        BY <1>2, <1>5, <1>8
    <2> QED
        BY <1>1, <1>8, <2>1
<1>9. ASSUME NEW x \in DOMAIN W, x \in DOMAIN rows
      PROVE  W[x].field = rows[x].field
    <2>1. CASE x \in Range(ids)
        <3>1. PICK i \in DOMAIN d : ids[i] = x
            BY <1>5, <2>1
        <3>2. rows[x].field = d[i].field
            BY <1>1, <1>3, <1>9, <3>1 DEF PlanOK
        <3> QED
            BY <1>4, <3>1, <3>2
    <2>2. CASE x \notin Range(ids)
        BY <1>2, <2>2
    <2> QED
        BY <2>1, <2>2
<1> QED
    BY <1>1, <1>2, <1>4, <1>7, <1>8, <1>9 DEF WriteIs

-----------------------------------------------------------------------------
(* The invariant.                                                          *)

\* What unlocked writers keep as well: ids of the table come from the sequence
\* and are never given twice, and the field of a row never changes.
InvAny ==
    /\ lastId \in Nat /\ IsTable(rows, lastId)
    /\ DOMAIN pc = Writer /\ DOMAIN existing = Writer /\ DOMAIN desired = Writer /\ DOMAIN plan = Writer
    /\ DOMAIN entries = Writer /\ DOMAIN wrote = Writer
    /\ \A w \in Writer : pc[w] \in {"idle", "loaded", "tx", "written"}
    /\ \A w \in Writer : pc[w] # "idle" => desired[w] \in Seq(DraftRow)
    /\ \A w \in Writer : pc[w] = "tx" => PlanOK(plan[w], desired[w])

\* What the entity lock adds: one save at a time, so that the snapshot and the
\* plan of a save are those of the table it writes to, and its draft is stamped.
InvLocked ==
    /\ \A v, w \in Writer : pc[v] # "idle" /\ pc[w] # "idle" => v = w
    /\ \A w \in Writer : pc[w] \in {"loaded", "tx"} => existing[w] = rows /\ Stamped(rows, desired[w])
    /\ \A w \in Writer : pc[w] = "tx" => plan[w] = matchOverrides(rows, desired[w])

\* The table before the first save.
LEMMA EmptyTable == IsTable(<<>>, 0) /\ DOMAIN <<>> = {}
<1>1. DOMAIN <<>> = {} /\ DOMAIN <<>> \subseteq 1 .. 0
    OBVIOUS
<1>2. <<>> \in [DOMAIN <<>> -> Row]
    BY <1>1
<1> QED
    BY <1>1, <1>2 DEF IsTable

\* The drafts of the model are sequences of draft rows.
LEMMA DraftsAre == lastId \in Nat => Draft \subseteq Seq(DraftRow)
<1> SUFFICES ASSUME lastId \in Nat, NEW d \in Draft
             PROVE  d \in Seq(DraftRow)
    OBVIOUS
<1>1. PICK n \in 0 .. MaxRows :
        d \in [1 .. n -> {[id |-> i, field |-> r.field, place |-> r.place, pos |-> r.pos] :
                             i \in 0 .. lastId + 1, r \in Row}]
    BY DEF Draft
<1>2. n \in Nat
    BY OverrideRowsAssumption
<1>3. \A i \in 0 .. lastId + 1, r \in Row :
        [id |-> i, field |-> r.field, place |-> r.place, pos |-> r.pos] \in DraftRow
    BY DEF Row, DraftRow
<1>4. d \in [1 .. n -> DraftRow]
    <2> DEFINE C == {[id |-> i, field |-> r.field, place |-> r.place, pos |-> r.pos] :
                        i \in 0 .. lastId + 1, r \in Row}
    <2>2. C \subseteq DraftRow
        BY <1>3
    <2>3. d \in [1 .. n -> C]
        BY <1>1
    <2> HIDE DEF C
    <2> QED
        BY <2>2, <2>3
<1> QED
    BY <1>2, <1>4

\* A plan made from the table is fit.
LEMMA MatchedOK ==
    ASSUME lastId \in Nat, IsTable(rows, lastId), NEW d \in Seq(DraftRow)
    PROVE  PlanOK(matchOverrides(rows, d), d)
<1>1. PICK u : u = matchOverrides(rows, d).update
    OBVIOUS
<1>2. /\ DOMAIN u = DOMAIN d
      /\ \A i \in DOMAIN d : u[i] = 0 \/ (u[i] \in DOMAIN rows /\ rows[u[i]].field = d[i].field)
      /\ \A i, j \in DOMAIN d : u[i] # 0 /\ u[i] = u[j] => i = j
    BY <1>1, Matched
<1>3. DOMAIN rows \subseteq 1 .. lastId
    BY DEF IsTable
<1> QED
    BY <1>1, <1>2, <1>3 DEF PlanOK

\* A fit plan of another writer is still fit after a commit.
LEMMA OtherPlans ==
    ASSUME InvAny, NEW w \in Writer, TxCommit(w), NEW p, NEW d \in Seq(DraftRow), PlanOK(p, d)
    PROVE  PlanOK(p, d)'
<1>1. PICK q : q = plan[w]
    OBVIOUS
<1>2. PICK e : e = desired[w]
    OBVIOUS
<1>3. lastId \in Nat /\ IsTable(rows, lastId) /\ e \in Seq(DraftRow) /\ PlanOK(q, e)
    BY <1>1, <1>2 DEF InvAny, TxCommit
<1>4. PICK ids : ids = StoredIds(q)
    OBVIOUS
<1>5. rows' = Written(q, e) /\ Range(q.update) \ {0} \subseteq DOMAIN rows
    BY <1>1, <1>2 DEF TxCommit
<1>6. /\ \A x \in DOMAIN rows' : x <= lastId => x \in DOMAIN rows \/ \E i \in DOMAIN e : q.update[i] = x
      /\ \A x \in DOMAIN rows' : x \in DOMAIN rows => rows'[x].field = rows[x].field
    <2>1. PICK W : W = Written(q, e)
        OBVIOUS
    <2>2. /\ \A x \in DOMAIN W : x <= lastId => x \in DOMAIN rows \/ \E i \in DOMAIN e : q.update[i] = x
          /\ \A x \in DOMAIN W : x \in DOMAIN rows => W[x].field = rows[x].field
                <3>1. WriteIs(q, e, ids, W)
            BY <1>3, <1>4, <2>1, WrittenIs
        <3> QED
            BY <3>1 DEF WriteIs
    <2>3. W = rows'
        BY <1>5, <2>1
    <2> QED
        BY <2>2, <2>3
<1>7. lastId' = lastId + Cardinality({i \in DOMAIN e : q.update[i] = 0})
    BY <1>1, <1>2 DEF TxCommit
<1>8. lastId' = Given(q)
    BY <1>3, <1>7 DEF Given, PlanOK
<1>9. lastId' \in Nat /\ lastId <= lastId'
    BY <1>3, <1>8, StoredIs
<1>10. ASSUME NEW x \in DOMAIN rows', x \in 1 .. lastId
       PROVE  x \in DOMAIN rows
    <2>1. CASE \E i \in DOMAIN e : q.update[i] = x
        <3>1. x \in Range(q.update) \ {0}
            BY <1>3, <1>10, <2>1 DEF Range, PlanOK
        <3> QED
            BY <1>5, <3>1
    <2>2. CASE ~\E i \in DOMAIN e : q.update[i] = x
        BY <1>3, <1>6, <1>10, <2>2
    <2> QED
        BY <2>1, <2>2
<1>11. \A x \in 1 .. lastId : x \in 1 .. lastId'
    BY <1>3, <1>9
<1> QED
    BY <1>6, <1>10, <1>11 DEF PlanOK

\* The initial state, and every step, of any writers.
LEMMA AnyInit == Init => InvAny
<1> SUFFICES ASSUME Init PROVE InvAny
    OBVIOUS
<1>1. lastId = 0 /\ rows = <<>>
    BY DEF Init
<1>2. IsTable(rows, lastId)
    BY <1>1, EmptyTable
<1> QED
    BY <1>1, <1>2 DEF Init, InvAny

LEMMA AnyStep == InvAny /\ [Next]_vars => InvAny'
<1> SUFFICES ASSUME InvAny, [Next]_vars
             PROVE  InvAny'
    OBVIOUS
<1>0. lastId \in Nat /\ IsTable(rows, lastId)
    BY DEF InvAny
<1>1. ASSUME NEW w \in Writer, Load(w)
      PROVE  InvAny'
    <2>1. PICK d \in Draft :
             desired' = [desired EXCEPT ![w] = stampMatchedIDs(d, matchOverrides(rows, d))]
        BY <1>1 DEF Load
    <2>2. d \in Seq(DraftRow)
        BY <1>0, DraftsAre
    <2>3. PICK s : s = stampMatchedIDs(d, matchOverrides(rows, d))
        OBVIOUS
    <2>4. s \in Seq(DraftRow)
        BY <1>0, <2>2, <2>3, StampRows
    <2>5. desired' = [desired EXCEPT ![w] = s]
        BY <2>1, <2>3
    <2>6. /\ pc[w] = "idle" /\ pc' = [pc EXCEPT ![w] = "loaded"] /\ DOMAIN existing' = DOMAIN existing
          /\ UNCHANGED <<rows, lastId, plan, entries, wrote>>
        BY <1>1 DEF Load
    <2>7. \A v \in Writer : pc'[v] = "tx" => PlanOK(plan[v], desired[v])'
        <3> SUFFICES ASSUME NEW v \in Writer, pc'[v] = "tx"
                     PROVE  PlanOK(plan[v], desired[v])'
            OBVIOUS
        <3>1. v # w /\ pc[v] = "tx" /\ desired'[v] = desired[v] /\ plan'[v] = plan[v]
            BY <2>5, <2>6 DEF InvAny
        <3>2. PlanOK(plan[v], desired[v])
            BY <3>1 DEF InvAny
        <3> QED
            BY <2>6, <3>1, <3>2 DEF PlanOK
    <2> QED
        BY <2>4, <2>5, <2>6, <2>7 DEF InvAny, IsTable
<1>2. ASSUME NEW w \in Writer, TxRead(w)
      PROVE  InvAny'
    <2>1. PICK q : q = matchOverrides(rows, desired[w])
        OBVIOUS
    <2>2. /\ pc[w] = "loaded" /\ pc' = [pc EXCEPT ![w] = "tx"] /\ plan' = [plan EXCEPT ![w] = q]
          /\ UNCHANGED <<rows, lastId, existing, desired, entries, wrote>>
        BY <1>2, <2>1 DEF TxRead
    <2>3. PlanOK(q, desired[w])
        <3>1. desired[w] \in Seq(DraftRow)
            BY <2>2 DEF InvAny
        <3> QED
            BY <1>0, <2>1, <3>1, MatchedOK
    <2>4. \A v \in Writer : pc'[v] = "tx" => PlanOK(plan[v], desired[v])'
        <3> SUFFICES ASSUME NEW v \in Writer, pc'[v] = "tx"
                     PROVE  PlanOK(plan[v], desired[v])'
            OBVIOUS
        <3>1. PlanOK(plan'[v], desired[v])
            BY <2>2, <2>3 DEF InvAny
        <3> QED
            BY <2>2, <3>1 DEF PlanOK
    <2> QED
        BY <2>2, <2>4 DEF InvAny, IsTable
<1>3. ASSUME NEW w \in Writer, TxCommit(w)
      PROVE  InvAny'
    <2>1. PICK q : q = plan[w]
        OBVIOUS
    <2>2. PICK e : e = desired[w]
        OBVIOUS
    <2>3. e \in Seq(DraftRow) /\ PlanOK(q, e)
        BY <1>3, <2>1, <2>2 DEF InvAny, TxCommit
    <2>4. /\ rows' = Written(q, e)
          /\ lastId' = lastId + Cardinality({i \in DOMAIN e : q.update[i] = 0})
          /\ pc[w] = "tx" /\ pc' = [pc EXCEPT ![w] = "written"]
          /\ DOMAIN entries' = DOMAIN entries /\ DOMAIN wrote' = DOMAIN wrote
          /\ UNCHANGED <<existing, desired, plan>>
        BY <1>3, <2>1, <2>2 DEF TxCommit
    <2>5. lastId' = Given(q)
        BY <2>3, <2>4 DEF Given, PlanOK
    <2>6. lastId' \in Nat /\ IsTable(rows, lastId)'
        <3>1. Given(q) \in Nat
            BY <1>0, <2>3, StoredIs
        <3>2. IsTable(rows', Given(q))
            BY <1>0, <2>3, <2>4, WrittenIs DEF WriteIs
        <3> QED
            BY <2>5, <3>1, <3>2 DEF IsTable
    <2>7. \A v \in Writer : pc'[v] = "tx" => PlanOK(plan[v], desired[v])'
        <3> SUFFICES ASSUME NEW v \in Writer, pc'[v] = "tx"
                     PROVE  PlanOK(plan[v], desired[v])'
            OBVIOUS
        <3>1. PICK p : p = plan[v]
            OBVIOUS
        <3>2. PICK d : d = desired[v]
            OBVIOUS
        <3>3. pc[v] = "tx"
            BY <2>4 DEF InvAny
        <3>4. d \in Seq(DraftRow) /\ PlanOK(p, d)
            BY <3>1, <3>2, <3>3 DEF InvAny
        <3>5. PlanOK(p, d)'
            BY <1>3, <3>4, OtherPlans
        <3>6. plan'[v] = p /\ desired'[v] = d
            BY <2>4, <3>1, <3>2
        <3> QED
            BY <3>5, <3>6 DEF PlanOK
    <2> QED
        BY <2>4, <2>6, <2>7 DEF InvAny
<1>4. ASSUME NEW w \in Writer, TxFails(w) \/ LogCommit(w) \/ LogFails(w)
      PROVE  InvAny'
    <2>0. /\ pc' = [pc EXCEPT ![w] = "idle"] /\ UNCHANGED <<rows, lastId, existing, desired, plan>>
          /\ DOMAIN entries' = DOMAIN entries /\ DOMAIN wrote' = DOMAIN wrote
        BY <1>4 DEF TxFails, LogCommit, LogFails
    <2>1. \A v \in Writer : pc'[v] # "idle" => pc'[v] = pc[v]
        BY <2>0 DEF InvAny
    <2>2. \A v \in Writer : pc'[v] \in {"idle", "loaded", "tx", "written"}
        BY <2>0 DEF InvAny
    <2> QED
        BY <2>0, <2>1, <2>2 DEF InvAny, IsTable, PlanOK
<1>5. CASE UNCHANGED vars
    BY <1>5 DEF InvAny, IsTable, PlanOK, vars
<1> QED
    BY <1>1, <1>2, <1>3, <1>4, <1>5 DEF Next

\* A writer that commits: what it works with.
LEMMA Commits ==
    ASSUME InvAny, NEW w \in Writer, TxCommit(w), NEW p, p = plan[w], NEW d, d = desired[w]
    PROVE  /\ lastId \in Nat /\ IsTable(rows, lastId) /\ d \in Seq(DraftRow) /\ PlanOK(p, d)
           /\ WriteIs(p, d, StoredIds(p), rows')
           /\ DOMAIN StoredIds(p) = DOMAIN d
           /\ entries'[w] = Entries(existing[w], d, StoredIds(p))
           /\ saved' = [draft |-> d, ids |-> StoredIds(p)]
<1>1. lastId \in Nat /\ IsTable(rows, lastId) /\ d \in Seq(DraftRow) /\ PlanOK(p, d)
    BY DEF InvAny, TxCommit
<1>2. /\ rows' = Written(p, d) /\ entries'[w] = Entries(existing[w], d, StoredIds(p))
      /\ saved' = [draft |-> d, ids |-> StoredIds(p)]
    BY DEF TxCommit, InvAny
<1>3. WriteIs(p, d, StoredIds(p), rows')
    BY <1>1, <1>2, WrittenIs
<1> QED
    BY <1>1, <1>2, <1>3, StoredIs

\* The refs of a draft row are attached to the row that holds its content, with
\* or without the entity lock: a matched row keeps its id, an inserted one is
\* given its own (ReplaceForEntity returns the ids in the order of the draft).
LEMMA RefsStep == InvAny /\ RefsLandOnTheirRow /\ [Next]_vars => RefsLandOnTheirRow'
<1> SUFFICES ASSUME InvAny, RefsLandOnTheirRow, [Next]_vars
             PROVE  RefsLandOnTheirRow'
    OBVIOUS
<1>1. ASSUME NEW w \in Writer, TxCommit(w)
      PROVE  RefsLandOnTheirRow'
    <2>1. PICK p : p = plan[w]
        OBVIOUS
    <2>2. PICK d : d = desired[w]
        OBVIOUS
    <2>3. PICK ids : ids = StoredIds(p)
        OBVIOUS
    <2>4. WriteIs(p, d, ids, rows') /\ saved' = [draft |-> d, ids |-> ids]
        BY <1>1, <2>1, <2>2, <2>3, Commits
    <2>5. saved'.ids = ids /\ saved'.draft = d
        BY <2>4
    <2> QED
        BY <2>4, <2>5 DEF RefsLandOnTheirRow, WriteIs
<1>2. ASSUME UNCHANGED <<rows, saved>>
      PROVE  RefsLandOnTheirRow'
    BY <1>2 DEF RefsLandOnTheirRow
<1> QED
    BY <1>1, <1>2 DEF Next, Load, TxRead, TxFails, LogCommit, LogFails, vars

THEOREM RefsLand == Spec => []RefsLandOnTheirRow
<1>1. Init => RefsLandOnTheirRow
    BY DEF Init, RefsLandOnTheirRow
<1> QED
    BY <1>1, AnyInit, AnyStep, RefsStep, PTL DEF Spec

-----------------------------------------------------------------------------
(* Under the entity lock.                                                  *)

\* The initial state, and every step, of writers that hold the entity lock.
LEMMA LockedInit == Init => InvLocked
BY DEF Init, InvLocked

LEMMA LockedStep == Locked /\ InvAny /\ InvLocked /\ [Next]_vars => InvLocked'
<1> SUFFICES ASSUME Locked, InvAny, InvLocked, [Next]_vars
             PROVE  InvLocked'
    OBVIOUS
<1>1. ASSUME NEW w \in Writer, Load(w)
      PROVE  InvLocked'
    <2>1. PICK d \in Draft :
             desired' = [desired EXCEPT ![w] = stampMatchedIDs(d, matchOverrides(rows, d))]
        BY <1>1 DEF Load
    <2>2. Stamped(rows, stampMatchedIDs(d, matchOverrides(rows, d)))
        BY DraftsAre, StampIs DEF InvAny
    <2>3. PICK s : s = stampMatchedIDs(d, matchOverrides(rows, d))
        OBVIOUS
    <2>4. /\ \A v \in Writer : pc[v] = "idle"
          /\ pc' = [pc EXCEPT ![w] = "loaded"] /\ existing' = [existing EXCEPT ![w] = rows]
          /\ desired' = [desired EXCEPT ![w] = s] /\ rows' = rows
        BY <1>1, <2>1, <2>3 DEF Load
    <2>5. \A v \in Writer : pc'[v] # "idle" => v = w
        BY <2>4 DEF InvAny
    <2>6. pc'[w] = "loaded" /\ existing'[w] = rows /\ desired'[w] = s
        BY <2>4 DEF InvAny
    <2> QED
        BY <2>2, <2>3, <2>4, <2>5, <2>6 DEF InvLocked
<1>2. ASSUME NEW w \in Writer, TxRead(w)
      PROVE  InvLocked'
    <2>1. /\ pc[w] = "loaded" /\ pc' = [pc EXCEPT ![w] = "tx"]
          /\ plan' = [plan EXCEPT ![w] = matchOverrides(rows, desired[w])]
          /\ rows' = rows /\ existing' = existing /\ desired' = desired
        BY <1>2 DEF TxRead
    <2>2. \A v \in Writer : pc'[v] # "idle" => v = w /\ pc[w] # "idle"
        BY <2>1 DEF InvAny, InvLocked
    <2>3. plan'[w] = matchOverrides(rows, desired[w])
        BY <2>1 DEF InvAny
    <2> QED
        BY <2>1, <2>2, <2>3 DEF InvLocked
<1>3. ASSUME NEW w \in Writer, NEW to \in {"idle", "written"}, pc[w] # "idle", pc' = [pc EXCEPT ![w] = to]
      PROVE  InvLocked'
    <2>1. \A v \in Writer : pc'[v] # "idle" => v = w /\ pc'[v] = "written"
        BY <1>3 DEF InvAny, InvLocked
    <2> QED
        BY <2>1 DEF InvLocked
<1>5. ASSUME NEW w \in Writer, TxCommit(w) \/ TxFails(w) \/ LogCommit(w) \/ LogFails(w)
      PROVE  InvLocked'
    BY <1>3, <1>5 DEF TxCommit, TxFails, LogCommit, LogFails
<1>4. CASE UNCHANGED vars
    BY <1>4 DEF InvLocked, vars
<1> QED
    BY <1>1, <1>2, <1>4, <1>5 DEF Next

\* The plan of a locked writer that commits, over the table it commits to.
PlanIs(p, d, ids) ==
    /\ DOMAIN p.update = DOMAIN d /\ p.remove = DOMAIN rows \ Range(p.update)
    /\ \A i \in DOMAIN d : p.update[i] # 0 =>
         d[i].id = p.update[i] /\ p.update[i] \in DOMAIN rows /\ ids[i] = p.update[i]
    /\ \A i \in DOMAIN d : p.update[i] = 0 =>
         /\ ids[i] \notin DOMAIN rows
         /\ \A e \in DOMAIN rows : overrideKey(rows[e]) = overrideKey(d[i]) => e \in Range(p.update)
    /\ \A i, j \in DOMAIN d : ids[i] = ids[j] => i = j

\* Its diff and its plan are the same partition of the rows.
LEMMA DiffIsPlan ==
    ASSUME InvAny, InvLocked, NEW w \in Writer, TxCommit(w), NEW p, p = plan[w],
           NEW d, d = desired[w], NEW ids, ids = StoredIds(p)
    PROVE  /\ PlanIs(p, d, ids)
           /\ existing[w] = rows
           /\ ComputeDiff(rows, d).addedIdx = {i \in DOMAIN d : p.update[i] = 0}
           /\ ComputeDiff(rows, d).removed = p.remove
           /\ ComputeDiff(rows, d).changedIdx =
                {i \in DOMAIN d : p.update[i] # 0 /\ rows[p.update[i]] # Content(d[i])}
<1>1. pc[w] = "tx"
    BY DEF TxCommit
<1>2. p = matchOverrides(rows, d) /\ existing[w] = rows /\ Stamped(rows, d)
    BY <1>1 DEF InvLocked
<1>3. lastId \in Nat /\ IsTable(rows, lastId) /\ d \in Seq(DraftRow) /\ PlanOK(p, d)
    BY Commits
<1>4. PICK u : u = p.update
    OBVIOUS
<1>5. /\ DOMAIN u = DOMAIN d
      /\ \A i \in DOMAIN d : u[i] = 0 \/ u[i] \in DOMAIN rows
      /\ \A i \in DOMAIN d : u[i] = 0 =>
           \A e \in DOMAIN rows : overrideKey(rows[e]) = overrideKey(d[i]) => \E j \in DOMAIN d : u[j] = e
      /\ p.remove = DOMAIN rows \ Range(u)
    BY <1>2, <1>3, <1>4, Matched
<1>6. /\ \A i \in DOMAIN d : u[i] # 0 => d[i].id = u[i]
      /\ ComputeDiff(rows, d).addedIdx = {i \in DOMAIN d : u[i] = 0}
      /\ ComputeDiff(rows, d).removed = p.remove
      /\ ComputeDiff(rows, d).changedIdx = {i \in DOMAIN d : u[i] # 0 /\ rows[u[i]] # Content(d[i])}
    BY <1>2, <1>3, <1>4, StampedDiff
<1>7. /\ \A i \in DOMAIN d : u[i] # 0 => StoredIds(p)[i] = u[i]
      /\ \A i \in DOMAIN d : u[i] = 0 => StoredIds(p)[i] \in Nat /\ lastId < StoredIds(p)[i]
      /\ \A i, j \in DOMAIN d : StoredIds(p)[i] = StoredIds(p)[j] => i = j
    BY <1>3, <1>4, StoredIs
<1>8. DOMAIN rows \subseteq 1 .. lastId
    BY <1>3 DEF IsTable
<1>9. \A i \in DOMAIN d : u[i] = 0 => StoredIds(p)[i] \notin DOMAIN rows
    BY <1>3, <1>7, <1>8
<1>10. \A e : (\E j \in DOMAIN d : u[j] = e) => e \in Range(u)
    BY <1>5 DEF Range
<1> QED
    BY <1>2, <1>4, <1>5, <1>6, <1>7, <1>9, <1>10 DEF PlanIs

\* Rows that a save deletes and rows that it inserts have no key in common: a row
\* of the key of an insert is always updated instead.
LEMMA KeepsKeys ==
    ASSUME InvAny, InvLocked, NEW w \in Writer, TxCommit(w),
           NEW x \in DOMAIN rows \ DOMAIN rows', NEW y \in DOMAIN rows' \ DOMAIN rows
    PROVE  overrideKey(rows[x]) # overrideKey(rows'[y])
<1>1. PICK p : p = plan[w]
    OBVIOUS
<1>2. PICK d : d = desired[w]
    OBVIOUS
<1>3. PICK ids : ids = StoredIds(p)
    OBVIOUS
<1>4. WriteIs(p, d, ids, rows') /\ DOMAIN ids = DOMAIN d
    BY <1>1, <1>2, <1>3, Commits
<1>5. /\ DOMAIN p.update = DOMAIN d /\ p.remove = DOMAIN rows \ Range(p.update)
      /\ \A i \in DOMAIN d : p.update[i] # 0 => p.update[i] \in DOMAIN rows /\ ids[i] = p.update[i]
      /\ \A i \in DOMAIN d : p.update[i] = 0 =>
           \A e \in DOMAIN rows : overrideKey(rows[e]) = overrideKey(d[i]) => e \in Range(p.update)
    <2>1. PlanIs(p, d, ids)
        BY <1>1, <1>2, <1>3, DiffIsPlan
    <2> QED
        BY <2>1 DEF PlanIs
<1>6. DOMAIN rows' = (DOMAIN rows \ p.remove) \cup Range(ids)
    BY <1>4 DEF WriteIs
<1>7. PICK i \in DOMAIN d : ids[i] = y
    BY <1>4, <1>6 DEF Range
<1>8. p.update[i] = 0
    BY <1>5, <1>7
<1>9. overrideKey(rows'[y]) = overrideKey(d[i])
    <2>1. rows'[y] = Content(d[i])
        BY <1>4, <1>7 DEF WriteIs
    <2>2. overrideKey(Content(d[i])) = overrideKey(d[i])
        BY DEF Content, overrideKey
    <2> QED
        BY <2>1, <2>2
<1>10. x \notin Range(p.update)
    BY <1>5, <1>6
<1> QED
    BY <1>5, <1>8, <1>9, <1>10

\* A save under the entity lock never replaces a row of a placement by another
\* one: the example values anchored to it stay attached.
THEOREM NothingReplaced == ASSUME Locked PROVE Spec => NoNeedlessReplacement
<1>1. InvAny /\ InvLocked /\ [Next]_vars =>
        [\A x \in DOMAIN rows \ DOMAIN rows', y \in DOMAIN rows' \ DOMAIN rows :
            overrideKey(rows[x]) # overrideKey(rows'[y])]_vars
    <2> SUFFICES ASSUME InvAny, InvLocked, [Next]_vars,
                        NEW x \in DOMAIN rows \ DOMAIN rows', NEW y \in DOMAIN rows' \ DOMAIN rows
                 PROVE  overrideKey(rows[x]) # overrideKey(rows'[y])
        OBVIOUS
    <2>1. rows' # rows
        OBVIOUS
    <2>2. PICK w \in Writer : TxCommit(w)
        BY <2>1 DEF Next, Load, TxRead, TxFails, LogCommit, LogFails, vars
    <2> QED
        BY <2>2, KeepsKeys
<1>2. Locked /\ InvAny /\ InvLocked /\ [Next]_vars => InvLocked'
    BY LockedStep
<1> QED
    BY <1>1, <1>2, AnyInit, AnyStep, LockedInit, PTL DEF Spec, NoNeedlessReplacement

\* What the entries of a save under the lock say, in terms of its plan.
EntriesSay(l, p, d, ids) ==
    /\ l.removed = p.remove
    /\ \A x : x \in DOMAIN l.added <=> \E i \in DOMAIN d : p.update[i] = 0 /\ ids[i] = x
    /\ \A i \in DOMAIN d : p.update[i] = 0 => l.added[ids[i]] = Content(d[i])
    /\ \A x : x \in DOMAIN l.changed <=>
         \E i \in DOMAIN d : p.update[i] = x /\ x # 0 /\ rows[x] # Content(d[i])
    /\ \A i \in DOMAIN d : ids[i] \in DOMAIN l.changed => l.changed[ids[i]] = Content(d[i])

\* The entries of a save say this of its plan.
LEMMA EntriesAre ==
    ASSUME InvAny, InvLocked, NEW w \in Writer, TxCommit(w), NEW p, p = plan[w],
           NEW d, d = desired[w], NEW ids, ids = StoredIds(p), NEW l, l = Entries(existing[w], d, ids)
    PROVE  EntriesSay(l, p, d, ids)
<1>1. /\ DOMAIN p.update = DOMAIN d /\ existing[w] = rows
      /\ \A i \in DOMAIN d : p.update[i] # 0 => d[i].id = p.update[i] /\ ids[i] = p.update[i] /\ ids[i] \in DOMAIN rows
      /\ \A i \in DOMAIN d : p.update[i] = 0 => ids[i] \notin DOMAIN rows
      /\ \A i, j \in DOMAIN d : ids[i] = ids[j] => i = j
    <2>1. PlanIs(p, d, ids) /\ existing[w] = rows
        BY DiffIsPlan
    <2> QED
        BY <2>1 DEF PlanIs
<1>2. PICK A : A = {i \in DOMAIN d : p.update[i] = 0}
    OBVIOUS
<1>3. PICK C : C = {i \in DOMAIN d : p.update[i] # 0 /\ rows[p.update[i]] # Content(d[i])}
    OBVIOUS
<1>4. /\ ComputeDiff(rows, d).addedIdx = A
      /\ ComputeDiff(rows, d).removed = p.remove
      /\ ComputeDiff(rows, d).changedIdx = C
    BY <1>2, <1>3, DiffIsPlan
<1>5. PICK a : a = [x \in {ids[i] : i \in A} |-> Content(d[CHOOSE i \in A : ids[i] = x])]
    OBVIOUS
<1>6. PICK c : c = [x \in {d[i].id : i \in C} |-> Content(d[CHOOSE i \in C : d[i].id = x])]
    OBVIOUS
<1>7. l.removed = p.remove /\ l.added = a /\ l.changed = c
    BY <1>1, <1>4, <1>5, <1>6 DEF Entries
<1>8. \A x : x \in DOMAIN a <=> \E i \in DOMAIN d : p.update[i] = 0 /\ ids[i] = x
    BY <1>2, <1>5
<1>9. ASSUME NEW i \in DOMAIN d, p.update[i] = 0
      PROVE  a[ids[i]] = Content(d[i])
    <2>1. i \in A /\ (CHOOSE j \in A : ids[j] = ids[i]) = i
        BY <1>1, <1>2, <1>9
    <2> QED
        BY <1>5, <2>1
<1>10. \A i \in C : i \in DOMAIN d /\ d[i].id = p.update[i] /\ ids[i] = p.update[i]
    BY <1>1, <1>3
<1>11. \A x : x \in DOMAIN c <=> \E i \in DOMAIN d : p.update[i] = x /\ x # 0 /\ rows[x] # Content(d[i])
    <2>1. DOMAIN c = {d[i].id : i \in C}
        BY <1>6
    <2>2. \A x : x \in DOMAIN c <=> \E i \in C : p.update[i] = x
        BY <1>10, <2>1
    <2> QED
        BY <1>3, <2>2
<1>12. ASSUME NEW i \in DOMAIN d, ids[i] \in DOMAIN c
       PROVE  c[ids[i]] = Content(d[i])
    <2>1. PICK j \in C : d[j].id = ids[i]
        BY <1>6, <1>12
    <2>2. j = i
        BY <1>1, <1>10, <2>1
    <2>3. (CHOOSE k \in C : d[k].id = ids[i]) = i
        BY <1>1, <1>10, <2>1, <2>2
    <2> QED
        BY <1>6, <1>12, <2>3
<1> QED
    BY <1>7, <1>8, <1>9, <1>11, <1>12 DEF EntriesSay

\* Replaying the entries on the table before a save gives the table after it.
LEMMA Replays ==
    ASSUME InvAny, InvLocked, NEW w \in Writer, TxCommit(w)
    PROVE  existing[w] = rows /\ rows' = Replay(rows, entries'[w])
<1>1. PICK p : p = plan[w]
    OBVIOUS
<1>2. PICK d : d = desired[w]
    OBVIOUS
<1>3. PICK ids : ids = StoredIds(p)
    OBVIOUS
<1>4. PICK l : l = Entries(existing[w], d, ids)
    OBVIOUS
<1>5. PICK W : W = rows'
    OBVIOUS
<1>6. WriteIs(p, d, ids, W) /\ DOMAIN ids = DOMAIN d /\ entries'[w] = l
    BY <1>1, <1>2, <1>3, <1>4, <1>5, Commits
<1>7. /\ DOMAIN p.update = DOMAIN d /\ p.remove = DOMAIN rows \ Range(p.update)
      /\ \A i \in DOMAIN d : p.update[i] # 0 => ids[i] = p.update[i] /\ ids[i] \in DOMAIN rows
      /\ \A i \in DOMAIN d : p.update[i] = 0 => ids[i] \notin DOMAIN rows
    <2>1. PlanIs(p, d, ids)
        BY <1>1, <1>2, <1>3, DiffIsPlan
    <2> QED
        BY <2>1 DEF PlanIs
<1>8. EntriesSay(l, p, d, ids)
    BY <1>1, <1>2, <1>3, <1>4, EntriesAre
<1>9. DOMAIN W = (DOMAIN rows \ p.remove) \cup Range(ids) /\ \A i \in DOMAIN d : W[ids[i]] = Content(d[i])
    BY <1>6 DEF WriteIs
<1>10. \A x : x \in Range(ids) <=> \E i \in DOMAIN d : ids[i] = x
    BY <1>6 DEF Range
<1>11. \A x : x \in Range(p.update) <=> \E i \in DOMAIN d : p.update[i] = x
    BY <1>7 DEF Range
<1>12. ASSUME NEW x \in DOMAIN rows \ p.remove
       PROVE  x \in Range(ids)
    <2>1. PICK i \in DOMAIN d : p.update[i] = x
        BY <1>7, <1>11, <1>12
    <2>2. x # 0
        BY TableIs DEF InvAny
    <2> QED
        BY <1>7, <1>10, <2>1, <2>2
<1>13. DOMAIN W = Range(ids)
    BY <1>9, <1>12
<1>14. DOMAIN W = (DOMAIN rows \ l.removed) \cup DOMAIN l.added \cup DOMAIN l.changed
    BY <1>7, <1>8, <1>10, <1>11, <1>12, <1>13 DEF EntriesSay
<1>15. ASSUME NEW x \in DOMAIN W
       PROVE  W[x] = IF x \in DOMAIN l.added THEN l.added[x]
                     ELSE IF x \in DOMAIN l.changed THEN l.changed[x]
                     ELSE rows[x]
    <2>1. PICK i \in DOMAIN d : ids[i] = x
        BY <1>10, <1>13
    <2>2. CASE p.update[i] = 0
        BY <1>8, <1>9, <2>1, <2>2 DEF EntriesSay
    <2>3. CASE p.update[i] # 0
        <3>1. x \in DOMAIN rows /\ x = p.update[i] /\ x \notin DOMAIN l.added
            BY <1>7, <1>8, <2>1, <2>3 DEF EntriesSay
        <3>2. x \notin DOMAIN l.changed => rows[x] = Content(d[i])
            BY <1>8, <2>3, <3>1 DEF EntriesSay
        <3> QED
            BY <1>8, <1>9, <2>1, <3>1, <3>2 DEF EntriesSay
    <2> QED
        BY <2>2, <2>3
<1>16. W = [x \in DOMAIN W |-> W[x]]
    BY <1>1, <1>2, <1>5 DEF TxCommit, Written
<1>17. W = Replay(rows, l)
    BY <1>14, <1>15, <1>16 DEF Replay
<1>18. existing[w] = rows
    BY <1>1, <1>2, <1>3, DiffIsPlan
<1> QED
    BY <1>5, <1>6, <1>17, <1>18

\* What the log has told of the table: all but the lost rows, and while a save is
\* between its write and its flush, all but those of the table before it.  The
\* entries it holds lead from that table to the one written.
LogInv ==
    /\ \A w \in Writer : pc[w] = "written" =>
         /\ rows = Replay(existing[w], entries[w])
         /\ wrote[w] = Differing(existing[w], rows)
         /\ Differing(told, existing[w]) \subseteq lost
    /\ ChangelogReplays

\* Tables that agree at a row agree there after the same entries; and where
\* entries change a table, what they make of it does not depend on the table.
LEMMA ReplayAt ==
    ASSUME NEW t, NEW u, NEW l, NEW x,
           SameAt(t, u, x) \/ ~SameAt(u, Replay(u, l), x)
    PROVE  SameAt(Replay(t, l), Replay(u, l), x)
<1>1. PICK a, b : a = Replay(t, l) /\ b = Replay(u, l)
    OBVIOUS
<1>2. /\ x \in DOMAIN a <=> x \in (DOMAIN t \ l.removed) \cup DOMAIN l.added \cup DOMAIN l.changed
      /\ x \in DOMAIN a => a[x] = IF x \in DOMAIN l.added THEN l.added[x]
                                ELSE IF x \in DOMAIN l.changed THEN l.changed[x] ELSE t[x]
    BY <1>1 DEF Replay
<1>3. /\ x \in DOMAIN b <=> x \in (DOMAIN u \ l.removed) \cup DOMAIN l.added \cup DOMAIN l.changed
      /\ x \in DOMAIN b => b[x] = IF x \in DOMAIN l.added THEN l.added[x]
                                ELSE IF x \in DOMAIN l.changed THEN l.changed[x] ELSE u[x]
    BY <1>1 DEF Replay
<1>4. SameAt(t, u, x) \/ ~SameAt(u, b, x)
    BY <1>1
<1>5. SameAt(a, b, x)
    BY <1>2, <1>3, <1>4 DEF SameAt
<1> QED
    BY <1>1, <1>5

LEMMA LogStep == Locked /\ InvAny /\ InvLocked /\ LogInv /\ [Next]_vars => LogInv'
<1> SUFFICES ASSUME Locked, InvAny, InvLocked, LogInv, [Next]_vars
             PROVE  LogInv'
    OBVIOUS
<1>0. \A t, u, x : x \in Differing(t, u) <=> (x \in DOMAIN t \/ x \in DOMAIN u) /\ ~SameAt(t, u, x)
    BY DEF Differing
<1>1. ASSUME NEW w \in Writer, Load(w)
      PROVE  LogInv'
    <2>1. /\ \A v \in Writer : pc[v] = "idle"
          /\ pc' = [pc EXCEPT ![w] = "loaded"] /\ UNCHANGED <<rows, told, lost>>
        BY <1>1 DEF Load
    <2>2. \A v \in Writer : pc'[v] # "written"
        BY <2>1 DEF InvAny
    <2>3. Differing(told, rows) \subseteq lost
        BY <2>1 DEF LogInv, ChangelogReplays
    <2>4. Differing(told', rows') \subseteq lost'
        BY <2>1, <2>3
    <2> QED
        BY <2>2, <2>4 DEF LogInv, ChangelogReplays, Differing, SameAt
<1>2. ASSUME NEW w \in Writer, TxRead(w) \/ TxFails(w)
      PROVE  LogInv'
    <2>1. /\ pc[w] \in {"loaded", "tx"} /\ UNCHANGED <<rows, told, lost>>
          /\ \E to \in {"idle", "tx"} : pc' = [pc EXCEPT ![w] = to]
        BY <1>2 DEF TxRead, TxFails
    <2>2. \A v \in Writer : pc[v] # "written" /\ pc'[v] # "written"
        BY <2>1 DEF InvAny, InvLocked
    <2>3. Differing(told, rows) \subseteq lost
        BY <2>2 DEF LogInv, ChangelogReplays
    <2>4. Differing(told', rows') \subseteq lost'
        BY <2>1, <2>3
    <2> QED
        BY <2>2, <2>4 DEF LogInv, ChangelogReplays, Differing, SameAt
<1>3. ASSUME NEW w \in Writer, TxCommit(w)
      PROVE  LogInv'
    <2>1. /\ pc[w] = "tx" /\ pc' = [pc EXCEPT ![w] = "written"]
          /\ wrote'[w] = Differing(rows, rows') /\ UNCHANGED <<existing, told, lost>>
        BY <1>3 DEF TxCommit, InvAny
    <2>2. /\ \A v \in Writer : pc[v] # "written"
          /\ \A v \in Writer : pc'[v] = "written" <=> v = w
        BY <2>1 DEF InvAny, InvLocked
    <2>3. Differing(told, rows) \subseteq lost
        BY <2>2 DEF LogInv, ChangelogReplays
    <2>4. existing[w] = rows /\ rows' = Replay(rows, entries'[w])
        BY <1>3, Replays
    <2>5. PICK e : e = entries'[w]
        OBVIOUS
    <2>6. /\ rows' = Replay(existing'[w], entries'[w])
          /\ wrote'[w] = Differing(existing'[w], rows')
          /\ Differing(told', existing'[w]) \subseteq lost'
        BY <2>1, <2>3, <2>4
    <2>7. (rows = Replay(existing[w], entries[w]))'
        BY <2>6 DEF Replay
    <2>8. (wrote[w] = Differing(existing[w], rows) /\ Differing(told, existing[w]) \subseteq lost)'
        BY <2>6 DEF Differing, SameAt
    <2> QED
        BY <2>1, <2>2, <2>7, <2>8 DEF LogInv, ChangelogReplays
<1>4. ASSUME NEW w \in Writer, LogCommit(w) \/ LogFails(w)
      PROVE  LogInv'
    <2>1. pc[w] = "written" /\ pc' = [pc EXCEPT ![w] = "idle"] /\ rows' = rows
        BY <1>4 DEF LogCommit, LogFails
    <2>2. \A v \in Writer : pc'[v] = "idle"
        BY <2>1 DEF InvAny, InvLocked
    <2>3. PICK ex, e : ex = existing[w] /\ e = entries[w]
        OBVIOUS
    <2>4. rows = Replay(ex, e) /\ wrote[w] = Differing(ex, rows) /\ Differing(told, ex) \subseteq lost
        BY <2>1, <2>3 DEF LogInv
    <2>5. ASSUME LogCommit(w)
          PROVE  Differing(told', rows') \subseteq lost'
        <3>1. told' = Replay(told, e) /\ lost' = lost \ wrote[w]
            BY <2>3, <2>5 DEF LogCommit
        <3>2. ASSUME NEW x, x \notin lost'
              PROVE  SameAt(Replay(told, e), Replay(ex, e), x)
            <4>1. SameAt(told, ex, x) \/ ~SameAt(ex, Replay(ex, e), x)
                <5>1. x \notin lost \/ x \in wrote[w]
                    BY <3>1, <3>2
                <5>2. x \notin lost => SameAt(told, ex, x)
                    BY <1>0, <2>4 DEF SameAt
                <5>3. x \in wrote[w] => ~SameAt(ex, Replay(ex, e), x)
                    BY <1>0, <2>4
                <5> QED
                    BY <5>1, <5>2, <5>3
            <4> QED
                BY <4>1, ReplayAt
        <3>3. Differing(Replay(told, e), rows) \subseteq lost'
            BY <1>0, <2>4, <3>2
        <3> QED
            BY <2>1, <3>1, <3>3
    <2>6. ASSUME LogFails(w)
          PROVE  Differing(told', rows') \subseteq lost'
        <3>1. told' = told /\ lost' = lost \cup wrote[w]
            BY <2>6 DEF LogFails
        <3>2. ASSUME NEW x, x \notin lost'
              PROVE  SameAt(told, rows, x)
            <4>1. SameAt(told, ex, x) /\ SameAt(ex, rows, x)
                BY <1>0, <2>4, <3>1, <3>2 DEF SameAt
            <4> QED
                BY <4>1 DEF SameAt
        <3>3. Differing(told, rows) \subseteq lost'
            BY <1>0, <3>2
        <3> QED
            BY <2>1, <3>1, <3>3
    <2>7. Differing(told', rows') \subseteq lost'
        BY <1>4, <2>1, <2>5, <2>6
    <2> QED
        BY <2>2, <2>7 DEF LogInv, ChangelogReplays, Differing, SameAt
<1>5. CASE UNCHANGED vars
    <2>1. /\ rows' = rows /\ told' = told /\ lost' = lost /\ pc' = pc
          /\ existing' = existing /\ entries' = entries /\ wrote' = wrote
        BY <1>5 DEF vars
    <2>2. ASSUME NEW w \in Writer, pc'[w] = "written"
          PROVE  /\ (rows = Replay(existing[w], entries[w]))'
                 /\ (wrote[w] = Differing(existing[w], rows) /\ Differing(told, existing[w]) \subseteq lost)'
        <3>1. /\ rows = Replay(existing[w], entries[w])
              /\ wrote[w] = Differing(existing[w], rows) /\ Differing(told, existing[w]) \subseteq lost
            BY <2>1, <2>2 DEF LogInv
        <3>2. (rows = Replay(existing[w], entries[w]))'
            BY <2>1, <3>1 DEF Replay
        <3>3. (wrote[w] = Differing(existing[w], rows) /\ Differing(told, existing[w]) \subseteq lost)'
            BY <2>1, <3>1 DEF Differing, SameAt
        <3> QED
            BY <3>2, <3>3
    <2>3. ChangelogReplays'
        BY <2>1 DEF LogInv, ChangelogReplays, Differing, SameAt
    <2> QED
        BY <2>2, <2>3 DEF LogInv
<1> QED
    BY <1>1, <1>2, <1>3, <1>4, <1>5 DEF Next

\* Before the first save nothing is to be told.
LEMMA LogInit == Init => LogInv
<1> SUFFICES ASSUME Init PROVE LogInv
    OBVIOUS
<1>1. told = rows /\ \A w \in Writer : pc[w] = "idle"
    BY DEF Init
<1>2. Differing(told, rows) = {}
    BY <1>1 DEF Differing, SameAt
<1> QED
    BY <1>1, <1>2 DEF LogInv, ChangelogReplays

\* Under the entity lock the changelog tells the table, ids included, but for rows
\* of saves whose flush failed: such a save neither spoils what the log tells of
\* other rows nor keeps a later one from being told.
THEOREM LogReplays == ASSUME Locked PROVE Spec => []ChangelogReplays
<1>1. LogInv => ChangelogReplays
    BY DEF LogInv
<1>2. Locked /\ InvAny /\ InvLocked /\ [Next]_vars => InvLocked'
    BY LockedStep
<1>3. Locked /\ InvAny /\ InvLocked /\ LogInv /\ [Next]_vars => LogInv'
    BY LogStep
<1> QED
    BY <1>1, <1>2, <1>3, AnyInit, AnyStep, LockedInit, LogInit, PTL DEF Spec

\* Under the entity lock no entry tells of an update of a row that the save did
\* not leave in the table; without it a run finds one that does.
THEOREM NoGhosts == ASSUME Locked PROVE Spec => []NoGhostUpdate
<1>1. LogInv => NoGhostUpdate
    BY DEF LogInv, Replay, NoGhostUpdate
<1>2. Locked /\ InvAny /\ InvLocked /\ [Next]_vars => InvLocked'
    BY LockedStep
<1>3. Locked /\ InvAny /\ InvLocked /\ LogInv /\ [Next]_vars => LogInv'
    BY LogStep
<1> QED
    BY <1>1, <1>2, <1>3, AnyInit, AnyStep, LockedInit, LogInit, PTL DEF Spec
=============================================================================
