------------------------ MODULE ReleaseLineageProofs ------------------------
(***************************************************************************)
(* What holds of the archive for any projects, any lineage, any numbers    *)
(* and any edits between the statements of a release: nothing in a release *)
(* is ever replaced, a release is made of what was found under its key and *)
(* of drafts its project had meanwhile, none follows a draft unless a link *)
(* was switched under it, and an undisturbed one with a number of its own  *)
(* holds its parents as they are released.                                 *)
(***************************************************************************)
EXTENDS ReleaseLineage, TLAPS

Transaction == [project : Projects, version : Numbers,
                at : {"links", "project", "ontologies", "commit"}]

Numbered(v) == \E r \in released : r[2] = v
Pinned(q, s) == s \in Numbers /\ <<q, s>> \in released

TxOK ==
    /\ released \subseteq Projects \X Numbers
    /\ tx # None => tx \in Transaction /\ <<tx.project, tx.version>> \notin released

LinksOK ==
    /\ links \subseteq Projects \X Projects \X (Numbers \cup {Draft})
    /\ \A l \in links : l[3] = Draft \/ Pinned(l[2], l[3])
    /\ \A k, l \in links : k[1] = l[1] /\ k[2] = l[2] => k = l

ArchLinksOK ==
    /\ archLinks \subseteq Projects \X Numbers \X Projects \X (Numbers \cup {Draft})
    /\ \A a \in archLinks : a[4] = Draft \/ Pinned(a[3], a[4])
    /\ \A a, b \in archLinks : a[1] = b[1] /\ a[2] = b[2] /\ a[3] = b[3] => a = b

ArchMetaOK ==
    /\ archMeta \subseteq Projects \X Numbers \X (0..MaxChanges)
    /\ \A a, b \in archMeta : a[1] = b[1] /\ a[2] = b[2] => a = b

\* The tables have rows of releases and of the one being created.
NumbersOK ==
    /\ \A a \in archLinks : Numbered(a[2]) \/ (tx # None /\ tx.at # "links" /\ a[2] = tx.version)
    /\ \A a \in archMeta : Numbered(a[2]) \/ (tx # None /\ tx.at \notin {"links", "project"} /\ a[2] = tx.version)
    /\ \A a \in archOnts : Numbered(a[2]) \/ (tx # None /\ tx.at = "commit" /\ a[2] = tx.version)

HasMeta(p, v) == \E a \in archMeta : a[1] = p /\ a[2] = v

\* Every release has the row of its project.
Held ==
    /\ \A r \in released : HasMeta(r[1], r[2])
    /\ tx # None /\ tx.at \in {"ontologies", "commit"} => HasMeta(tx.project, tx.version)

Basics == TxOK /\ LinksOK /\ ArchLinksOK /\ ArchMetaOK /\ NumbersOK /\ Held

-----------------------------------------------------------------------------
(* What a chain is.                                                        *)

\* The least set with the project's draft that is closed under parents.
LEMMA ChainIsLeast ==
    ASSUME NEW p
    PROVE  /\ <<p, Draft>> \in Chain(p)
           /\ Closed(p, Chain(p))
           /\ Chain(p) \subseteq {<<p, Draft>>} \cup Followed
           /\ \A S \in SUBSET ({<<p, Draft>>} \cup Followed) :
                <<p, Draft>> \in S /\ Closed(p, S) => Chain(p) \subseteq S
<1>1. \A t, u : u \in SourcesOf(t[1], t[2]) => u \in Followed
    BY DEF SourcesOf, Followed
<1>2. Closed(p, Chain(p))
    <2> SUFFICES ASSUME NEW t \in Chain(p), NEW u \in SourcesOf(t[1], t[2]), u[1] # p PROVE u \in Chain(p)
        BY DEF Closed
    <2>1. ASSUME NEW S \in SUBSET ({<<p, Draft>>} \cup Followed), <<p, Draft>> \in S, Closed(p, S)
          PROVE  u \in S
        <3>1. t \in S
            BY <2>1 DEF Chain
        <3> QED
            BY <2>1, <3>1 DEF Closed
    <2> QED
        BY <1>1, <2>1 DEF Chain
<1> QED
    BY <1>2 DEF Chain

\* The project itself is in it as its draft only.
LEMMA ChainRoot ==
    ASSUME NEW p, NEW t \in Chain(p), t[1] = p
    PROVE  t = <<p, Draft>>
<1> DEFINE S == {u \in Chain(p) : u[1] = p => u = <<p, Draft>>}
<1>1. Closed(p, S)
    BY ChainIsLeast DEF Closed
<1>2. S \in SUBSET ({<<p, Draft>>} \cup Followed) /\ <<p, Draft>> \in S
    BY ChainIsLeast
<1>3. Chain(p) \subseteq S
    <2> HIDE DEF S
    <2> QED
        BY <1>1, <1>2, ChainIsLeast
<1> QED
    BY <1>3

\* Its other members are drafts and releases.
LEMMA ChainMembers ==
    ASSUME LinksOK, ArchLinksOK, NEW p \in Projects
    PROVE  \A t \in Chain(p) : /\ t = <<t[1], t[2]>> /\ t[1] \in Projects
                               /\ t[2] = Draft \/ Pinned(t[1], t[2])
<1> SUFFICES ASSUME NEW t \in Chain(p)
             PROVE  /\ t = <<t[1], t[2]>> /\ t[1] \in Projects
                    /\ t[2] = Draft \/ Pinned(t[1], t[2])
    OBVIOUS
<1>1. CASE t = <<p, Draft>>
    BY <1>1
<1>2. CASE t \in Followed
    <2>1. CASE \E l \in links : t = <<l[2], l[3]>>
        BY <2>1 DEF LinksOK
    <2>2. CASE \E a \in archLinks : t = <<a[3], a[4]>>
        BY <2>2 DEF ArchLinksOK
    <2> QED
        BY <1>2, <2>1, <2>2 DEF Followed
<1> QED
    BY <1>1, <1>2, ChainIsLeast

\* What a member follows: each parent at one source.
LEMMA SourcesAre ==
    ASSUME LinksOK, ArchLinksOK, NEW p, NEW s
    PROVE  /\ \A u \in SourcesOf(p, s) : /\ u = <<u[1], u[2]>> /\ u[1] \in Projects
                                         /\ u[2] \in Numbers \cup {Draft}
                                         /\ u[2] = Draft \/ Pinned(u[1], u[2])
           /\ \A u, w \in SourcesOf(p, s) : u[1] = w[1] => u = w
<1>1. CASE s = Draft
    <2>1. SourcesOf(p, s) = {<<l[2], l[3]>> : l \in {k \in links : k[1] = p}}
        BY <1>1 DEF SourcesOf
    <2> QED
        BY <2>1 DEF LinksOK
<1>2. CASE s # Draft
    <2>1. SourcesOf(p, s) = {<<l[3], l[4]>> : l \in {k \in archLinks : k[1] = p /\ k[2] = s}}
        BY <1>2 DEF SourcesOf
    <2> QED
        BY <2>1 DEF ArchLinksOK
<1> QED
    BY <1>1, <1>2

\* A step that changes the parents of none of the new members leaves a chain alone.
LEMMA ChainStays ==
    ASSUME NEW p, \A t \in Chain(p)' : SourcesOf(t[1], t[2])' = SourcesOf(t[1], t[2])
    PROVE  Chain(p)' = Chain(p)
<1>1. PICK c : c = Chain(p)
    OBVIOUS
<1>2. PICK d : d = Chain(p)'
    OBVIOUS
<1>3. PICK all : all = {<<p, Draft>>} \cup Followed
    OBVIOUS
<1>4. PICK all2 : all2 = ({<<p, Draft>>} \cup Followed)'
    OBVIOUS
<1>5. c \subseteq all /\ <<p, Draft>> \in c /\ Closed(p, c)
    BY <1>1, <1>3, ChainIsLeast
<1>6. d \subseteq all2 /\ <<p, Draft>> \in d
    BY <1>2, <1>4 DEF Chain
<1>7. ASSUME NEW t \in d, NEW u \in SourcesOf(t[1], t[2]), u[1] # p PROVE u \in d
    <2>1. u \in SourcesOf(t[1], t[2])'
        BY <1>2, <1>7
    <2>2. u \in all2
        BY <1>4, <2>1 DEF SourcesOf, Followed
    <2>3. ASSUME NEW S \in SUBSET all2, <<p, Draft>> \in S, Closed(p, S)' PROVE u \in S
        <3>1. t \in S
            BY <1>2, <1>4, <2>3 DEF Chain
        <3> QED
            BY <1>7, <2>1, <2>3, <3>1 DEF Closed
    <2> QED
        BY <1>2, <1>4, <2>2, <2>3 DEF Chain
<1>8. c \subseteq d
    <2> DEFINE S == c \cap d
    <2>1. Closed(p, S)
        BY <1>5, <1>7 DEF Closed
    <2>2. S \in SUBSET ({<<p, Draft>>} \cup Followed) /\ <<p, Draft>> \in S
        BY <1>3, <1>5, <1>6
    <2> HIDE DEF S
    <2>3. Chain(p) \subseteq S
        BY <2>1, <2>2, ChainIsLeast
    <2> QED
        BY <1>1, <2>3 DEF S
<1>9. Closed(p, c)'
    <2> SUFFICES ASSUME NEW t \in c, NEW u \in SourcesOf(t[1], t[2])', u[1] # p PROVE u \in c
        BY DEF Closed
    <2>1. u \in SourcesOf(t[1], t[2])
        BY <1>2, <1>8
    <2> QED
        BY <1>5, <2>1 DEF Closed
<1>10. c \in SUBSET all2
    BY <1>6, <1>8
<1>11. \A t \in d : t \in c
    BY <1>2, <1>4, <1>5, <1>9, <1>10 DEF Chain
<1> QED
    BY <1>1, <1>2, <1>8, <1>11

-----------------------------------------------------------------------------
(* What a statement writes.                                                *)

\* An edit of the live tables.
IsEdit ==
    \/ \E p \in Projects : EditProject(p)
    \/ \E p, q \in Projects : SetParent(p, q) \/ RemoveParent(p, q)
    \/ \E p \in Projects, o \in Ontologies : SwitchOntology(p, o)

LEMMA EditIs ==
    ASSUME IsEdit
    PROVE  /\ UNCHANGED <<released, archMeta, archLinks, archOnts, tx, found>>
           /\ drafts' = IF tx = None THEN {} ELSE drafts \cup {DraftRows(tx.project)'}
           /\ raced => raced'
<1>1. Edit /\ (raced => raced')
    <2>1. ASSUME NEW p \in Projects, NEW q \in Projects, SetParent(p, q) PROVE Edit /\ (raced => raced')
        BY <2>1, Zenon DEF SetParent
    <2>2. ASSUME NEW p \in Projects, EditProject(p) PROVE Edit /\ (raced => raced')
        BY <2>2, Zenon DEF EditProject
    <2>3. ASSUME NEW p \in Projects, NEW q \in Projects, RemoveParent(p, q) PROVE Edit /\ (raced => raced')
        BY <2>3, Zenon DEF RemoveParent
    <2>4. ASSUME NEW p \in Projects, NEW o \in Ontologies, SwitchOntology(p, o) PROVE Edit /\ (raced => raced')
        BY <2>4, Zenon DEF SwitchOntology
    <2> QED
        BY <2>1, <2>2, <2>3, <2>4 DEF IsEdit
<1>2. UNCHANGED <<released, archMeta, archLinks, archOnts, tx, found>>
    BY <1>1 DEF Edit, archive
<1>3. drafts' = IF tx = None THEN {} ELSE drafts \cup {DraftRows(tx.project)'}
    BY <1>1, Zenon DEF Edit
<1> QED
    BY <1>1, <1>2, <1>3

\* The transaction moves on.
LEMMA StatementIs ==
    ASSUME TxOK, ArchiveLinks \/ ArchiveMeta \/ ArchiveOnts
    PROVE  /\ tx # None /\ tx' # None /\ tx' \in Transaction
           /\ tx.project \in Projects /\ tx.version \in Numbers
           /\ tx'.project = tx.project /\ tx'.version = tx.version
           /\ ArchiveLinks => tx.at = "links" /\ tx'.at = "project"
           /\ ArchiveMeta => tx.at = "project" /\ tx'.at = "ontologies"
           /\ ArchiveOnts => tx.at = "ontologies" /\ tx'.at = "commit"
           /\ UNCHANGED <<meta, links, onts, released, found, drafts, raced>>
           /\ ArchiveLinks => UNCHANGED <<archMeta, archOnts>>
           /\ ArchiveMeta => UNCHANGED <<archLinks, archOnts>>
           /\ ArchiveOnts => UNCHANGED <<archMeta, archLinks>>
<1>1. tx # None /\ tx \in Transaction
    BY DEF TxOK, ArchiveLinks, ArchiveMeta, ArchiveOnts
<1>2. /\ ArchiveLinks => tx.at = "links" /\ tx' = [tx EXCEPT !.at = "project"]
      /\ ArchiveMeta => tx.at = "project" /\ tx' = [tx EXCEPT !.at = "ontologies"]
      /\ ArchiveOnts => tx.at = "ontologies" /\ tx' = [tx EXCEPT !.at = "commit"]
    BY DEF ArchiveLinks, ArchiveMeta, ArchiveOnts
<1>3. tx' \in Transaction /\ tx'.project = tx.project /\ tx'.version = tx.version
    BY <1>1, <1>2 DEF Transaction
<1>7. /\ ArchiveLinks => tx.at = "links" /\ tx'.at = "project"
      /\ ArchiveMeta => tx.at = "project" /\ tx'.at = "ontologies"
      /\ ArchiveOnts => tx.at = "ontologies" /\ tx'.at = "commit"
    BY <1>1, <1>2 DEF Transaction
<1>4. tx' # None
    BY <1>3, ReleaseLineageAssumption DEF Transaction
<1>5. tx.project \in Projects /\ tx.version \in Numbers
    BY <1>1 DEF Transaction
<1>6. /\ UNCHANGED <<meta, links, onts, released, found, drafts, raced>>
      /\ ArchiveLinks => UNCHANGED <<archMeta, archOnts>>
      /\ ArchiveMeta => UNCHANGED <<archLinks, archOnts>>
      /\ ArchiveOnts => UNCHANGED <<archMeta, archLinks>>
    BY DEF ArchiveLinks, ArchiveMeta, ArchiveOnts, live, history
<1> QED
    BY <1>1, <1>3, <1>4, <1>5, <1>6, <1>7

\* weave_project_inheritance_archive: the parents of the members of the chain, each
\* once per project and number.
LEMMA ArchiveLinksIs ==
    ASSUME ArchiveLinks
    PROVE  /\ archLinks \subseteq archLinks'
           /\ \A a \in archLinks' \ archLinks :
                /\ \E t \in Chain(tx.project) : \E s \in SourcesOf(t[1], t[2]) :
                     a = <<t[1], tx.version, s[1], s[2]>>
                /\ \A b \in archLinks : ~(b[1] = a[1] /\ b[2] = tx.version /\ b[3] = a[3])
           /\ \A t \in Chain(tx.project) : \A s \in SourcesOf(t[1], t[2]) :
                \E a \in archLinks' : a[1] = t[1] /\ a[2] = tx.version /\ a[3] = s[1]
           /\ \A a, b \in archLinks' \ archLinks : a[1] = b[1] /\ a[3] = b[3] => a = b
<1>1. PICK c, v : c = Chain(tx.project) /\ v = tx.version
    OBVIOUS
<1>2. PICK rows : rows = UNION {{<<t[1], s[1], s[2]>> : s \in SourcesOf(t[1], t[2])} : t \in c}
    OBVIOUS
<1>3. PICK free : free = {n \in rows : ~\E a \in archLinks : a[1] = n[1] /\ a[2] = v /\ a[3] = n[2]}
    OBVIOUS
<1>4. PICK kept \in SUBSET free :
         /\ \A n \in free : \E k \in kept : k[1] = n[1] /\ k[2] = n[2]
         /\ \A k, n \in kept : k[1] = n[1] /\ k[2] = n[2] => k = n
         /\ archLinks' = archLinks \cup {<<n[1], v, n[2], n[3]>> : n \in kept}
    <2> DEFINE rws == UNION {{<<t[1], s[1], s[2]>> : s \in SourcesOf(t[1], t[2])} : t \in Chain(tx.project)}
               fr == {n \in rws : ~\E a \in archLinks : a[1] = n[1] /\ a[2] = tx.version /\ a[3] = n[2]}
    <2>1. \E kept \in SUBSET fr :
             /\ \A n \in fr : \E k \in kept : k[1] = n[1] /\ k[2] = n[2]
             /\ \A k, n \in kept : k[1] = n[1] /\ k[2] = n[2] => k = n
             /\ archLinks' = archLinks \cup {<<n[1], tx.version, n[2], n[3]>> : n \in kept}
        BY Zenon DEF ArchiveLinks
    <2>2. rws = rows
        BY <1>1, <1>2
    <2> HIDE DEF rws
    <2>3. fr = free
        BY <1>1, <1>3, <2>2
    <2> HIDE DEF fr
    <2> QED
        BY <1>1, <2>1, <2>3
<1>5. \A n \in rows : \E t \in c : \E s \in SourcesOf(t[1], t[2]) : n = <<t[1], s[1], s[2]>>
    BY <1>2
<1>6. \A a \in archLinks' \ archLinks : \E n \in kept : a = <<n[1], v, n[2], n[3]>>
    BY <1>4
<1>7. ASSUME NEW a \in archLinks' \ archLinks
      PROVE  /\ \E t \in c : \E s \in SourcesOf(t[1], t[2]) : a = <<t[1], v, s[1], s[2]>>
             /\ \A b \in archLinks : ~(b[1] = a[1] /\ b[2] = v /\ b[3] = a[3])
    <2>1. PICK n \in kept : a = <<n[1], v, n[2], n[3]>>
        BY <1>6
    <2>2. n \in free /\ n \in rows
        BY <1>3, <1>4
    <2>3. PICK t \in c : \E s \in SourcesOf(t[1], t[2]) : n = <<t[1], s[1], s[2]>>
        BY <1>5, <2>2
    <2>4. PICK s \in SourcesOf(t[1], t[2]) : n = <<t[1], s[1], s[2]>>
        BY <2>3
    <2>5. a = <<t[1], v, s[1], s[2]>>
        BY <2>1, <2>4
    <2>6. \A b \in archLinks : ~(b[1] = a[1] /\ b[2] = v /\ b[3] = a[3])
        BY <1>3, <2>1, <2>2
    <2> QED
        BY <2>5, <2>6
<1>8. ASSUME NEW t \in c, NEW s \in SourcesOf(t[1], t[2])
      PROVE  \E a \in archLinks' : a[1] = t[1] /\ a[2] = v /\ a[3] = s[1]
    <2>1. PICK n : n = <<t[1], s[1], s[2]>>
        OBVIOUS
    <2>2. n \in rows /\ n[1] = t[1] /\ n[2] = s[1]
        BY <1>2, <2>1
    <2>3. CASE n \in free
        <3>1. PICK k \in kept : k[1] = n[1] /\ k[2] = n[2]
            BY <1>4, <2>3
        <3>2. <<k[1], v, k[2], k[3]>> \in archLinks'
            BY <1>4
        <3> QED
            BY <2>2, <3>1, <3>2
    <2>4. CASE n \notin free
        <3>1. PICK a \in archLinks : a[1] = n[1] /\ a[2] = v /\ a[3] = n[2]
            BY <1>3, <2>2, <2>4
        <3> QED
            BY <1>4, <2>2, <3>1
    <2> QED
        BY <2>3, <2>4
<1>9. ASSUME NEW a \in archLinks' \ archLinks, NEW b \in archLinks' \ archLinks, a[1] = b[1], a[3] = b[3]
      PROVE  a = b
    <2>1. PICK n \in kept : a = <<n[1], v, n[2], n[3]>>
        BY <1>6
    <2>2. PICK m \in kept : b = <<m[1], v, m[2], m[3]>>
        BY <1>6
    <2>3. n = m
        BY <1>4, <1>9, <2>1, <2>2
    <2> QED
        BY <2>1, <2>2, <2>3
<1>10. archLinks \subseteq archLinks'
    BY <1>4
<1> QED
    BY <1>1, <1>7, <1>8, <1>9, <1>10

\* weave_projects_archive: the row of each member, once per project and number.
LEMMA ArchiveMetaIs ==
    ASSUME ArchiveMeta
    PROVE  /\ archMeta \subseteq archMeta'
           /\ \A a \in archMeta' \ archMeta :
                /\ a = <<a[1], tx.version, a[3]>> /\ a[3] \in 0..MaxChanges
                /\ \E t \in Chain(tx.project) : t[1] = a[1] /\ a[3] \in MetaRows(t)
                /\ \A b \in archMeta : ~(b[1] = a[1] /\ b[2] = tx.version)
           /\ \A t \in Chain(tx.project) : \E a \in archMeta' : a[1] = t[1] /\ a[2] = tx.version
           /\ \A a, b \in archMeta' \ archMeta : a[1] = b[1] => a = b
<1>1. PICK c, v : c = Chain(tx.project) /\ v = tx.version
    OBVIOUS
<1>2. PICK taken : taken = {a[1] : a \in {b \in archMeta : b[2] = v}}
    OBVIOUS
<1>3. PICK free : free = {t[1] : t \in c} \ taken
    OBVIOUS
<1>4. PICK row \in [free -> 0..MaxChanges] :
         /\ \A p \in free : \E t \in c : t[1] = p /\ row[p] \in MetaRows(t)
         /\ archMeta' = archMeta \cup {<<p, v, row[p]>> : p \in free}
    <2> DEFINE tk == {a[1] : a \in {b \in archMeta : b[2] = tx.version}}
               fr == {t[1] : t \in Chain(tx.project)} \ tk
    <2>1. \E row \in [fr -> 0..MaxChanges] :
             /\ \A p \in fr : \E t \in Chain(tx.project) : t[1] = p /\ row[p] \in MetaRows(t)
             /\ archMeta' = archMeta \cup {<<p, tx.version, row[p]>> : p \in fr}
        BY Zenon DEF ArchiveMeta
    <2>2. fr = free
        BY <1>1, <1>2, <1>3
    <2> HIDE DEF fr
    <2> QED
        BY <1>1, <2>1, <2>2
<1>5. \A a \in archMeta' \ archMeta : \E p \in free : a = <<p, v, row[p]>>
    BY <1>4
<1>6. ASSUME NEW a \in archMeta' \ archMeta
      PROVE  /\ a = <<a[1], v, a[3]>> /\ a[3] \in 0..MaxChanges
             /\ \E t \in c : t[1] = a[1] /\ a[3] \in MetaRows(t)
             /\ \A b \in archMeta : ~(b[1] = a[1] /\ b[2] = v)
    <2>1. PICK p \in free : a = <<p, v, row[p]>>
        BY <1>5
    <2>2. row[p] \in 0..MaxChanges /\ \E t \in c : t[1] = p /\ row[p] \in MetaRows(t)
        BY <1>4
    <2>3. a[1] = p /\ a[3] = row[p]
        BY <2>1
    <2>4. p \notin taken
        BY <1>3
    <2> QED
        BY <1>2, <2>1, <2>2, <2>3, <2>4
<1>7. ASSUME NEW t \in c
      PROVE  \E a \in archMeta' : a[1] = t[1] /\ a[2] = v
    <2>1. CASE t[1] \in free
        <3>1. <<t[1], v, row[t[1]]>> \in archMeta'
            BY <1>4, <2>1
        <3> QED
            BY <3>1
    <2>2. CASE t[1] \in taken
        <3>1. PICK b \in archMeta : b[2] = v /\ b[1] = t[1]
            BY <1>2, <2>2
        <3> QED
            BY <1>4, <3>1
    <2> QED
        BY <1>3, <2>1, <2>2
<1>8. \A a, b \in archMeta' \ archMeta : a[1] = b[1] => a = b
    <2> SUFFICES ASSUME NEW a \in archMeta' \ archMeta, NEW b \in archMeta' \ archMeta, a[1] = b[1]
                 PROVE  a = b
        OBVIOUS
    <2>1. PICK p \in free : a = <<p, v, row[p]>>
        BY <1>5
    <2>2. PICK q \in free : b = <<q, v, row[q]>>
        BY <1>5
    <2> QED
        BY <2>1, <2>2
<1>9. archMeta \subseteq archMeta'
    BY <1>4
<1> QED
    BY <1>1, <1>6, <1>7, <1>8, <1>9

\* weave_project_ontology_versions_archive: all rows of all members.
LEMMA ArchiveOntsIs ==
    ASSUME ArchiveOnts
    PROVE  /\ archOnts \subseteq archOnts'
           /\ \A a \in archOnts' \ archOnts :
                \E t \in Chain(tx.project) : \E o \in OntRows(t) : a = <<t[1], tx.version, o>>
           /\ \A t \in Chain(tx.project) : \A o \in OntRows(t) : <<t[1], tx.version, o>> \in archOnts'
<1>1. PICK rows : rows = UNION {{<<t[1], tx.version, o>> : o \in OntRows(t)} : t \in Chain(tx.project)}
    OBVIOUS
<1>2. archOnts' = archOnts \cup rows
    <2>1. archOnts' = archOnts \cup UNION {{<<t[1], tx.version, o>> : o \in OntRows(t)} : t \in Chain(tx.project)}
        BY Zenon DEF ArchiveOnts
    <2> QED
        BY <1>1, <2>1
<1>3. \A a \in rows : \E t \in Chain(tx.project) : \E o \in OntRows(t) : a = <<t[1], tx.version, o>>
    BY <1>1
<1>4. \A t \in Chain(tx.project) : \A o \in OntRows(t) : <<t[1], tx.version, o>> \in rows
    BY <1>1
<1> QED
    BY <1>2, <1>3, <1>4

-----------------------------------------------------------------------------
(* The tables.                                                             *)

LEMMA EditBasics ==
    ASSUME Basics, IsEdit
    PROVE  Basics'
<1>1. UNCHANGED <<released, archMeta, archLinks, archOnts, tx>>
    BY EditIs
<1>2. \A q, s : Pinned(q, s)' <=> Pinned(q, s)
    BY <1>1 DEF Pinned
<1>3. TxOK' /\ ArchLinksOK' /\ ArchMetaOK' /\ NumbersOK' /\ Held'
    BY <1>1, <1>2 DEF Basics, TxOK, ArchLinksOK, ArchMetaOK, NumbersOK, Held, Numbered, HasMeta
<1>4. ASSUME links' \subseteq links PROVE LinksOK'
    BY <1>2, <1>4 DEF Basics, LinksOK
<1>5. ASSUME NEW p \in Projects, NEW q \in Projects, SetParent(p, q) PROVE LinksOK'
    <2>1. PICK source \in {Draft} \cup {v \in Numbers : <<q, v>> \in released} :
             links' = {l \in links : l[1] # p \/ l[2] # q} \cup {<<p, q, source>>}
        BY <1>5 DEF SetParent
    <2>2. LinksOK /\ (source = Draft \/ Pinned(q, source)) /\ source \in Numbers \cup {Draft}
        BY <2>1 DEF Basics, Pinned
    <2>3. \A l \in links' : l = <<p, q, source>> \/ (l \in links /\ (l[1] # p \/ l[2] # q))
        BY <2>1
    <2>4. links' \subseteq Projects \X Projects \X (Numbers \cup {Draft})
        BY <2>2, <2>3 DEF LinksOK
    <2>5. ASSUME NEW l \in links' PROVE l[3] = Draft \/ Pinned(l[2], l[3])'
        <3>1. CASE l = <<p, q, source>>
            <4>1. l[2] = q /\ l[3] = source
                BY <3>1
            <4> QED
                BY <1>2, <2>2, <4>1
        <3>2. CASE l \in links
            BY <1>2, <2>2, <3>2 DEF LinksOK
        <3> QED
            BY <2>3, <3>1, <3>2
    <2>6. \A k, l \in links' : k[1] = l[1] /\ k[2] = l[2] => k = l
        BY <2>2, <2>3 DEF LinksOK
    <2> QED
        BY <2>4, <2>5, <2>6 DEF LinksOK
<1>6. LinksOK'
    BY <1>4, <1>5 DEF IsEdit, EditProject, RemoveParent, SwitchOntology
<1> QED
    BY <1>3, <1>6 DEF Basics

LEMMA LinksBasics ==
    ASSUME Basics, ArchiveLinks
    PROVE  Basics'
<1>1. /\ tx # None /\ tx' # None /\ tx' \in Transaction
      /\ tx.project \in Projects /\ tx.version \in Numbers
      /\ tx'.project = tx.project /\ tx'.version = tx.version /\ tx.at = "links" /\ tx'.at = "project"
      /\ UNCHANGED <<meta, links, released, archMeta, archOnts>>
    BY StatementIs DEF Basics
<1>2. \A q, s : Pinned(q, s)' <=> Pinned(q, s)
    BY <1>1 DEF Pinned
<1>3. TxOK' /\ LinksOK' /\ ArchMetaOK' /\ Held'
    BY <1>1, <1>2 DEF Basics, TxOK, LinksOK, ArchMetaOK, Held, HasMeta
<1>4. ASSUME NEW a \in archLinks', a \notin archLinks
      PROVE  /\ a \in Projects \X Numbers \X Projects \X (Numbers \cup {Draft})
             /\ a[2] = tx.version /\ (a[4] = Draft \/ Pinned(a[3], a[4]))
             /\ \A b \in archLinks : ~(b[1] = a[1] /\ b[2] = a[2] /\ b[3] = a[3])
    <2>1. PICK t \in Chain(tx.project) : \E s \in SourcesOf(t[1], t[2]) : a = <<t[1], tx.version, s[1], s[2]>>
        BY <1>4, ArchiveLinksIs
    <2>2. PICK s \in SourcesOf(t[1], t[2]) : a = <<t[1], tx.version, s[1], s[2]>>
        BY <2>1
    <2>3. t[1] \in Projects
        BY <1>1, ChainMembers DEF Basics
    <2>4. s[1] \in Projects /\ s[2] \in Numbers \cup {Draft} /\ (s[2] = Draft \/ Pinned(s[1], s[2]))
        BY SourcesAre DEF Basics
    <2>5. \A b \in archLinks : ~(b[1] = a[1] /\ b[2] = tx.version /\ b[3] = a[3])
        BY <1>4, ArchiveLinksIs
    <2>6. a[1] = t[1] /\ a[2] = tx.version /\ a[3] = s[1] /\ a[4] = s[2]
        BY <2>2
    <2> QED
        BY <1>1, <2>2, <2>3, <2>4, <2>5, <2>6
<1>5. ArchLinksOK'
    <2>1. ArchLinksOK
        BY DEF Basics
    <2>2. archLinks' \subseteq Projects \X Numbers \X Projects \X (Numbers \cup {Draft})
        BY <1>4, <2>1 DEF ArchLinksOK
    <2>3. \A a \in archLinks' : a[4] = Draft \/ Pinned(a[3], a[4])'
        BY <1>2, <1>4, <2>1 DEF ArchLinksOK
    <2>4. \A a, b \in archLinks' \ archLinks : a[1] = b[1] /\ a[3] = b[3] => a = b
        BY ArchiveLinksIs
    <2>5. \A a, b \in archLinks' : a[1] = b[1] /\ a[2] = b[2] /\ a[3] = b[3] => a = b
        BY <1>4, <2>1, <2>4 DEF ArchLinksOK
    <2> QED
        BY <2>2, <2>3, <2>5 DEF ArchLinksOK
<1>6. NumbersOK'
    <2>1. \A a \in archLinks' : Numbered(a[2])' \/ a[2] = tx.version
        BY <1>1, <1>4 DEF Basics, NumbersOK, Numbered
    <2>2. (\A a \in archMeta' : Numbered(a[2])') /\ (\A a \in archOnts' : Numbered(a[2])')
        BY <1>1 DEF Basics, NumbersOK, Numbered
    <2> QED
        BY <1>1, <2>1, <2>2 DEF NumbersOK
<1> QED
    BY <1>3, <1>5, <1>6 DEF Basics

LEMMA MetaBasics ==
    ASSUME Basics, ArchiveMeta
    PROVE  Basics'
<1>1. /\ tx # None /\ tx' # None /\ tx' \in Transaction
      /\ tx.project \in Projects /\ tx.version \in Numbers
      /\ tx'.project = tx.project /\ tx'.version = tx.version /\ tx.at = "project" /\ tx'.at = "ontologies"
      /\ UNCHANGED <<links, released, archLinks, archOnts>>
    BY StatementIs DEF Basics
<1>2. \A q, s : Pinned(q, s)' <=> Pinned(q, s)
    BY <1>1 DEF Pinned
<1>3. TxOK' /\ LinksOK' /\ ArchLinksOK'
    BY <1>1, <1>2 DEF Basics, TxOK, LinksOK, ArchLinksOK
<1>4. ASSUME NEW a \in archMeta', a \notin archMeta
      PROVE  /\ a \in Projects \X Numbers \X (0..MaxChanges)
             /\ a[2] = tx.version /\ \A b \in archMeta : ~(b[1] = a[1] /\ b[2] = a[2])
    <2>1. /\ a = <<a[1], tx.version, a[3]>> /\ a[3] \in 0..MaxChanges
          /\ \E t \in Chain(tx.project) : t[1] = a[1] /\ a[3] \in MetaRows(t)
          /\ \A b \in archMeta : ~(b[1] = a[1] /\ b[2] = tx.version)
        BY <1>4, ArchiveMetaIs
    <2>2. a[1] \in Projects
        BY <1>1, <2>1, ChainMembers DEF Basics
    <2>3. a[2] = tx.version
        BY <2>1
    <2> QED
        BY <1>1, <2>1, <2>2, <2>3
<1>5. ArchMetaOK'
    <2>1. ArchMetaOK
        BY DEF Basics
    <2>2. archMeta' \subseteq Projects \X Numbers \X (0..MaxChanges)
        BY <1>4, <2>1 DEF ArchMetaOK
    <2>3. \A a, b \in archMeta' \ archMeta : a[1] = b[1] => a = b
        BY ArchiveMetaIs
    <2>4. \A a, b \in archMeta' : a[1] = b[1] /\ a[2] = b[2] => a = b
        BY <1>4, <2>1, <2>3 DEF ArchMetaOK
    <2> QED
        BY <2>2, <2>4 DEF ArchMetaOK
<1>6. NumbersOK'
    <2>1. \A a \in archMeta' : Numbered(a[2])' \/ a[2] = tx.version
        BY <1>1, <1>4 DEF Basics, NumbersOK, Numbered
    <2>2. /\ \A a \in archLinks' : Numbered(a[2])' \/ a[2] = tx.version
          /\ \A a \in archOnts' : Numbered(a[2])'
        BY <1>1 DEF Basics, NumbersOK, Numbered
    <2> QED
        BY <1>1, <2>1, <2>2 DEF NumbersOK
<1>7. Held'
    <2>1. \A p, v : HasMeta(p, v) => HasMeta(p, v)'
        BY ArchiveMetaIs DEF HasMeta
    <2>2. HasMeta(tx.project, tx.version)'
        <3>1. PICK t \in Chain(tx.project) : t = <<tx.project, Draft>>
            BY ChainIsLeast
        <3>2. PICK a \in archMeta' : a[1] = t[1] /\ a[2] = tx.version
            BY ArchiveMetaIs
        <3> QED
            BY <1>1, <3>1, <3>2 DEF HasMeta
    <2> QED
        BY <1>1, <2>1, <2>2 DEF Basics, Held
<1> QED
    BY <1>3, <1>5, <1>6, <1>7 DEF Basics

LEMMA OntsBasics ==
    ASSUME Basics, ArchiveOnts
    PROVE  Basics'
<1>1. /\ tx # None /\ tx' # None /\ tx' \in Transaction
      /\ tx'.project = tx.project /\ tx'.version = tx.version /\ tx.at = "ontologies" /\ tx'.at = "commit"
      /\ UNCHANGED <<links, released, archLinks, archMeta>>
    BY StatementIs DEF Basics
<1>2. \A q, s : Pinned(q, s)' <=> Pinned(q, s)
    BY <1>1 DEF Pinned
<1>3. TxOK' /\ LinksOK' /\ ArchLinksOK' /\ ArchMetaOK' /\ Held'
    BY <1>1, <1>2 DEF Basics, TxOK, LinksOK, ArchLinksOK, ArchMetaOK, Held, HasMeta
<1>4. ASSUME NEW a \in archOnts', a \notin archOnts PROVE a[2] = tx.version
    <2>1. PICK t \in Chain(tx.project) : \E o \in OntRows(t) : a = <<t[1], tx.version, o>>
        BY <1>4, ArchiveOntsIs
    <2> QED
        BY <2>1
<1>5. NumbersOK'
    <2>1. \A a \in archOnts' : Numbered(a[2])' \/ a[2] = tx.version
        BY <1>1, <1>4 DEF Basics, NumbersOK, Numbered
    <2>2. /\ \A a \in archLinks' : Numbered(a[2])' \/ a[2] = tx.version
          /\ \A a \in archMeta' : Numbered(a[2])' \/ a[2] = tx.version
        BY <1>1 DEF Basics, NumbersOK, Numbered
    <2> QED
        BY <1>1, <2>1, <2>2 DEF NumbersOK
<1> QED
    BY <1>3, <1>5 DEF Basics

LEMMA BeginBasics ==
    ASSUME Basics, NEW p \in Projects, NEW v \in Numbers, Begin(p, v)
    PROVE  Basics'
<1>1. /\ tx = None /\ UNCHANGED <<links, released, archMeta, archLinks, archOnts>>
      /\ tx' = [project |-> p, version |-> v, at |-> "links"] /\ <<p, v>> \notin released
    BY DEF Begin, live, archive
<1>2. tx' \in Transaction /\ tx'.project = p /\ tx'.version = v /\ tx'.at = "links"
    BY <1>1 DEF Transaction
<1>3. \A q, s : Pinned(q, s)' <=> Pinned(q, s)
    BY <1>1 DEF Pinned
<1>4. TxOK' /\ LinksOK' /\ ArchLinksOK' /\ ArchMetaOK' /\ Held'
    BY <1>1, <1>2, <1>3 DEF Basics, TxOK, LinksOK, ArchLinksOK, ArchMetaOK, Held, HasMeta
<1>5. NumbersOK'
    BY <1>1 DEF Basics, NumbersOK, Numbered
<1> QED
    BY <1>4, <1>5 DEF Basics

LEMMA CommitBasics ==
    ASSUME Basics, Commit
    PROVE  Basics'
<1>1. /\ tx # None /\ tx.at = "commit" /\ tx' = None
      /\ UNCHANGED <<links, archMeta, archLinks, archOnts>>
      /\ released' = released \cup {<<tx.project, tx.version>>}
    BY DEF Commit, live, archive
<1>2. PICK p, v : p = tx.project /\ v = tx.version
    OBVIOUS
<1>3. p \in Projects /\ v \in Numbers
    BY <1>1, <1>2 DEF Basics, TxOK, Transaction
<1>4. released' = released \cup {<<p, v>>}
    BY <1>1, <1>2
<1>5. (\A q, s : Pinned(q, s) => Pinned(q, s)') /\ (\A n : Numbered(n) \/ n = v => Numbered(n)')
    <2>1. PICK r : r = <<p, v>>
        OBVIOUS
    <2>2. r \in released' /\ r[2] = v
        BY <1>4, <2>1
    <2>3. \A n : Numbered(n) \/ n = v => Numbered(n)'
        BY <1>4, <2>2 DEF Numbered
    <2> QED
        BY <1>4, <2>3 DEF Pinned
<1>6. TxOK'
    BY <1>1, <1>3, <1>4 DEF Basics, TxOK
<1>7. LinksOK' /\ ArchLinksOK' /\ ArchMetaOK'
    BY <1>1, <1>5 DEF Basics, LinksOK, ArchLinksOK, ArchMetaOK
<1>8. NumbersOK'
    BY <1>1, <1>2, <1>5 DEF Basics, NumbersOK
<1>9. Held'
    <2>1. \A q, s : HasMeta(q, s)' <=> HasMeta(q, s)
        BY <1>1 DEF HasMeta
    <2>2. HasMeta(p, v)
        BY <1>1, <1>2 DEF Basics, Held
    <2>3. \A r \in released' : r \in released \/ (r[1] = p /\ r[2] = v)
        BY <1>4
    <2>4. \A r \in released' : HasMeta(r[1], r[2])
        BY <2>2, <2>3 DEF Basics, Held
    <2> QED
        BY <1>1, <2>1, <2>4 DEF Held
<1> QED
    BY <1>6, <1>7, <1>8, <1>9 DEF Basics

LEMMA NextIs ==
    Next <=> \/ IsEdit
             \/ \E p \in Projects, v \in Numbers : Begin(p, v)
             \/ ArchiveLinks \/ ArchiveMeta \/ ArchiveOnts \/ Commit
BY DEF Next, IsEdit, Create

LEMMA BasicsAlways == Spec => []Basics
<1>1. Init => Basics
    BY DEF Init, Basics, TxOK, LinksOK, ArchLinksOK, ArchMetaOK, NumbersOK, Held
<1>2. Basics /\ [Next]_vars => Basics'
    <2> SUFFICES ASSUME Basics, [Next]_vars PROVE Basics'
        OBVIOUS
    <2>1. CASE UNCHANGED vars
        <3>1. UNCHANGED <<links, released, archMeta, archLinks, archOnts, tx>>
            BY <2>1 DEF vars
        <3> QED
            BY <3>1 DEF Basics, TxOK, LinksOK, ArchLinksOK, ArchMetaOK, NumbersOK, Held,
                        Numbered, Pinned, HasMeta
    <2> QED
        BY <2>1, NextIs, EditBasics, BeginBasics, LinksBasics, MetaBasics, OntsBasics, CommitBasics
<1> QED
    BY <1>1, <1>2, PTL DEF Spec

-----------------------------------------------------------------------------
(* Releases once made.                                                     *)

LEMMA RowsAre ==
    ASSUME NEW p, NEW v
    PROVE  /\ Rows(p, v).meta = {a[3] : a \in {b \in archMeta : b[1] = p /\ b[2] = v}}
           /\ Rows(p, v).links = {<<a[3], a[4]>> : a \in {b \in archLinks : b[1] = p /\ b[2] = v}}
           /\ Rows(p, v).onts = {a[3] : a \in {b \in archOnts : b[1] = p /\ b[2] = v}}
           /\ Rows(p, v) = [meta |-> Rows(p, v).meta, links |-> Rows(p, v).links, onts |-> Rows(p, v).onts]
BY DEF Rows

\* A statement writes under the number of the transaction, for the projects of its
\* chain.
LEMMA WritesItsOwn ==
    ASSUME Basics, ArchiveLinks \/ ArchiveMeta \/ ArchiveOnts, NEW p, NEW v,
           v # tx.version \/ ~\E t \in Chain(tx.project) : t[1] = p
    PROVE  Rows(p, v)' = Rows(p, v)
<1>1. CASE ArchiveLinks
    <2>1. \A a \in archLinks' \ archLinks : a[2] = tx.version /\ \E t \in Chain(tx.project) : t[1] = a[1]
        <3> SUFFICES ASSUME NEW a \in archLinks' \ archLinks
                     PROVE  a[2] = tx.version /\ \E t \in Chain(tx.project) : t[1] = a[1]
            OBVIOUS
        <3>1. PICK t \in Chain(tx.project) : \E s \in SourcesOf(t[1], t[2]) : a = <<t[1], tx.version, s[1], s[2]>>
            BY <1>1, ArchiveLinksIs
        <3> QED
            BY <3>1
    <2>2. \A a : a[1] = p /\ a[2] = v => (a \in archLinks' <=> a \in archLinks)
        BY <1>1, <2>1, ArchiveLinksIs
    <2>3. UNCHANGED <<archMeta, archOnts>>
        BY <1>1, StatementIs DEF Basics
    <2> QED BY <2>2, <2>3 DEF Rows
<1>2. CASE ArchiveMeta
    <2>1. \A a \in archMeta' \ archMeta : a[2] = tx.version /\ \E t \in Chain(tx.project) : t[1] = a[1]
        <3> SUFFICES ASSUME NEW a \in archMeta' \ archMeta
                     PROVE  a[2] = tx.version /\ \E t \in Chain(tx.project) : t[1] = a[1]
            OBVIOUS
        <3>1. a = <<a[1], tx.version, a[3]>> /\ \E t \in Chain(tx.project) : t[1] = a[1]
            BY <1>2, ArchiveMetaIs
        <3> QED
            BY <3>1
    <2>2. \A a : a[1] = p /\ a[2] = v => (a \in archMeta' <=> a \in archMeta)
        BY <1>2, <2>1, ArchiveMetaIs
    <2>3. UNCHANGED <<archLinks, archOnts>>
        BY <1>2, StatementIs DEF Basics
    <2> QED BY <2>2, <2>3 DEF Rows
<1>3. CASE ArchiveOnts
    <2>1. \A a \in archOnts' \ archOnts : a[2] = tx.version /\ \E t \in Chain(tx.project) : t[1] = a[1]
        <3> SUFFICES ASSUME NEW a \in archOnts' \ archOnts
                     PROVE  a[2] = tx.version /\ \E t \in Chain(tx.project) : t[1] = a[1]
            OBVIOUS
        <3>1. PICK t \in Chain(tx.project) : \E o \in OntRows(t) : a = <<t[1], tx.version, o>>
            BY <1>3, ArchiveOntsIs
        <3> QED
            BY <3>1
    <2>2. \A a : a[1] = p /\ a[2] = v => (a \in archOnts' <=> a \in archOnts)
        BY <1>3, <2>1, ArchiveOntsIs
    <2>3. UNCHANGED <<archLinks, archMeta>>
        BY <1>3, StatementIs DEF Basics
    <2> QED BY <2>2, <2>3 DEF Rows
<1> QED
    BY <1>1, <1>2, <1>3

\* No other step writes to the archive.
LEMMA OthersWriteNot ==
    ASSUME [Next]_vars, ~(ArchiveLinks \/ ArchiveMeta \/ ArchiveOnts)
    PROVE  UNCHANGED <<archMeta, archLinks, archOnts>>
<1>1. CASE UNCHANGED vars
    BY <1>1 DEF vars
<1>2. CASE IsEdit
    BY <1>2, EditIs
<1>3. ASSUME NEW p \in Projects, NEW v \in Numbers, Begin(p, v)
      PROVE  UNCHANGED <<archMeta, archLinks, archOnts>>
    BY <1>3 DEF Begin, archive
<1>4. CASE Commit
    BY <1>4 DEF Commit, archive
<1> QED
    BY <1>1, <1>2, <1>3, <1>4, NextIs

\* What a step does to the rows of a release.
LEMMA StepKeeps ==
    ASSUME Basics, [Next]_vars, NEW r \in released
    PROVE  /\ Rows(r[1], r[2])'.meta = Rows(r[1], r[2]).meta
           /\ Rows(r[1], r[2]).links \subseteq Rows(r[1], r[2])'.links
           /\ Rows(r[1], r[2]).onts \subseteq Rows(r[1], r[2])'.onts
           /\ \A k \in Rows(r[1], r[2])'.links \ Rows(r[1], r[2]).links :
                 \A f \in Rows(r[1], r[2]).links : f[1] # k[1]
           /\ Rows(r[1], r[2])' # Rows(r[1], r[2]) =>
                 /\ tx # None /\ tx.version = r[2] /\ tx.project # r[1]
                 /\ \E t \in Chain(tx.project) : t[1] = r[1]
<1>1. PICK p, v : p = r[1] /\ v = r[2]
    OBVIOUS
<1>2. r = <<p, v>> /\ HasMeta(p, v)
    BY <1>1 DEF Basics, TxOK, Held
<1>3. CASE Rows(p, v)' = Rows(p, v)
    BY <1>1, <1>3
<1>4. CASE Rows(p, v)' # Rows(p, v)
    <2>1. ArchiveLinks \/ ArchiveMeta \/ ArchiveOnts
        <3> SUFFICES ASSUME ~(ArchiveLinks \/ ArchiveMeta \/ ArchiveOnts) PROVE FALSE
            OBVIOUS
        <3>1. UNCHANGED <<archMeta, archLinks, archOnts>>
            BY OthersWriteNot
        <3> QED
            BY <1>4, <3>1 DEF Rows
    <2>2. v = tx.version /\ \E t \in Chain(tx.project) : t[1] = p
        BY <1>4, <2>1, WritesItsOwn
    <2>3. tx # None /\ tx.project # p
        BY <1>2, <2>1, <2>2, StatementIs DEF Basics, TxOK
    <2>4. Rows(p, v)'.meta = Rows(p, v).meta
        <3>1. CASE ArchiveMeta
            <4>1. \A a : a[1] = p /\ a[2] = v => (a \in archMeta' <=> a \in archMeta)
                BY <1>2, <2>2, <3>1, ArchiveMetaIs DEF HasMeta
            <4> QED
                BY <4>1 DEF Rows
        <3>2. CASE archMeta' = archMeta
            BY <3>2 DEF Rows
        <3> QED
            BY <2>1, <3>1, <3>2, StatementIs DEF Basics
    <2>5. Rows(p, v).onts \subseteq Rows(p, v)'.onts
        <3>1. archOnts \subseteq archOnts'
            BY <2>1, StatementIs, ArchiveOntsIs DEF Basics
        <3> QED
            BY <3>1 DEF Rows
    <2>6. /\ Rows(p, v).links \subseteq Rows(p, v)'.links
          /\ \A k \in Rows(p, v)'.links \ Rows(p, v).links : \A f \in Rows(p, v).links : f[1] # k[1]
        <3>1. CASE archLinks' = archLinks
            BY <3>1 DEF Rows
        <3>2. CASE ArchiveLinks
            <4>1. archLinks \subseteq archLinks'
                BY <3>2, ArchiveLinksIs
            <4>2. \A a \in archLinks' \ archLinks :
                    \A b \in archLinks : ~(b[1] = a[1] /\ b[2] = tx.version /\ b[3] = a[3])
                BY <3>2, ArchiveLinksIs
            <4>3. ASSUME NEW k \in Rows(p, v)'.links, k \notin Rows(p, v).links,
                         NEW f \in Rows(p, v).links
                  PROVE  f[1] # k[1]
                <5>1. PICK a \in archLinks' : a[1] = p /\ a[2] = v /\ k = <<a[3], a[4]>>
                    BY <4>3 DEF Rows
                <5>2. a \notin archLinks
                    BY <4>3, <5>1 DEF Rows
                <5>3. PICK b \in archLinks : b[1] = p /\ b[2] = v /\ f = <<b[3], b[4]>>
                    BY <4>3 DEF Rows
                <5>4. b[3] # a[3]
                    BY <2>2, <4>2, <5>1, <5>2, <5>3
                <5> QED
                    BY <5>1, <5>3, <5>4
            <4>4. Rows(p, v).links \subseteq Rows(p, v)'.links
                BY <4>1 DEF Rows
            <4> QED
                BY <4>3, <4>4
        <3> QED
            BY <2>1, <3>1, <3>2, StatementIs DEF Basics
    <2> QED
        BY <1>1, <2>2, <2>3, <2>4, <2>5, <2>6
<1> QED
    BY <1>3, <1>4

\* snapshotStatements, ON CONFLICT DO NOTHING: for any lineage and any numbers,
\* nothing in a release is ever taken out, replaced or pinned anew, and what is
\* added comes with the release of a descendant under the same number.
THEOREM NothingReplaced == Spec => ReleaseKeeps
<1>1. Basics /\ [Next]_vars => [\A r \in released : Kept(r)]_vars
    BY StepKeeps DEF Kept
<1> QED
    BY <1>1, BasicsAlways, PTL DEF Spec, ReleaseKeeps

-----------------------------------------------------------------------------
(* What a release is made of.                                              *)

NotIn(l, f) == {k \in l : \A x \in f : x[1] # k[1]}

\* What the release being created holds of its project, statement by statement.
Parts(at, new, old, D) ==
    /\ IF at \in {"links", "project"} \/ old.meta # {}
         THEN new.meta = old.meta
         ELSE \E d \in D : new.meta = d.meta
    /\ IF at = "links"
         THEN new.links = old.links
         ELSE \E d \in D : new.links = old.links \cup NotIn(d.links, old.links)
    /\ IF at # "commit"
         THEN new.onts = old.onts
         ELSE \E d \in D : new.onts = old.onts \cup d.onts

Copying ==
    tx # None =>
        /\ DraftRows(tx.project) \in drafts
        /\ \E d \in drafts : \A k \in d.links : k[2] # Draft
        /\ Parts(tx.at, Rows(tx.project, tx.version), found, drafts)
        /\ found # [meta |-> {}, links |-> {}, onts |-> {}] =>
              \E r \in released : r[2] = tx.version /\ r[1] # tx.project

LEMMA PartsGrow ==
    ASSUME NEW at, NEW new, NEW old, NEW D, NEW E, D \subseteq E, Parts(at, new, old, D)
    PROVE  Parts(at, new, old, E)
BY DEF Parts

LEMMA EditCopying ==
    ASSUME Copying, IsEdit
    PROVE  Copying'
<1> SUFFICES ASSUME tx' # None PROVE Copying'
    BY DEF Copying
<1>1. /\ tx' = tx /\ found' = found /\ released' = released
      /\ UNCHANGED <<archMeta, archLinks, archOnts>>
      /\ drafts' = drafts \cup {DraftRows(tx.project)'}
    BY EditIs
<1>2. PICK p, v, at : p = tx.project /\ v = tx.version /\ at = tx.at
    OBVIOUS
<1>3. Rows(p, v)' = Rows(p, v)
    BY <1>1 DEF Rows
<1>4. DraftRows(tx.project)' \in drafts' /\ drafts \subseteq drafts'
    BY <1>1
<1>5. Parts(at, Rows(p, v), found, drafts)
    BY <1>1, <1>2 DEF Copying
<1>6. Parts(at, Rows(p, v)', found', drafts')
    BY <1>1, <1>3, <1>4, <1>5, PartsGrow
<1>7. Parts(tx.at, Rows(tx.project, tx.version), found, drafts)'
    BY <1>1, <1>2, <1>6 DEF Parts
<1> QED
    BY <1>1, <1>4, <1>7 DEF Copying

LEMMA BeginCopying ==
    ASSUME Basics, NEW p \in Projects, NEW v \in Numbers, Begin(p, v)
    PROVE  Copying'
<1>1. /\ tx' = [project |-> p, version |-> v, at |-> "links"] /\ tx = None
      /\ found' = Rows(p, v) /\ drafts' = {DraftRows(p)} /\ <<p, v>> \notin released
      /\ UNCHANGED <<meta, links, onts, released, archMeta, archLinks, archOnts>>
    BY DEF Begin, live, archive
<1>2. tx'.project = p /\ tx'.version = v /\ tx'.at = "links"
    BY <1>1
<1>3. Rows(p, v)' = Rows(p, v) /\ DraftRows(p)' = DraftRows(p)
    BY <1>1 DEF Rows, DraftRows
<1>4. Parts("links", Rows(p, v)', found', drafts')
    BY <1>1, <1>3 DEF Parts
<1>5. Parts(tx.at, Rows(tx.project, tx.version), found, drafts)'
    BY <1>2, <1>4 DEF Parts
<1>6. DraftRows(tx.project)' \in drafts'
    BY <1>1, <1>2, <1>3
<1>7. ASSUME Rows(p, v) # [meta |-> {}, links |-> {}, onts |-> {}]
      PROVE  \E r \in released : r[2] = v /\ r[1] # p
    <2>1. Numbered(v)
        <3>1. ASSUME NEW a \in archMeta, a[2] = v PROVE Numbered(v)
            BY <1>1, <3>1 DEF Basics, NumbersOK
        <3>2. ASSUME NEW a \in archLinks, a[2] = v PROVE Numbered(v)
            BY <1>1, <3>2 DEF Basics, NumbersOK
        <3>3. ASSUME NEW a \in archOnts, a[2] = v PROVE Numbered(v)
            BY <1>1, <3>3 DEF Basics, NumbersOK
        <3>4. Rows(p, v).meta # {} \/ Rows(p, v).links # {} \/ Rows(p, v).onts # {}
            BY <1>7, RowsAre
        <3> QED
            BY <3>1, <3>2, <3>3, <3>4, RowsAre
    <2>2. PICK r \in released : r[2] = v
        BY <2>1 DEF Numbered
    <2>3. r = <<r[1], r[2]>>
        BY DEF Basics, TxOK
    <2>4. r[1] # p
        BY <1>1, <2>2, <2>3
    <2> QED
        BY <2>2, <2>4
<1>8. \E d \in drafts' : \A k \in d.links : k[2] # Draft
    <2>1. \A k \in DraftRows(p).links : k[2] # Draft
        <3> SUFFICES ASSUME NEW k \in DraftRows(p).links, k[2] = Draft PROVE FALSE
            OBVIOUS
        <3>1. PICK l \in links : l[1] = p /\ k = <<l[2], l[3]>>
            BY DEF DraftRows
        <3>2. l = <<p, l[2], Draft>> /\ l[2] \in Projects
            BY <3>1 DEF Basics, LinksOK
        <3> QED
            BY <3>2 DEF Begin
    <2> QED
        BY <1>1, <2>1
<1> QED
    BY <1>1, <1>2, <1>5, <1>6, <1>7, <1>8 DEF Copying

\* What each statement does for a member of the chain that is there at one source.
LEMMA MemberLinks ==
    ASSUME Basics, ArchiveLinks, NEW p, NEW v, p = tx.project, v = tx.version,
           NEW t \in Chain(p), Single(Chain(p), t)
    PROVE  Rows(t[1], v)'.links =
             Rows(t[1], v).links \cup NotIn(SourcesOf(t[1], t[2]), Rows(t[1], v).links)
<1>1. PICK q, src : q = t[1] /\ src = SourcesOf(t[1], t[2])
    OBVIOUS
<1>2. \A u \in Chain(p) : u[1] = q => SourcesOf(u[1], u[2]) = src
    BY <1>1 DEF Single
<1>3. /\ archLinks \subseteq archLinks'
      /\ \A a \in archLinks' \ archLinks :
           /\ \E u \in Chain(p) : \E s \in SourcesOf(u[1], u[2]) : a = <<u[1], v, s[1], s[2]>>
           /\ \A b \in archLinks : ~(b[1] = a[1] /\ b[2] = v /\ b[3] = a[3])
      /\ \A u \in Chain(p) : \A s \in SourcesOf(u[1], u[2]) :
           \E a \in archLinks' : a[1] = u[1] /\ a[2] = v /\ a[3] = s[1]
    BY ArchiveLinksIs
<1>4. ASSUME NEW a \in archLinks' \ archLinks, a[1] = q
      PROVE  \E s \in src : a = <<q, v, s[1], s[2]>>
    <2>1. PICK u \in Chain(p) : \E s \in SourcesOf(u[1], u[2]) : a = <<u[1], v, s[1], s[2]>>
        BY <1>3
    <2>2. u[1] = q
        BY <1>4, <2>1
    <2> QED
        BY <1>2, <2>1, <2>2
<1>5. \A s, u \in src : s = <<s[1], s[2]>> /\ (s[1] = u[1] => s = u)
    BY <1>1, SourcesAre DEF Basics
<1>6. ASSUME NEW k \in Rows(q, v)'.links, k \notin Rows(q, v).links
      PROVE  k \in NotIn(src, Rows(q, v).links)
    <2>1. PICK a \in archLinks' : a[1] = q /\ a[2] = v /\ k = <<a[3], a[4]>>
        BY <1>6 DEF Rows
    <2>2. a \notin archLinks
        BY <1>6, <2>1 DEF Rows
    <2>3. PICK s \in src : a = <<q, v, s[1], s[2]>>
        BY <1>4, <2>1, <2>2
    <2>4. a[3] = s[1] /\ a[4] = s[2]
        BY <2>3
    <2>5. k = s
        BY <1>5, <2>1, <2>4
    <2>6. ASSUME NEW x \in Rows(q, v).links PROVE x[1] # k[1]
        <3>1. PICK b \in archLinks : b[1] = q /\ b[2] = v /\ x = <<b[3], b[4]>>
            BY DEF Rows
        <3>2. b[3] # a[3]
            BY <1>3, <2>1, <2>2, <3>1
        <3> QED
            BY <2>1, <3>1, <3>2
    <2> QED
        BY <2>5, <2>6 DEF NotIn
<1>7. ASSUME NEW k \in NotIn(src, Rows(q, v).links)
      PROVE  k \in Rows(q, v)'.links
    <2>1. k \in src /\ \A x \in Rows(q, v).links : x[1] # k[1]
        BY DEF NotIn
    <2>2. PICK a \in archLinks' : a[1] = q /\ a[2] = v /\ a[3] = k[1]
        BY <1>1, <1>3, <2>1
    <2>3. a \notin archLinks
        <3> SUFFICES ASSUME a \in archLinks PROVE FALSE
            OBVIOUS
        <3>1. <<a[3], a[4]>> \in Rows(q, v).links
            BY <2>2 DEF Rows
        <3> QED
            BY <2>1, <2>2, <3>1
    <2>4. PICK s \in src : a = <<q, v, s[1], s[2]>>
        BY <1>4, <2>2, <2>3
    <2>5. s = k /\ s = <<s[1], s[2]>> /\ a[3] = s[1] /\ a[4] = s[2]
        <3>1. a[3] = s[1] /\ a[4] = s[2]
            BY <2>4
        <3> QED
            BY <1>5, <2>1, <2>2, <3>1
    <2>6. <<a[3], a[4]>> \in Rows(q, v)'.links
        BY <2>2 DEF Rows
    <2> QED
        BY <2>5, <2>6
<1>8. Rows(q, v).links \subseteq Rows(q, v)'.links
    BY <1>3 DEF Rows
<1>9. Rows(q, v)'.links = Rows(q, v).links \cup NotIn(src, Rows(q, v).links)
    BY <1>6, <1>7, <1>8 DEF NotIn
<1> QED
    BY <1>1, <1>9

LEMMA MemberMeta ==
    ASSUME Basics, ArchiveMeta, NEW p, NEW v, p = tx.project, v = tx.version,
           NEW t \in Chain(p), Single(Chain(p), t)
    PROVE  /\ Rows(t[1], v).meta # {} => Rows(t[1], v)'.meta = Rows(t[1], v).meta
           /\ Rows(t[1], v).meta = {} => Rows(t[1], v)'.meta = MetaRows(t)
<1>1. PICK q : q = t[1]
    OBVIOUS
<1>2. \A x, y \in MetaRows(t) : x = y
    BY DEF MetaRows, Basics, ArchMetaOK
<1>3. /\ archMeta \subseteq archMeta'
      /\ \A a \in archMeta' \ archMeta :
           /\ \E u \in Chain(p) : u[1] = a[1] /\ a[3] \in MetaRows(u)
           /\ \A b \in archMeta : ~(b[1] = a[1] /\ b[2] = v)
      /\ \A u \in Chain(p) : \E a \in archMeta' : a[1] = u[1] /\ a[2] = v
    BY ArchiveMetaIs
<1>4. ASSUME Rows(q, v).meta # {} PROVE Rows(q, v)'.meta = Rows(q, v).meta
    <2>1. PICK b \in archMeta : b[1] = q /\ b[2] = v
        BY <1>4 DEF Rows
    <2>2. \A a : a[1] = q /\ a[2] = v => (a \in archMeta' <=> a \in archMeta)
        BY <1>3, <2>1
    <2> QED
        BY <2>2 DEF Rows
<1>5. ASSUME Rows(q, v).meta = {} PROVE Rows(q, v)'.meta = MetaRows(t)
    <2>1. ASSUME NEW a \in archMeta', a[1] = q, a[2] = v PROVE a[3] \in MetaRows(t)
        <3>1. a \notin archMeta
            BY <1>5, <2>1 DEF Rows
        <3>2. PICK u \in Chain(p) : u[1] = a[1] /\ a[3] \in MetaRows(u)
            BY <1>3, <3>1
        <3> QED
            BY <1>1, <2>1, <3>2 DEF Single
    <2>2. PICK a \in archMeta' : a[1] = q /\ a[2] = v
        BY <1>1, <1>3
    <2>3. Rows(q, v)'.meta = {b[3] : b \in {c \in archMeta' : c[1] = q /\ c[2] = v}}
        BY DEF Rows
    <2>4. Rows(q, v)'.meta \subseteq MetaRows(t) /\ a[3] \in Rows(q, v)'.meta
        BY <2>1, <2>2, <2>3
    <2> QED
        BY <1>2, <2>4
<1> QED
    BY <1>1, <1>4, <1>5

LEMMA MemberOnts ==
    ASSUME Basics, ArchiveOnts, NEW p, NEW v, p = tx.project, v = tx.version,
           NEW t \in Chain(p), Single(Chain(p), t)
    PROVE  Rows(t[1], v)'.onts = Rows(t[1], v).onts \cup OntRows(t)
<1>1. PICK q : q = t[1]
    OBVIOUS
<1>2. /\ archOnts \subseteq archOnts'
      /\ \A a \in archOnts' \ archOnts :
           \E u \in Chain(p) : \E o \in OntRows(u) : a = <<u[1], v, o>>
      /\ \A u \in Chain(p) : \A o \in OntRows(u) : <<u[1], v, o>> \in archOnts'
    BY ArchiveOntsIs
<1>3. ASSUME NEW a \in archOnts' \ archOnts, a[1] = q PROVE a[3] \in OntRows(t)
    <2>1. PICK u \in Chain(p) : \E o \in OntRows(u) : a = <<u[1], v, o>>
        BY <1>2
    <2>2. PICK o \in OntRows(u) : a = <<u[1], v, o>>
        BY <2>1
    <2>3. u[1] = q /\ a[3] = o
        BY <1>3, <2>2
    <2>4. u = t
        BY <1>1, <2>3 DEF Single
    <2> QED
        BY <2>2, <2>3, <2>4
<1>4. ASSUME NEW o \in OntRows(t) PROVE o \in Rows(q, v)'.onts
    <2>1. <<q, v, o>> \in archOnts'
        BY <1>1, <1>2
    <2>2. PICK a \in archOnts' : a = <<q, v, o>>
        BY <2>1
    <2>3. a[1] = q /\ a[2] = v /\ a[3] = o
        BY <2>2
    <2> QED
        BY <2>3 DEF Rows
<1>5. ASSUME NEW o \in Rows(q, v)'.onts PROVE o \in Rows(q, v).onts \cup OntRows(t)
    <2>1. PICK a \in archOnts' : a[1] = q /\ a[2] = v /\ o = a[3]
        BY DEF Rows
    <2>2. CASE a \in archOnts
        BY <2>1, <2>2 DEF Rows
    <2> QED
        BY <1>3, <2>1, <2>2
<1>6. Rows(q, v).onts \subseteq Rows(q, v)'.onts
    BY <1>2 DEF Rows
<1> QED
    BY <1>1, <1>4, <1>5, <1>6

\* The project itself is in its chain as its draft.
LEMMA Own ==
    ASSUME NEW p
    PROVE  /\ <<p, Draft>> \in Chain(p) /\ Single(Chain(p), <<p, Draft>>)
           /\ SourcesOf(p, Draft) = DraftRows(p).links
           /\ MetaRows(<<p, Draft>>) = DraftRows(p).meta
           /\ OntRows(<<p, Draft>>) = DraftRows(p).onts
<1>1. <<p, Draft>> \in Chain(p) /\ Single(Chain(p), <<p, Draft>>)
    BY ChainIsLeast, ChainRoot DEF Single
<1>2. /\ SourcesOf(p, Draft) = DraftRows(p).links
      /\ MetaRows(<<p, Draft>>) = DraftRows(p).meta
      /\ OntRows(<<p, Draft>>) = DraftRows(p).onts
    BY DEF SourcesOf, MetaRows, OntRows, DraftRows
<1> QED
    BY <1>1, <1>2

LEMMA StatementCopying ==
    ASSUME Basics, Copying, ArchiveLinks \/ ArchiveMeta \/ ArchiveOnts
    PROVE  Copying'
<1>1. PICK p, v, at, to : p = tx.project /\ v = tx.version /\ at = tx.at /\ to = tx'.at
    OBVIOUS
<1>2. /\ tx # None /\ tx' # None /\ tx'.project = p /\ tx'.version = v
      /\ UNCHANGED <<meta, links, onts, released, found, drafts>>
      /\ ArchiveLinks => UNCHANGED <<archMeta, archOnts>> /\ at = "links" /\ to = "project"
      /\ ArchiveMeta => UNCHANGED <<archLinks, archOnts>> /\ at = "project" /\ to = "ontologies"
      /\ ArchiveOnts => UNCHANGED <<archMeta, archLinks>> /\ at = "ontologies" /\ to = "commit"
    BY <1>1, StatementIs DEF Basics
<1>3. DraftRows(p)' = DraftRows(p) /\ DraftRows(p) \in drafts /\ Parts(at, Rows(p, v), found, drafts)
    BY <1>1, <1>2 DEF DraftRows, Copying
<1>7. PICK t \in Chain(p) : /\ t[1] = p /\ t[2] = Draft /\ Single(Chain(p), t)
                           /\ SourcesOf(t[1], t[2]) = DraftRows(p).links
                           /\ MetaRows(t) = DraftRows(p).meta
                           /\ OntRows(t) = DraftRows(p).onts
    <2>1. PICK u \in Chain(p) : u = <<p, Draft>>
        BY Own
    <2>2. u[1] = p /\ u[2] = Draft
        BY <2>1
    <2> QED
        BY <2>1, <2>2, Own
<1>4. Parts(to, Rows(p, v)', found, drafts)
    <2>1. CASE ArchiveLinks
        <3>1. Rows(p, v)'.meta = Rows(p, v).meta /\ Rows(p, v)'.onts = Rows(p, v).onts
            BY <1>2, <2>1 DEF Rows
        <3>2. Rows(p, v)'.links = Rows(p, v).links \cup NotIn(DraftRows(p).links, Rows(p, v).links)
            BY <1>1, <1>7, <2>1, MemberLinks
        <3> QED
            BY <1>2, <1>3, <2>1, <3>1, <3>2 DEF Parts
    <2>2. CASE ArchiveMeta
        <3>1. Rows(p, v)'.links = Rows(p, v).links /\ Rows(p, v)'.onts = Rows(p, v).onts
            BY <1>2, <2>2 DEF Rows
        <3>2. /\ Rows(p, v).meta # {} => Rows(p, v)'.meta = Rows(p, v).meta
              /\ Rows(p, v).meta = {} => Rows(p, v)'.meta = DraftRows(p).meta
            BY <1>1, <1>7, <2>2, MemberMeta
        <3> QED
            BY <1>2, <1>3, <2>2, <3>1, <3>2 DEF Parts
    <2>3. CASE ArchiveOnts
        <3>1. Rows(p, v)'.links = Rows(p, v).links /\ Rows(p, v)'.meta = Rows(p, v).meta
            BY <1>2, <2>3 DEF Rows
        <3>2. Rows(p, v)'.onts = Rows(p, v).onts \cup DraftRows(p).onts
            BY <1>1, <1>7, <2>3, MemberOnts
        <3> QED
            BY <1>2, <1>3, <2>3, <3>1, <3>2 DEF Parts
    <2> QED
        BY <2>1, <2>2, <2>3
<1>5. Parts(tx.at, Rows(tx.project, tx.version), found, drafts)'
    BY <1>1, <1>2, <1>4 DEF Parts
<1>6. DraftRows(tx.project)' \in drafts'
    BY <1>2, <1>3
<1> QED
    BY <1>1, <1>2, <1>5, <1>6 DEF Copying

LEMMA CopyingAlways == Spec => []Copying
<1>1. Init => Copying
    BY DEF Init, Copying
<1>2. Basics /\ Copying /\ [Next]_vars => Copying'
    <2> SUFFICES ASSUME Basics, Copying, [Next]_vars PROVE Copying'
        OBVIOUS
    <2>1. CASE UNCHANGED vars
        <3>1. UNCHANGED <<meta, links, onts, released, archMeta, archLinks, archOnts, tx, found, drafts>>
            BY <2>1 DEF vars, history
        <3>2. DraftRows(tx.project)' = DraftRows(tx.project)
            BY <3>1 DEF DraftRows
        <3>3. Rows(tx.project, tx.version)' = Rows(tx.project, tx.version)
            BY <3>1 DEF Rows
        <3>4. Parts(tx.at, Rows(tx.project, tx.version), found, drafts)' <=>
              Parts(tx.at, Rows(tx.project, tx.version), found, drafts)
            BY <3>1, <3>3 DEF Parts
        <3> QED
            BY <3>1, <3>2, <3>4 DEF Copying
    <2>2. CASE Commit
        BY <2>2 DEF Commit, Copying
    <2> QED
        BY <2>1, <2>2, NextIs, EditCopying, BeginCopying, StatementCopying
<1> QED
    BY <1>1, <1>2, BasicsAlways, PTL DEF Spec

\* Service.Create at READ COMMITTED: for any lineage, any numbers and any edits
\* between the statements, each table of a release is what was found under its key
\* and what one draft that the project had meanwhile adds.
THEOREM DraftReleased == Spec => ReleaseIsDraft
<1>1. Copying /\ Commit =>
        /\ MadeOfDrafts
        /\ found # [meta |-> {}, links |-> {}, onts |-> {}] =>
              \E r \in released : r[2] = tx.version /\ r[1] # tx.project
    <2> SUFFICES ASSUME Copying, Commit
                 PROVE  /\ MadeOfDrafts
                        /\ found # [meta |-> {}, links |-> {}, onts |-> {}] =>
                              \E r \in released : r[2] = tx.version /\ r[1] # tx.project
        OBVIOUS
    <2>1. tx # None /\ tx.at = "commit"
        BY DEF Commit
    <2>2. Parts(tx.at, Rows(tx.project, tx.version), found, drafts)
        BY <2>1 DEF Copying
    <2>3. MadeOfDrafts
        BY <2>1, <2>2 DEF Parts, NotIn, MadeOfDrafts
    <2> QED
        BY <2>1, <2>3 DEF Copying
<1>2. Copying /\ [Next]_vars =>
        [Commit =>
            /\ MadeOfDrafts
            /\ found # [meta |-> {}, links |-> {}, onts |-> {}] =>
                  \E r \in released : r[2] = tx.version /\ r[1] # tx.project]_vars
    BY <1>1
<1> QED
    BY <1>2, CopyingAlways, PTL DEF Spec, ReleaseIsDraft

-----------------------------------------------------------------------------
(* Releases and drafts.                                                    *)

\* Unless a link was switched under a release, no archived link follows a draft, and
\* what a release that has begun is about to copy does not either.
Undrafted ==
    ~raced =>
        /\ \A a \in archLinks : a[4] # Draft
        /\ tx # None /\ tx.at = "links" => \A l \in links : l[1] = tx.project => l[3] # Draft

\* The members of such a chain are followed at releases.
LEMMA ChainUndrafted ==
    ASSUME NEW p, \A a \in archLinks : a[4] # Draft, \A l \in links : l[1] = p => l[3] # Draft,
           LinksOK, ArchLinksOK
    PROVE  \A t \in Chain(p) : \A u \in SourcesOf(t[1], t[2]) : u[2] # Draft
<1> DEFINE S == {t \in Chain(p) : t[2] = Draft => t[1] = p}
<1>1. ASSUME NEW t, t[2] = Draft => t[1] = p, NEW u \in SourcesOf(t[1], t[2]) PROVE u[2] # Draft
    <2>1. CASE t[2] = Draft
        <3>1. PICK l \in links : l[1] = p /\ u = <<l[2], l[3]>>
            BY <1>1, <2>1 DEF SourcesOf
        <3> QED
            BY <3>1
    <2>2. CASE t[2] # Draft
        <3>1. PICK a \in archLinks : u = <<a[3], a[4]>>
            BY <1>1, <2>2 DEF SourcesOf
        <3> QED
            BY <3>1
    <2> QED
        BY <2>1, <2>2
<1>2. Closed(p, S)
    <2> SUFFICES ASSUME NEW t \in S, NEW u \in SourcesOf(t[1], t[2]), u[1] # p PROVE u \in S
        BY DEF Closed
    <2>1. u \in Chain(p)
        BY ChainIsLeast DEF Closed
    <2>2. u[2] # Draft
        BY <1>1
    <2> QED
        BY <2>1, <2>2
<1>3. S \in SUBSET ({<<p, Draft>>} \cup Followed) /\ <<p, Draft>> \in S
    BY ChainIsLeast
<1>4. Chain(p) \subseteq S
    <2> HIDE DEF S
    <2> QED
        BY <1>2, <1>3, ChainIsLeast
<1> QED
    BY <1>1, <1>4

LEMMA UndraftedAlways == Spec => []Undrafted
<1>1. Init => Undrafted
    BY DEF Init, Undrafted
<1>2. Basics /\ Undrafted /\ [Next]_vars => Undrafted'
    <2> SUFFICES ASSUME Basics, Undrafted, [Next]_vars, ~raced' PROVE Undrafted'
        BY DEF Undrafted
    <2>1. CASE UNCHANGED vars
        BY <2>1 DEF vars, history, Undrafted
    <2>2. ASSUME NEW p \in Projects, NEW q \in Projects, SetParent(p, q) PROVE Undrafted'
        <3>0. UNCHANGED <<archLinks, tx>>
            BY <2>2, EditIs DEF IsEdit
        <3>1. PICK source \in {Draft} \cup {v \in Numbers : <<q, v>> \in released} :
                /\ links' = {l \in links : l[1] # p \/ l[2] # q} \cup {<<p, q, source>>}
                /\ raced' = (raced \/ (source = Draft /\ tx # None /\ tx.project = p /\ tx.at = "links"))
            BY <2>2 DEF SetParent
        <3>2. ~raced /\ ~(source = Draft /\ tx # None /\ tx.project = p /\ tx.at = "links")
            BY <3>1, Zenon
        <3>3. \A l \in links' : l \in links \/ (l[1] = p /\ l[3] = source)
            BY <3>1
        <3> QED
            BY <3>0, <3>2, <3>3 DEF Undrafted
    <2>3. CASE \/ \E p \in Projects : EditProject(p)
               \/ \E p, q \in Projects : RemoveParent(p, q)
               \/ \E p \in Projects, o \in Ontologies : SwitchOntology(p, o)
        <3>1. links' \subseteq links /\ raced' = raced
            BY <2>3 DEF EditProject, RemoveParent, SwitchOntology
        <3>2. UNCHANGED <<archLinks, tx>>
            BY <2>3, EditIs DEF IsEdit
        <3> QED
            BY <3>1, <3>2 DEF Undrafted
    <2>4. ASSUME NEW p \in Projects, NEW v \in Numbers, Begin(p, v) PROVE Undrafted'
        <3>1. /\ UNCHANGED <<links, archLinks, raced>> /\ ~\E q \in Projects : <<p, q, Draft>> \in links
              /\ tx' = [project |-> p, version |-> v, at |-> "links"]
            BY <2>4 DEF Begin, live, archive
        <3>2. tx'.project = p
            BY <3>1
        <3>3. \A l \in links : l = <<l[1], l[2], l[3]>> /\ l[2] \in Projects
            BY DEF Basics, LinksOK
        <3> QED
            BY <3>1, <3>2, <3>3 DEF Undrafted
    <2>5. CASE ArchiveLinks
        <3>1. /\ raced' = raced /\ tx'.at # "links" /\ tx # None /\ tx.at = "links"
            BY <2>5, StatementIs DEF Basics
        <3>2. \A t \in Chain(tx.project) : \A u \in SourcesOf(t[1], t[2]) : u[2] # Draft
            BY <3>1, ChainUndrafted DEF Undrafted, Basics
        <3>3. ASSUME NEW a \in archLinks', a \notin archLinks PROVE a[4] # Draft
            <4>1. PICK t \in Chain(tx.project) : \E s \in SourcesOf(t[1], t[2]) : a = <<t[1], tx.version, s[1], s[2]>>
                BY <2>5, <3>3, ArchiveLinksIs
            <4>2. PICK s \in SourcesOf(t[1], t[2]) : a = <<t[1], tx.version, s[1], s[2]>>
                BY <4>1
            <4> QED
                BY <3>2, <4>2
        <3> QED
            BY <3>1, <3>3 DEF Undrafted
    <2>6. CASE ArchiveMeta \/ ArchiveOnts
        <3>1. UNCHANGED <<archLinks, raced>> /\ tx'.at # "links"
            BY <2>6, StatementIs DEF Basics
        <3> QED
            BY <3>1 DEF Undrafted
    <2>7. CASE Commit
        BY <2>7 DEF Commit, Undrafted, live, archive
    <2> QED
        BY <2>1, <2>2, <2>3, <2>4, <2>5, <2>6, <2>7 DEF Next, Create
<1> QED
    BY <1>1, <1>2, BasicsAlways, PTL DEF Spec

\* findDraftParentDependencies: for any lineage and any numbers, a release follows a
\* draft only if a link was switched between the check and the copy.
THEOREM NoDraftReleased == Spec => []NoDraftParent
<1>1. Undrafted => NoDraftParent
    <2> SUFFICES ASSUME Undrafted, ~raced, NEW r \in released, NEW k \in Rows(r[1], r[2]).links
                 PROVE  k[2] # Draft
        BY DEF NoDraftParent
    <2>1. PICK a \in archLinks : k = <<a[3], a[4]>>
        BY DEF Rows
    <2> QED
        BY <2>1 DEF Undrafted
<1> QED
    BY <1>1, UndraftedAlways, PTL

-----------------------------------------------------------------------------
(* The ancestry of an undisturbed release.                                 *)

\* What has been copied of a member t of the chain, under the number v.
MemberCopied(at, new, t) ==
    /\ at # "links" => new.links = SourcesOf(t[1], t[2])
    /\ at \notin {"links", "project"} => new.meta = MetaRows(t)
    /\ at = "commit" => new.onts = OntRows(t)

Copied ==
    tx # None /\ Undisturbed =>
        \A t \in Chain(tx.project) : Single(Chain(tx.project), t) =>
            MemberCopied(tx.at, Rows(t[1], tx.version), t)

LEMMA EditCopied ==
    ASSUME Basics, Copying, Copied, IsEdit
    PROVE  Copied'
<1> SUFFICES ASSUME tx' # None, Undisturbed' PROVE Copied'
    BY DEF Copied
<1>1. /\ tx' = tx /\ released' = released /\ UNCHANGED <<archMeta, archLinks, archOnts>>
      /\ drafts' = drafts \cup {DraftRows(tx.project)'}
    BY EditIs
<1>2. PICK p, v, at : p = tx.project /\ v = tx.version /\ at = tx.at
    OBVIOUS
<1>3. PICK now, old : now = DraftRows(p)' /\ old = DraftRows(p)
    OBVIOUS
<1>4. DraftRows(tx.project)' = now
    BY <1>1, <1>2, <1>3
<1>5. old \in drafts /\ drafts' = drafts \cup {now} /\ drafts' = {now}
    BY <1>1, <1>2, <1>3, <1>4 DEF Copying, Undisturbed
<1>6. old = now /\ drafts = {old}
    BY <1>5
<1>7. /\ {<<l[2], l[3]>> : l \in {k \in links' : k[1] = p}} = {<<l[2], l[3]>> : l \in {k \in links : k[1] = p}}
      /\ {meta'[p]} = {meta[p]}
      /\ {o[2] : o \in {k \in onts' : k[1] = p}} = {o[2] : o \in {k \in onts : k[1] = p}}
    <2>1. /\ now.links = old.links /\ now.meta = old.meta /\ now.onts = old.onts
        BY <1>6
    <2>2. /\ old.links = {<<l[2], l[3]>> : l \in {k \in links : k[1] = p}}
          /\ old.meta = {meta[p]}
          /\ old.onts = {o[2] : o \in {k \in onts : k[1] = p}}
        BY <1>3 DEF DraftRows
    <2>3. /\ now.links = {<<l[2], l[3]>> : l \in {k \in links' : k[1] = p}}
          /\ now.meta = {meta'[p]}
          /\ now.onts = {o[2] : o \in {k \in onts' : k[1] = p}}
        BY <1>3 DEF DraftRows
    <2> QED
        BY <2>1, <2>2, <2>3
<1>8. Chain(tx.project)' = Chain(p)'
    BY <1>1, <1>2
<1>9. ASSUME NEW t \in Chain(p)'
      PROVE  SourcesOf(t[1], t[2])' = SourcesOf(t[1], t[2]) /\ MetaRows(t)' = MetaRows(t) /\ OntRows(t)' = OntRows(t)
    <2>1. CASE t[2] = Draft
        <3>1. t[1] = p
            BY <1>1, <1>2, <1>8, <2>1 DEF Undisturbed
        <3> QED
            BY <1>7, <2>1, <3>1 DEF SourcesOf, MetaRows, OntRows
    <2>2. CASE t[2] # Draft
        BY <1>1, <2>2 DEF SourcesOf, MetaRows, OntRows
    <2> QED
        BY <2>1, <2>2
<1>10. Chain(p)' = Chain(p)
    BY <1>9, ChainStays
<1>11. Undisturbed
    <2>1. \A t \in Chain(p) : t[2] = Draft => t[1] = p
        BY <1>1, <1>2, <1>8, <1>10 DEF Undisturbed
    <2>2. \A r \in released : r[2] # tx.version
        BY <1>1 DEF Undisturbed
    <2> QED
        BY <1>2, <1>3, <1>6, <2>1, <2>2 DEF Undisturbed
<1>12. \A q : Rows(q, v)' = Rows(q, v)
    BY <1>1 DEF Rows
<1>13. ASSUME NEW t \in Chain(p), Single(Chain(p), t)
       PROVE  MemberCopied(at, Rows(t[1], v), t)'
    <2>1. MemberCopied(at, Rows(t[1], v), t)
        BY <1>1, <1>2, <1>11, <1>13 DEF Copied
    <2>2. SourcesOf(t[1], t[2])' = SourcesOf(t[1], t[2]) /\ MetaRows(t)' = MetaRows(t) /\ OntRows(t)' = OntRows(t)
        BY <1>9, <1>10
    <2> QED
        BY <1>12, <2>1, <2>2 DEF MemberCopied
<1>14. \A t : Single(Chain(p)', t) <=> Single(Chain(p), t)
    BY <1>10 DEF Single
<1> QED
    BY <1>1, <1>2, <1>8, <1>10, <1>13, <1>14 DEF Copied, Single, MemberCopied

\* A statement of an undisturbed release leaves alone what its chain is made of.
LEMMA StatementChain ==
    ASSUME Basics, Basics', ArchiveLinks \/ ArchiveMeta \/ ArchiveOnts, Undisturbed',
           NEW p, NEW v, p = tx.project, v = tx.version
    PROVE  /\ Chain(p)' = Chain(p) /\ Undisturbed
           /\ \A t \in Chain(p) : /\ t[2] # v
                                  /\ SourcesOf(t[1], t[2])' = SourcesOf(t[1], t[2])
                                  /\ MetaRows(t)' = MetaRows(t) /\ OntRows(t)' = OntRows(t)
<1>1. /\ tx # None /\ tx'.project = p /\ tx'.version = v /\ p \in Projects /\ v \in Numbers
      /\ UNCHANGED <<meta, links, onts, released, drafts>>
      /\ ArchiveLinks => UNCHANGED <<archMeta, archOnts>>
      /\ ArchiveMeta => UNCHANGED <<archLinks, archOnts>>
      /\ ArchiveOnts => UNCHANGED <<archMeta, archLinks>>
    BY StatementIs DEF Basics
<1>2. \A r \in released : r[2] # v
    BY <1>1 DEF Undisturbed
<1>3. Chain(p)' = Chain(tx.project)'
    BY <1>1
<1>4. ASSUME NEW t \in Chain(p)' PROVE t[2] # v /\ (t[2] = Draft => t[1] = p)
    <2>1. t[2] = Draft => t[1] = p
        BY <1>1, <1>3, <1>4 DEF Undisturbed
    <2>2. t = <<p, Draft>> \/ t \in Followed'
        BY <1>4 DEF Chain
    <2>3. CASE t = <<p, Draft>>
        BY <1>1, <2>1, <2>3, ReleaseLineageAssumption
    <2>4. CASE \E l \in links : t = <<l[2], l[3]>>
        <3>1. PICK l \in links : t = <<l[2], l[3]>>
            BY <2>4
        <3>2. t[2] = Draft \/ <<t[1], t[2]>> \in released
            BY <3>1 DEF Basics, LinksOK, Pinned
        <3> QED
            BY <1>1, <1>2, <2>1, <3>2, ReleaseLineageAssumption
    <2>5. CASE \E a \in archLinks' : t = <<a[3], a[4]>>
        <3>1. PICK a \in archLinks' : t = <<a[3], a[4]>>
            BY <2>5
        <3>2. t[2] = Draft \/ <<t[1], t[2]>> \in released
            BY <1>1, <3>1 DEF Basics, ArchLinksOK, Pinned
        <3> QED
            BY <1>1, <1>2, <2>1, <3>2, ReleaseLineageAssumption
    <2> QED
        BY <1>1, <2>1, <2>2, <2>3, <2>4, <2>5 DEF Followed
<1>5. /\ \A a : a[2] # v => (a \in archLinks' <=> a \in archLinks)
      /\ \A a : a[2] # v => (a \in archMeta' <=> a \in archMeta)
      /\ \A a : a[2] # v => (a \in archOnts' <=> a \in archOnts)
    <2>1. CASE ArchiveLinks
        <3>1. ASSUME NEW a \in archLinks' \ archLinks PROVE a[2] = v
            <4>1. PICK t \in Chain(tx.project) : \E s \in SourcesOf(t[1], t[2]) : a = <<t[1], tx.version, s[1], s[2]>>
                BY <2>1, ArchiveLinksIs
            <4> QED
                BY <4>1
        <3> QED
            BY <1>1, <2>1, <3>1, ArchiveLinksIs
    <2>2. CASE ArchiveMeta
        <3>1. ASSUME NEW a \in archMeta' \ archMeta PROVE a[2] = v
            <4>1. a = <<a[1], tx.version, a[3]>>
                BY <2>2, ArchiveMetaIs
            <4> QED
                BY <4>1
        <3> QED
            BY <1>1, <2>2, <3>1, ArchiveMetaIs
    <2>3. CASE ArchiveOnts
        <3>1. ASSUME NEW a \in archOnts' \ archOnts PROVE a[2] = v
            <4>1. PICK t \in Chain(tx.project) : \E o \in OntRows(t) : a = <<t[1], tx.version, o>>
                BY <2>3, ArchiveOntsIs
            <4> QED
                BY <4>1
        <3> QED
            BY <1>1, <2>3, <3>1, ArchiveOntsIs
    <2> QED
        BY <2>1, <2>2, <2>3
<1>6. ASSUME NEW t \in Chain(p)'
      PROVE  SourcesOf(t[1], t[2])' = SourcesOf(t[1], t[2]) /\ MetaRows(t)' = MetaRows(t) /\ OntRows(t)' = OntRows(t)
    <2>1. t[2] # v
        BY <1>4, <1>6
    <2> QED
        BY <1>1, <1>5, <2>1 DEF SourcesOf, MetaRows, OntRows
<1>7. Chain(p)' = Chain(p)
    BY <1>6, ChainStays
<1>8. Undisturbed
    <2>1. DraftRows(tx.project)' = DraftRows(tx.project)
        BY <1>1 DEF DraftRows
    <2>2. \A t \in Chain(tx.project) : t[2] = Draft => t[1] = tx.project
        BY <1>4, <1>7
    <2> QED
        BY <1>1, <1>2, <2>1, <2>2 DEF Undisturbed
<1> QED
    BY <1>4, <1>6, <1>7, <1>8

LEMMA StatementCopied ==
    ASSUME Basics, Basics', Copied, ArchiveLinks \/ ArchiveMeta \/ ArchiveOnts
    PROVE  Copied'
<1> SUFFICES ASSUME Undisturbed' PROVE Copied'
    BY DEF Copied
<1>1. PICK p, v, at, to : p = tx.project /\ v = tx.version /\ at = tx.at /\ to = tx'.at
    OBVIOUS
<1>2. /\ tx # None /\ tx' # None /\ tx'.project = p /\ tx'.version = v
      /\ ArchiveLinks => UNCHANGED <<archMeta, archOnts>> /\ at = "links" /\ to = "project"
      /\ ArchiveMeta => UNCHANGED <<archLinks, archOnts>> /\ at = "project" /\ to = "ontologies"
      /\ ArchiveOnts => UNCHANGED <<archMeta, archLinks>> /\ at = "ontologies" /\ to = "commit"
      /\ UNCHANGED released
    BY <1>1, StatementIs DEF Basics
<1>3. /\ Chain(p)' = Chain(p) /\ Undisturbed
      /\ \A t \in Chain(p) : /\ SourcesOf(t[1], t[2])' = SourcesOf(t[1], t[2])
                             /\ MetaRows(t)' = MetaRows(t) /\ OntRows(t)' = OntRows(t)
    BY <1>1, StatementChain
<1>4. ~Numbered(v)
    BY <1>1, <1>3 DEF Undisturbed, Numbered
<1>5. /\ at = "links" => \A a \in archLinks : a[2] # v
      /\ at = "project" => \A a \in archMeta : a[2] # v
      /\ at = "ontologies" => \A a \in archOnts : a[2] # v
    BY <1>1, <1>2, <1>4 DEF Basics, NumbersOK
<1>6. ASSUME NEW t \in Chain(p), Single(Chain(p), t)
      PROVE  MemberCopied(to, Rows(t[1], v)', t)
    <2>1. MemberCopied(at, Rows(t[1], v), t)
        BY <1>1, <1>2, <1>3, <1>6 DEF Copied
    <2>2. CASE ArchiveLinks
        <3>1. Rows(t[1], v).links = {}
            BY <1>2, <1>5, <2>2, RowsAre
        <3>2. Rows(t[1], v)'.links =
                Rows(t[1], v).links \cup NotIn(SourcesOf(t[1], t[2]), Rows(t[1], v).links)
            BY <1>1, <1>6, <2>2, MemberLinks
        <3>3. Rows(t[1], v)'.links = SourcesOf(t[1], t[2])
            BY <3>1, <3>2 DEF NotIn
        <3> QED
            BY <1>2, <2>2, <3>3 DEF MemberCopied
    <2>3. CASE ArchiveMeta
        <3>1. Rows(t[1], v).meta = {}
            BY <1>2, <1>5, <2>3, RowsAre
        <3>2. Rows(t[1], v)'.meta = MetaRows(t)
            BY <1>1, <1>6, <2>3, <3>1, MemberMeta
        <3>3. Rows(t[1], v)'.links = Rows(t[1], v).links
            BY <1>2, <2>3 DEF Rows
        <3> QED
            BY <1>2, <2>1, <2>3, <3>2, <3>3 DEF MemberCopied
    <2>4. CASE ArchiveOnts
        <3>1. Rows(t[1], v).onts = {}
            BY <1>2, <1>5, <2>4, RowsAre
        <3>4. Rows(t[1], v)'.onts = Rows(t[1], v).onts \cup OntRows(t)
            BY <1>1, <1>6, <2>4, MemberOnts
        <3>2. Rows(t[1], v)'.onts = OntRows(t)
            BY <3>1, <3>4
        <3>3. Rows(t[1], v)'.links = Rows(t[1], v).links /\ Rows(t[1], v)'.meta = Rows(t[1], v).meta
            BY <1>2, <2>4 DEF Rows
        <3> QED
            BY <1>2, <2>1, <2>4, <3>2, <3>3 DEF MemberCopied
    <2> QED
        BY <2>2, <2>3, <2>4
<1>7. ASSUME NEW t \in Chain(p), Single(Chain(p), t)
      PROVE  MemberCopied(tx.at, Rows(t[1], tx.version), t)'
    <2>1. SourcesOf(t[1], t[2])' = SourcesOf(t[1], t[2]) /\ MetaRows(t)' = MetaRows(t) /\ OntRows(t)' = OntRows(t)
        BY <1>3
    <2>2. MemberCopied(to, Rows(t[1], v)', t)
        BY <1>6, <1>7
    <2>3. tx'.at = to /\ tx'.version = v
        BY <1>1, <1>2
    <2> QED
        BY <2>1, <2>2, <2>3 DEF MemberCopied
<1>8. Chain(tx.project)' = Chain(p)
    BY <1>2, <1>3
<1> QED
    BY <1>7, <1>8 DEF Copied, Single

LEMMA CopiedAlways == Spec => []Copied
<1>1. Init => Copied
    BY DEF Init, Copied
<1>2. Basics /\ Basics' /\ Copying /\ Copied /\ [Next]_vars => Copied'
    <2> SUFFICES ASSUME Basics, Basics', Copying, Copied, [Next]_vars PROVE Copied'
        OBVIOUS
    <2>1. CASE UNCHANGED vars
        <3>1. UNCHANGED <<meta, links, onts, released, archMeta, archLinks, archOnts, tx, found, drafts>>
            BY <2>1 DEF vars, history
        <3>2. \A t : SourcesOf(t[1], t[2])' = SourcesOf(t[1], t[2])
            BY <3>1 DEF SourcesOf
        <3>3. \A t : MetaRows(t)' = MetaRows(t) /\ OntRows(t)' = OntRows(t)
            BY <3>1 DEF MetaRows, OntRows
        <3>4. PICK p, v : p = tx.project /\ v = tx.version
            OBVIOUS
        <3>5. Chain(p)' = Chain(p)
            BY <3>2, ChainStays
        <3>6. Chain(tx.project)' = Chain(tx.project)
            BY <3>1, <3>4, <3>5
        <3>7. \A q, n : Rows(q, n)' = Rows(q, n)
            BY <3>1 DEF Rows
        <3>8. DraftRows(p)' = DraftRows(p)
            BY <3>1 DEF DraftRows
        <3>9. DraftRows(tx.project)' = DraftRows(tx.project)
            BY <3>1, <3>4, <3>8
        <3>10. Undisturbed' => Undisturbed
            BY <3>1, <3>6, <3>9 DEF Undisturbed
        <3>11. \A t : MemberCopied(tx.at, Rows(t[1], tx.version), t)' <=> MemberCopied(tx.at, Rows(t[1], tx.version), t)
            BY <3>1, <3>2, <3>3, <3>7 DEF MemberCopied
        <3> QED
            BY <3>1, <3>6, <3>10, <3>11 DEF Copied, Single
    <2>2. ASSUME NEW p \in Projects, NEW v \in Numbers, Begin(p, v) PROVE Copied'
        <3>1. tx'.at = "links"
            BY <2>2 DEF Begin
        <3> QED
            BY <3>1 DEF Copied, MemberCopied
    <2>3. CASE Commit
        BY <2>3 DEF Commit, Copied
    <2> QED
        BY <2>1, <2>2, <2>3, NextIs, EditCopied, StatementCopied
<1> QED
    BY <1>1, <1>2, BasicsAlways, CopyingAlways, PTL DEF Spec

\* What is there when an undisturbed release commits.
LEMMA Complete ==
    ASSUME Basics, Copying, Copied, tx # None, tx.at = "commit", Undisturbed
    PROVE  \A k \in Rows(tx.project, tx.version).links :
             Single(Chain(tx.project), k) => Rows(k[1], tx.version) = Rows(k[1], k[2])
<1>1. PICK p, v : p = tx.project /\ v = tx.version
    OBVIOUS
<1>2. ASSUME NEW t \in Chain(p), Single(Chain(p), t)
      PROVE  MemberCopied("commit", Rows(t[1], v), t)
    BY <1>1, <1>2 DEF Copied
<1>3. Rows(p, v).links = SourcesOf(p, Draft) /\ SourcesOf(p, Draft) = DraftRows(p).links
    <2>1. PICK t \in Chain(p) : t = <<p, Draft>> /\ Single(Chain(p), t)
        BY Own
    <2>2. t[1] = p /\ t[2] = Draft
        BY <2>1
    <2> QED
        BY <1>2, <2>1, <2>2, Own DEF MemberCopied
<1>4. \A k \in DraftRows(p).links : k[2] # Draft
    BY <1>1 DEF Copying, Undisturbed
<1> SUFFICES ASSUME NEW k \in Rows(p, v).links, Single(Chain(p), k)
             PROVE  Rows(k[1], v) = Rows(k[1], k[2])
    BY <1>1
<1>5. k \in SourcesOf(p, Draft) /\ k[2] # Draft
    BY <1>3, <1>4
<1>6. k[1] # p
    <2> SUFFICES ASSUME k[1] = p PROVE FALSE
        OBVIOUS
    <2>1. PICK t \in Chain(p) : t = <<p, Draft>>
        BY Own
    <2>2. t = k
        BY <2>1 DEF Single
    <2> QED
        BY <1>5, <2>1, <2>2
<1>7. k \in Chain(p)
    <2>1. PICK t \in Chain(p) : t[1] = p /\ t[2] = Draft
        <3>1. PICK u \in Chain(p) : u = <<p, Draft>>
            BY Own
        <3> QED
            BY <3>1
    <2> QED
        BY <1>5, <1>6, <2>1, ChainIsLeast DEF Closed
<1>8. /\ Rows(k[1], v).links = SourcesOf(k[1], k[2])
      /\ Rows(k[1], v).meta = MetaRows(k)
      /\ Rows(k[1], v).onts = OntRows(k)
    BY <1>2, <1>7 DEF MemberCopied
<1>9. /\ Rows(k[1], k[2]).links = SourcesOf(k[1], k[2])
      /\ Rows(k[1], k[2]).meta = MetaRows(k)
      /\ Rows(k[1], k[2]).onts = OntRows(k)
    BY <1>5 DEF Rows, SourcesOf, MetaRows, OntRows
<1> QED
    BY <1>8, <1>9, RowsAre

\* snapshotProjectChainCTE and the statements that use it: for any lineage, a release
\* that nothing disturbs can be read without the releases it pins.
THEOREM SelfContainment == Spec => SelfContained
<1>1. Basics /\ Copying /\ Copied /\ [Next]_vars =>
        [Commit /\ Undisturbed =>
            \A k \in Rows(tx.project, tx.version).links :
                Single(Chain(tx.project), k) => Rows(k[1], tx.version) = Rows(k[1], k[2])]_vars
    BY Complete DEF Commit
<1> QED
    BY <1>1, BasicsAlways, CopyingAlways, CopiedAlways, PTL DEF Spec, SelfContained

=============================================================================
