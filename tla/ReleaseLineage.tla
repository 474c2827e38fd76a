--------------------------- MODULE ReleaseLineage ---------------------------
(***************************************************************************)
(* Releases in the archive tables (pkg/weave/release/service.go): one      *)
(* transaction checks that no parent is followed as a draft, then copies   *)
(* the project into the archive tables under the release's number, with    *)
(* the rows of every ancestor in its chain, statement by statement, each   *)
(* ON CONFLICT DO NOTHING.  Parents are pinned to one of their releases or *)
(* follow their draft (pkg/weave/project_inheritance_store.go, settings).  *)
(*                                                                         *)
(* The statements run at READ COMMITTED: each sees what is committed when  *)
(* it starts, so edits fall between them.  A number is free per project:   *)
(* two projects may use the same one, and a chain statement then meets     *)
(* rows of the other's release.  The content of a project row is the       *)
(* number of its edits; of the tables that are copied along the chain      *)
(* there are three: links, projects and ontology versions.  Rows that only *)
(* their own project is copied from (fields, models, ...) are like those   *)
(* of a project without children.  One release is created at a time.       *)
(***************************************************************************)
EXTENDS Naturals, FiniteSets

CONSTANTS
    Projects,
    Edges,          \* <<p, q>>: p may take q for a parent
    Numbers,        \* version numbers
    Ontologies,     \* ontology versions a project may use
    MaxChanges,     \* bound on all edits of the live tables
    Draft, None     \* model values

ASSUME ReleaseLineageAssumption ==
    /\ Edges \subseteq Projects \X Projects
    /\ MaxChanges \in Nat
    /\ Draft \notin Numbers
    /\ None \notin [project : Projects, version : Numbers,
                    at : {"links", "project", "ontologies", "commit"}]

VARIABLES
    meta,       \* content of each project's row
    links,      \* weave_project_inheritance: <<p, q, source>>
    onts,       \* weave_project_ontology_versions: <<p, o>>
    released,   \* weave_releases: <<p, v>>
    archMeta,   \* weave_projects_archive: <<p, v, content>>
    archLinks,  \* weave_project_inheritance_archive: <<p, v, q, source>>
    archOnts,   \* weave_project_ontology_versions_archive: <<p, v, o>>
    tx,         \* the release being created, if any
    changes     \* bounds the edits

\* History, which no step depends on.
VARIABLES
    found,      \* what the archive held under the new release's key when it began
    drafts,     \* the drafts the project has had since then
    raced       \* was a parent of a project switched to its draft between the
                \* check of its release and the copy of the links?

live == <<meta, links, onts, changes>>
archive == <<archMeta, archLinks, archOnts>>
history == <<found, drafts, raced>>
vars == <<meta, links, onts, released, archMeta, archLinks, archOnts, tx, changes, history>>

Init ==
    /\ meta = [p \in Projects |-> 0]
    /\ links = {} /\ onts = {} /\ released = {}
    /\ archMeta = {} /\ archLinks = {} /\ archOnts = {}
    /\ tx = None
    /\ changes = 0
    /\ found = None /\ drafts = {} /\ raced = FALSE

\* What readers of a release find of a project (versioned_tree.go).
Rows(p, v) ==
    [meta |-> {a[3] : a \in {b \in archMeta : b[1] = p /\ b[2] = v}},
     links |-> {<<a[3], a[4]>> : a \in {b \in archLinks : b[1] = p /\ b[2] = v}},
     onts |-> {a[3] : a \in {b \in archOnts : b[1] = p /\ b[2] = v}}]

\* The same of its draft.
DraftRows(p) ==
    [meta |-> {meta[p]},
     links |-> {<<l[2], l[3]>> : l \in {k \in links : k[1] = p}},
     onts |-> {o[2] : o \in {k \in onts : k[1] = p}}]

-----------------------------------------------------------------------------
(* Edits of the live tables, at any time.                                  *)

\* An edit leaves the archive and the release being created alone.
Edit ==
    /\ changes < MaxChanges
    /\ changes' = changes + 1
    /\ UNCHANGED <<released, archive, tx, found>>
    /\ drafts' = IF tx = None THEN {} ELSE drafts \cup {DraftRows(tx.project)'}

EditProject(p) ==
    /\ meta' = [meta EXCEPT ![p] = @ + 1]
    /\ UNCHANGED <<links, onts, raced>>
    /\ Edit

\* An upsert of the link; a release must exist to be pinned (archived ones,
\* which are refused too, are left out).
SetParent(p, q) ==
    /\ <<p, q>> \in Edges
    /\ \E source \in {Draft} \cup {v \in Numbers : <<q, v>> \in released} :
          /\ links' = {l \in links : l[1] # p \/ l[2] # q} \cup {<<p, q, source>>}
          /\ raced' = (raced \/ (source = Draft /\ tx # None /\ tx.project = p /\ tx.at = "links"))
    /\ UNCHANGED <<meta, onts>>
    /\ Edit

RemoveParent(p, q) ==
    /\ \E l \in links : l[1] = p /\ l[2] = q
    /\ links' = {l \in links : l[1] # p \/ l[2] # q}
    /\ UNCHANGED <<meta, onts, raced>>
    /\ Edit

\* An ontology version is added to the project, or taken away.
SwitchOntology(p, o) ==
    /\ onts' = IF <<p, o>> \in onts THEN onts \ {<<p, o>>} ELSE onts \cup {<<p, o>>}
    /\ UNCHANGED <<meta, links, raced>>
    /\ Edit

-----------------------------------------------------------------------------
(* snapshotProjectChainCTE and the statements that use it.                 *)

\* Fault: the parents of a pinned parent are read from its draft.
SourcesOfFault(p, source) ==
    {<<l[2], l[3]>> : l \in {k \in links : k[1] = p}}

SourcesOf(p, source) ==
    IF source = Draft
      THEN {<<l[2], l[3]>> : l \in {k \in links : k[1] = p}}
      ELSE {<<l[3], l[4]>> : l \in {k \in archLinks : k[1] = p /\ k[2] = source}}

\* The project and its ancestors, each at the source it is followed at: the least
\* set with the draft of the project and, of each member, its parents other than
\* the project.  (The query stops at a depth of ten, and at any project that is on
\* the path already, not only at the first.)
Closed(p, S) == \A t \in S : {u \in SourcesOf(t[1], t[2]) : u[1] # p} \subseteq S
Followed == {<<l[2], l[3]>> : l \in links} \cup {<<a[3], a[4]>> : a \in archLinks}
Chain(p) ==
    LET all == {<<p, Draft>>} \cup Followed
    IN  {t \in all : \A S \in SUBSET all : <<p, Draft>> \in S /\ Closed(p, S) => t \in S}

MetaRows(t) ==
    IF t[2] = Draft THEN {meta[t[1]]}
    ELSE {r[3] : r \in {a \in archMeta : a[1] = t[1] /\ a[2] = t[2]}}

OntRows(t) ==
    IF t[2] = Draft THEN {k[2] : k \in {o \in onts : o[1] = t[1]}}
    ELSE {r[3] : r \in {a \in archOnts : a[1] = t[1] /\ a[2] = t[2]}}

\* Fault: findDraftParentDependencies is not asked.
BeginFault(p, v) ==
    /\ tx = None
    /\ <<p, v>> \notin released
    /\ tx' = [project |-> p, version |-> v, at |-> "links"]
    /\ found' = Rows(p, v) /\ drafts' = {DraftRows(p)}
    /\ UNCHANGED <<live, released, archive, raced>>

\* findDraftParentDependencies refuses; a number is used once per project.
Begin(p, v) ==
    /\ tx = None
    /\ ~\E q \in Projects : <<p, q, Draft>> \in links
    /\ <<p, v>> \notin released
    /\ tx' = [project |-> p, version |-> v, at |-> "links"]
    /\ found' = Rows(p, v) /\ drafts' = {DraftRows(p)}
    /\ UNCHANGED <<live, released, archive, raced>>

\* Primary key: project, parent, number.
ArchiveLinks ==
    /\ tx # None /\ tx.at = "links"
    /\ LET rows == UNION {{<<t[1], s[1], s[2]>> : s \in SourcesOf(t[1], t[2])} : t \in Chain(tx.project)}
           free == {n \in rows : ~\E a \in archLinks :
                       a[1] = n[1] /\ a[2] = tx.version /\ a[3] = n[2]}
       IN  \E kept \in SUBSET free :
             /\ \A n \in free : \E k \in kept : k[1] = n[1] /\ k[2] = n[2]
             /\ \A k, n \in kept : k[1] = n[1] /\ k[2] = n[2] => k = n
             /\ archLinks' = archLinks \cup {<<n[1], tx.version, n[2], n[3]>> : n \in kept}
    /\ tx' = [tx EXCEPT !.at = "project"]
    /\ UNCHANGED <<live, released, history, archMeta, archOnts>>

\* Fault: the number is not part of the key.
ArchiveMetaFault ==
    /\ tx # None /\ tx.at = "project"
    /\ LET free == {t[1] : t \in Chain(tx.project)} \ {a[1] : a \in archMeta}
       IN  \E row \in [free -> 0..MaxChanges] :
             /\ \A p \in free : \E t \in Chain(tx.project) : t[1] = p /\ row[p] \in MetaRows(t)
             /\ archMeta' = archMeta \cup {<<p, tx.version, row[p]>> : p \in free}
    /\ tx' = [tx EXCEPT !.at = "ontologies"]
    /\ UNCHANGED <<live, released, history, archLinks, archOnts>>

\* Fault: ON CONFLICT DO UPDATE.
ArchiveMetaUpsert ==
    /\ tx # None /\ tx.at = "project"
    /\ LET chain == {t[1] : t \in Chain(tx.project)}
       IN  \E row \in [chain -> 0..MaxChanges] :
             /\ \A p \in chain : \E t \in Chain(tx.project) : t[1] = p /\ row[p] \in MetaRows(t)
             /\ archMeta' = {a \in archMeta : a[1] \notin chain \/ a[2] # tx.version}
                               \cup {<<p, tx.version, row[p]>> : p \in chain}
    /\ tx' = [tx EXCEPT !.at = "ontologies"]
    /\ UNCHANGED <<live, released, history, archLinks, archOnts>>

\* Primary key: project, number.
ArchiveMeta ==
    /\ tx # None /\ tx.at = "project"
    /\ LET taken == {a[1] : a \in {b \in archMeta : b[2] = tx.version}}
           chain == Chain(tx.project)
           free == {t[1] : t \in chain} \ taken
       IN  \E row \in [free -> 0..MaxChanges] :
             /\ \A p \in free : \E t \in chain : t[1] = p /\ row[p] \in MetaRows(t)
             /\ archMeta' = archMeta \cup {<<p, tx.version, row[p]>> : p \in free}
    /\ tx' = [tx EXCEPT !.at = "ontologies"]
    /\ UNCHANGED <<live, released, history, archLinks, archOnts>>

\* Primary key: the whole row.
ArchiveOnts ==
    /\ tx # None /\ tx.at = "ontologies"
    /\ archOnts' = archOnts \cup
         UNION {{<<t[1], tx.version, o>> : o \in OntRows(t)} : t \in Chain(tx.project)}
    /\ tx' = [tx EXCEPT !.at = "commit"]
    /\ UNCHANGED <<live, released, history, archMeta, archLinks>>

Commit ==
    /\ tx # None /\ tx.at = "commit"
    /\ released' = released \cup {<<tx.project, tx.version>>}
    /\ tx' = None
    /\ found' = None /\ drafts' = {}
    /\ UNCHANGED <<live, archive, raced>>

Create == ArchiveLinks \/ ArchiveMeta \/ ArchiveOnts \/ Commit

Next ==
    \/ \E p \in Projects : EditProject(p)
    \/ \E p, q \in Projects : SetParent(p, q) \/ RemoveParent(p, q)
    \/ \E p \in Projects, o \in Ontologies : SwitchOntology(p, o)
    \/ \E p \in Projects, v \in Numbers : Begin(p, v)
    \/ Create

Spec == Init /\ [][Next]_vars

-----------------------------------------------------------------------------
Sources == Numbers \cup {Draft}

TypeOK ==
    /\ meta \in [Projects -> 0..MaxChanges]
    /\ links \subseteq {<<e[1], e[2], s>> : e \in Edges, s \in Sources}
    /\ \A k, l \in links : k[1] = l[1] /\ k[2] = l[2] => k = l
    /\ onts \subseteq Projects \X Ontologies
    /\ released \subseteq Projects \X Numbers
    /\ archMeta \subseteq Projects \X Numbers \X (0..MaxChanges)
    /\ \A a, b \in archMeta : a[1] = b[1] /\ a[2] = b[2] => a = b
    /\ archLinks \subseteq {<<e[1], v, e[2], s>> : e \in Edges, v \in Numbers, s \in Sources}
    /\ archOnts \subseteq Projects \X Numbers \X Ontologies
    /\ tx = None \/ tx \in [project : Projects, version : Numbers,
                            at : {"links", "project", "ontologies", "commit"}]
    /\ changes \in 0..MaxChanges
    /\ raced \in BOOLEAN

\* "Releases are otherwise immutable" (service_archive.go), to the letter: it is
\* not kept.
ReleaseFreezes ==
    [][\A r \in released : Rows(r[1], r[2])' = Rows(r[1], r[2])]_vars

\* What a step that writes into a release leaves of it.
Kept(r) ==
    LET old == Rows(r[1], r[2])
        new == Rows(r[1], r[2])'
    IN  /\ new.meta = old.meta
        /\ old.links \subseteq new.links /\ old.onts \subseteq new.onts
        /\ \A k \in new.links \ old.links : \A f \in old.links : f[1] # k[1]
        /\ new # old => /\ tx # None /\ tx.version = r[2] /\ tx.project # r[1]
                        /\ \E t \in Chain(tx.project) : t[1] = r[1]

\* What ON CONFLICT DO NOTHING does keep: nothing in a release is taken out or
\* replaced, no parent is pinned anew, and what is added comes with the release of
\* another project under the same number, which has the project in its chain.
ReleaseKeeps == [][\A r \in released : Kept(r)]_vars

\* What was found under the new release's key, and for the rest, table by table, a
\* draft that the project had since.
MadeOfDrafts ==
    LET new == Rows(tx.project, tx.version)
        NotFound(l) == {k \in l : \A f \in found.links : f[1] # k[1]}
    IN  /\ IF found.meta # {} THEN new.meta = found.meta
                              ELSE \E d \in drafts : new.meta = d.meta
        /\ \E d \in drafts : new.links = found.links \cup NotFound(d.links)
        /\ \E d \in drafts : new.onts = found.onts \cup d.onts

\* A release holds a draft that its project had while it was created, except for
\* what other projects' releases under the same number have left under its key.
ReleaseIsDraft ==
    [][Commit =>
        /\ MadeOfDrafts
        /\ found # [meta |-> {}, links |-> {}, onts |-> {}] =>
              \E r \in released : r[2] = tx.version /\ r[1] # tx.project]_vars

\* The release being created is alone: its draft has not been edited meanwhile, none
\* of its ancestors is followed as a draft, and no project has released its number.
Undisturbed ==
    /\ drafts = {DraftRows(tx.project)}
    /\ \A t \in Chain(tx.project) : t[2] = Draft => t[1] = tx.project
    /\ \A r \in released : r[2] # tx.version

\* A project that is in the chain at one source.
Single(chain, t) == \A u \in chain : u[1] = t[1] => u = t

\* A release can be read without the releases it is pinned to: undisturbed, it holds
\* under its own number each parent that it follows at one source as the pinned
\* release has it, and the parent's parents with their pins.
SelfContained ==
    [][Commit /\ Undisturbed =>
        \A k \in Rows(tx.project, tx.version).links :
            Single(Chain(tx.project), k) => Rows(k[1], tx.version) = Rows(k[1], k[2])]_vars

\* "cannot create a release while parent dependencies still follow draft": no
\* release depends on work in progress, unless a parent was switched to its draft
\* between the check and the copy.
NoDraftParent ==
    ~raced => \A r \in released : \A k \in Rows(r[1], r[2]).links : k[2] # Draft

\* "they never see your work-in-progress" (docs-oss/VISION.md), without that
\* exception: it is not kept.
NeverDraft ==
    \A r \in released : \A k \in Rows(r[1], r[2]).links : k[2] # Draft

=============================================================================
