------------------------------ MODULE Services ------------------------------
(***************************************************************************)
(* Five services of the server that share no state: restore jobs            *)
(* (RestoreJobs, extended), adoption and forks, the cache of autocomplete    *)
(* indexes, presence of editors, and the pool of connections (instances).    *)
(* The initial state says which of them is at work; the others keep still.   *)
(* Nothing is lost: steps of two services commute, and no property speaks of *)
(* two of them.                                                            *)
(***************************************************************************)
EXTENDS RestoreJobs

CONSTANTS
    Parents, Models, Categories, ParentOf, CategoriesOf, Requests, Ops, MaxIds,     \* Adoption
    Versions, IndexProjects, Links, Askers, SoftCap, MaxAsks, MaxChanges,           \* IndexCache
    Entities, Actors, Sids, Tabs, NoSid, Cap, Ttl, Posts, MaxNow, MaxPosts,         \* Presence
    Saves, PatternOf, PoolSize, Transactions                                        \* SavePool

VARIABLES
    part,
    table, local, used, models, forks, linked, given, req, begun, failures, inTurn,     \* Adoption
    content, heard, links, bus, entries, older, epoch, leader, ask, asked, changes,     \* IndexCache
    now, byEntry, post, posted, last,                                                   \* Presence
    free, save                                                                          \* SavePool

-----------------------------------------------------------------------------
Adopt == INSTANCE Adoption WITH started <- begun, faults <- failures, serial <- inTurn
Index == INSTANCE IndexCache WITH Projects <- IndexProjects
Editors == INSTANCE Presence
Pool == INSTANCE SavePool

ServicesAssumption ==
    /\ RestoreJobsAssumption
    /\ Adopt!AdoptionAssumption
    /\ Index!IndexCacheAssumption
    /\ Editors!PresenceAssumption
    /\ Pool!SavePoolAssumption

-----------------------------------------------------------------------------
adoptionVars == <<table, local, used, models, forks, linked, given, req, begun, failures, inTurn>>
indexVars == <<content, heard, links, bus, entries, older, epoch, leader, ask, asked, changes>>
presenceVars == <<now, byEntry, post, posted, last>>
poolVars == <<free, save>>
allVars == <<part, vars, adoptionVars, indexVars, presenceVars, poolVars>>

\* Where a service that is not at work may begin in several ways, one will do.
ServicesInit ==
    /\ part \in {"restore", "adoption", "index", "presence", "pool"}
    /\ Init /\ Adopt!Init /\ Index!Init /\ Editors!Init /\ Pool!Init
    /\ part # "restore" => serial
    /\ part # "adoption" => linked = {} /\ inTurn
    /\ part # "index" => links = CHOOSE l \in [IndexProjects -> Links] : TRUE

ServicesNext ==
    /\ UNCHANGED part
    /\ \/ /\ part = "restore" /\ Next
          /\ UNCHANGED <<adoptionVars, indexVars, presenceVars, poolVars>>
       \/ /\ part = "adoption" /\ Adopt!Next
          /\ UNCHANGED <<vars, indexVars, presenceVars, poolVars>>
       \/ /\ part = "index" /\ Index!Next
          /\ UNCHANGED <<vars, adoptionVars, presenceVars, poolVars>>
       \/ /\ part = "presence" /\ Editors!Next
          /\ UNCHANGED <<vars, adoptionVars, indexVars, poolVars>>
       \/ /\ part = "pool" /\ Pool!Next
          /\ UNCHANGED <<vars, adoptionVars, indexVars, presenceVars>>

\* The fairness of each service, as its module states it.
ServicesFairness ==
    /\ \A r \in Runners : WF_vars(part = "restore" /\ Step(r) /\ ~LockTimeout(r))
    /\ \A r \in Requests : WF_adoptionVars(part = "adoption" /\ Adopt!Step(r))
    /\ \A a \in Askers : WF_indexVars(part = "index" /\ Index!Step(a))
    /\ \A s \in Saves : WF_poolVars(part = "pool" /\ Pool!Step(s))
                        /\ WF_poolVars(part = "pool" /\ Pool!Timeout(s))

ServicesSpec == ServicesInit /\ [][ServicesNext]_allVars /\ ServicesFairness

-----------------------------------------------------------------------------
\* Whatever was asked of them, the services keep within their limits: the cache of
\* indexes its cap, an actor its number of sessions whatever ids clients make up,
\* and every connection that is not in the pool belongs to a save that gives it back.
LimitsHold == Index!CapKept /\ Editors!SessionsCapped /\ Pool!NoConnectionLeaks

\* No index stays in the cache, or gets there, with rows older than an import the
\* cache was told of, in any of the three queries it was built from; and a request
\* that starts after an import was published sees it, unless it joins a build that
\* is under way.
IndexIsFresh == Index!NoStaleEntry /\ Index!AnswersAreFresh

\* A new session of an editor pushes out none seen later than one that stays.
EvictsOldest == Editors!EvictsOldest

\* An editor whose latest beat is in time, and who has not left since, is shown.
LastBeatShown == Editors!LastBeatShown

\* Copied categories are vouched for by parents only, whatever fails on the way.
ReceiptsOfParents == Adopt!ReceiptsOfParents

\* Receipts are lost to a request that had listed them earlier, and no other way.
LostOnlyToStaleList == Adopt!LostOnlyToStaleList

\* Removing a link or a category loses nothing in use: a parent goes only when all
\* that was adopted from it is forked or given up, and a category with placements
\* only when they are given another.
RemovalIsSafe == Adopt!NothingStranded /\ Adopt!UsedCopyStays

\* A source is forked once, and no clean-up takes a fork away that is recorded.
ForksAreKept == []Adopt!OneForkPerSource /\ Adopt!CleanForks
=============================================================================
