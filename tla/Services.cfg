\* Adoption: three requests one after the other or two at a time, one failure.
\* Restore jobs: three runs one after the other or two at a time, one failure.
\* The sets and functions with a name are in MC_Services.
SPECIFICATION ServicesSpec
CONSTANTS
    None = none
    MaxInTurn = 3
    MaxAtOnce = 2
    MaxFaults = 1
    base = base
    mid = mid
    top = top
    jp = jp
    jt = jt
    r1 = r1
    r2 = r2
    Projects = {base, mid, top}
    Vendored <- Tree
    Inherits <- ParentsOf
    Jobs = {jp, jt}
    TargetOf <- Targets
    Loads = {mid}
    Runners = {r1, r2}
    Last = 1
    Edited = {mid}
    MaxNumber = 2
    p1 = p1
    p2 = p2
    m = m
    c1 = c1
    Parents = {p1, p2}
    Models = {m}
    Categories = {c1}
    ParentOf <- Home
    CategoriesOf <- Shared
    Requests = {r1, r2}
    Ops = {"adopt", "fork", "drop", "edit", "remove", "link", "unlink"}
    MaxIds = 5
    v1 = v1
    v2 = v2
    Versions = {v1, v2}
    IndexProjects = {q1}
    Links <- Sets
    a1 = a1
    a2 = a2
    Askers = {a1, a2}
    SoftCap = 1
    MaxAsks = 3
    MaxChanges = 1
    u1 = u1
    u2 = u2
    s1 = s1
    s2 = s2
    empty = empty
    Entities = {e1}
    Actors = {u1, u2}
    Sids = {s1, s2, empty}
    Tabs <- OpenTabs
    NoSid = empty
    Cap = 2
    Ttl = 0
    Posts = {b1, b2}
    MaxNow = 1
    MaxPosts = 4
    x1 = x1
    x2 = x2
    x3 = x3
    m1 = m1
    m2 = m2
    Saves = {x1, x2, x3}
    PatternOf <- Saved
    PoolSize = 2
    Transactions = 2
INVARIANTS LimitsHold JobsTellTheTruth OnlyFaultsFail IndexIsFresh ReceiptsOfParents
PROPERTIES LostOnlyToStaleList RemovalIsSafe ForksAreKept WorkSurvives EvictsOldest LastBeatShown EveryCallEnds
CHECK_DEADLOCK FALSE
