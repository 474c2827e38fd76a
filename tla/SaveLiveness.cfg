\* Two editors of one model and a restore of its project, under fairness.
CONSTANTS
    s1 = s1
    s2 = s2
    r1 = r1
    r2 = r2
    p1 = p1
    p2 = p2
    m1 = m1
    c1 = c1
    Saver = {s1, s2}
    Restorer = {r1}
    Project = {p1}
    Entity = {m1}
    Model = {m1}
    ProjectOf <- OneModel
    Initial = Initial
    None = None
    MaxSubmits = 1
    LockLoss = FALSE
    Undo = FALSE
SPECIFICATION FairSpec
PROPERTIES
    SaveAnswered
    RestoreEnds
\* Users may stop and every process may be done.
CHECK_DEADLOCK FALSE
