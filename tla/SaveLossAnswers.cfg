\* An editor that saves twice, and a restore of its model; a connection that holds locks may be lost.
CONSTANTS
    s1 = s1
    s2 = s2
    r1 = r1
    r2 = r2
    p1 = p1
    p2 = p2
    m1 = m1
    c1 = c1
    Saver = {s1}
    Restorer = {r1}
    Project = {p1}
    Entity = {m1}
    Model = {m1}
    ProjectOf <- OneModel
    Initial = Initial
    None = None
    MaxSubmits = 2
    LockLoss = TRUE
    Undo = FALSE
SPECIFICATION Spec
INVARIANT AnswerIsHonest
\* Users may stop and every process may be done.
CHECK_DEADLOCK FALSE
