\* A run fails between the entities and the patterns of a parent; the job is run again.
SPECIFICATION Spec
CONSTANTS
    g = g
    p = p
    t = t
    jp = jp
    jt = jt
    r1 = r1
    r2 = r2
    none = none
    Projects = {g, p, t}
    Vendored <- Tree
    Inherits <- Parents
    Jobs = {jp, jt}
    TargetOf <- Targets
    Loads = {}
    Runners = {r1, r2}
    Last = 1
    Edited = {p}
    MaxInTurn = 3
    MaxAtOnce = 0
    MaxFaults = 1
    MaxNumber = 2
    None = none
INVARIANTS CompletedParentsWhole
CHECK_DEADLOCK FALSE
