\* A job restores a project, and an entity is created in it.
SPECIFICATION Spec
CONSTANTS
    g = g
    p = p
    t = t
    jp = jp
    jt = jt
    r1 = r1
    r2 = r2
    none = none
    Projects = {g, p, t}
    Vendored <- Tree
    Inherits <- Parents
    Jobs = {jp, jt}
    TargetOf <- Targets
    Loads = {}
    Runners = {r1, r2}
    Last = 1
    Edited = {p}
    MaxInTurn = 3
    MaxAtOnce = 2
    MaxFaults = 0
    MaxNumber = 2
    None = none
PROPERTIES CreatesSucceed
CHECK_DEADLOCK FALSE
