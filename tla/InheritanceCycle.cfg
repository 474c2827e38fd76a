\* Two links added at the same time (Acyclic is violated).
SPECIFICATION Spec
CONSTANTS
    p1 = p1
    p2 = p2
    p3 = p3
    v1 = v1
    v2 = v2
    draft = draft
    r1 = r1
    r2 = r2
    none = none
    nolink = nolink
    untouched = untouched
    Projects = {p1, p2, p3}
    Releases = {v1}
    Draft = draft
    Requests = {r1, r2}
    Ops = {"create"}
    InitialLinks <- Starts
    MaxFaults = 1
    NoLink = nolink
    Untouched = untouched
    None = none
INVARIANTS Acyclic
CHECK_DEADLOCK FALSE
