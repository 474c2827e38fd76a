\* RepinChildren next to a change of a source (DraftLeftAlone is violated).
SPECIFICATION Spec
CONSTANTS
    p1 = p1
    p2 = p2
    p3 = p3
    v1 = v1
    v2 = v2
    draft = draft
    r1 = r1
    r2 = r2
    none = none
    nolink = nolink
    untouched = untouched
    Projects = {p1, p2, p3}
    Releases = {v1, v2}
    Draft = draft
    Requests = {r1, r2}
    Ops = {"source", "repin"}
    InitialLinks <- Starts
    MaxFaults = 1
    NoLink = nolink
    Untouched = untouched
    None = none
INVARIANTS TypeOK
PROPERTIES DraftLeftAlone
CHECK_DEADLOCK FALSE
