\* Two requests of any kind on three projects, side by side.
SPECIFICATION Spec
CONSTANTS
    p1 = p1
    p2 = p2
    p3 = p3
    v1 = v1
    v2 = v2
    draft = draft
    r1 = r1
    r2 = r2
    none = none
    nolink = nolink
    untouched = untouched
    Projects = {p1, p2, p3}
    Releases = {v1}
    Draft = draft
    Requests = {r1, r2}
    Ops = {"create", "source", "delete", "primary", "reorder", "repin", "ontology", "general"}
    InitialLinks <- Starts
    MaxFaults = 1
    NoLink = nolink
    Untouched = untouched
    None = none
INVARIANTS CyclesOverlap ParentsAgree
PROPERTIES PrimaryKept Answered
CHECK_DEADLOCK FALSE
