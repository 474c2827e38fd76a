\* Two projects use the same number: violated.
SPECIFICATION Spec
CONSTANTS
    p1 = p1
    p2 = p2
    p3 = p3
    n1 = n1
    n2 = n2
    o1 = o1
    o2 = o2
    Draft = Draft
    None = None
    Projects = {p1, p2}
    Edges <- Pair
    Numbers = {n1, n2}
    Ontologies = {o1}
    MaxChanges = 4
PROPERTIES ReleaseFreezes
CHECK_DEADLOCK FALSE
