\* The parent is switched to its draft while a release is being created: violated.
SPECIFICATION Spec
CONSTANTS
    p1 = p1
    p2 = p2
    p3 = p3
    n1 = n1
    n2 = n2
    o1 = o1
    o2 = o2
    Draft = Draft
    None = None
    Projects = {p1, p2}
    Edges <- Pair
    Numbers = {n1, n2}
    Ontologies = {o1}
    MaxChanges = 4
INVARIANTS NeverDraft
CHECK_DEADLOCK FALSE
