\* A line of three projects, any number for any release, edits at any time.
SPECIFICATION Spec
CONSTANTS
    p1 = p1
    p2 = p2
    p3 = p3
    n1 = n1
    n2 = n2
    o1 = o1
    o2 = o2
    Draft = Draft
    None = None
    Projects = {p1, p2, p3}
    Edges <- Line
    Numbers = {n1, n2}
    Ontologies = {o1}
    MaxChanges = 3
INVARIANTS NoDraftParent
PROPERTIES ReleaseKeeps ReleaseIsDraft SelfContained
SYMMETRY NumberSymmetry
CHECK_DEADLOCK FALSE
