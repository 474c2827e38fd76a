\* A category of a project that has adopted a model is edited.
SPECIFICATION Spec
CONSTANTS
    p1 = p1
    p2 = p2
    m = m
    c1 = c1
    r1 = r1
    r2 = r2
    none = none
    Parents = {p1, p2}
    Models = {m}
    Categories = {c1}
    ParentOf <- Owner
    CategoriesOf <- Copies
    Requests = {r1, r2}
    Ops = {"edit", "remove"}
    MaxInTurn = 4
    MaxAtOnce = 2
    MaxIds = 5
    MaxFaults = 1
    None = none
PROPERTIES DetachSparesModels
CHECK_DEADLOCK FALSE
