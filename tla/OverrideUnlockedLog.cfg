\* Two writers that hold no entity lock.
CONSTANTS
    w1 = w1
    w2 = w2
    f1 = f1
    f2 = f2
    c1 = c1
    c2 = c2
    Writer = {w1, w2}
    Field = {f1}
    Place = {c1}
    Position = {1, 2}
    MaxRows = 1
    MaxSaves = 3
    Locked = FALSE
SPECIFICATION Spec
SYMMETRY Symmetries
INVARIANT
    NoGhostUpdate
\* The bound on saves stops the writers.
CHECK_DEADLOCK FALSE
