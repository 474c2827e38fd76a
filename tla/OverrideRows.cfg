\* Two successive saves under the entity lock: two fields, two categories, two rows.
CONSTANTS
    w1 = w1
    w2 = w2
    f1 = f1
    f2 = f2
    c1 = c1
    c2 = c2
    Writer = {w1}
    Field = {f1, f2}
    Place = {c1, c2}
    Position = {1, 2}
    MaxRows = 2
    MaxSaves = 2
    Locked = TRUE
SPECIFICATION Spec
SYMMETRY Symmetries
INVARIANTS
    ChangelogReplays
    RefsLandOnTheirRow
PROPERTY
    NoNeedlessReplacement
\* The bound on saves stops the writers.
CHECK_DEADLOCK FALSE
