\* Two drainers and the sweep, failures and crashes, deletions, lost flushes.
SPECIFICATION Spec
CONSTANTS
    f = f
    m = m
    d1 = d1
    d2 = d2
    sweep = sweep
    s1 = s1
    s2 = s2
    s3 = s3
    Absent = Absent
    Base = Base
    Gone = Gone
    NoOne = NoOne
    Entities = {f, m}
    Fields = {f}
    Placings <- Placed
    Saves = {s1, s2}
    Ops = {"create", "update", "delete"}
    Drainers = {d1, d2}
    Poller = d1
    Sweepers = {sweep}
    Limit = 2
    Bad = {}
    LogLoss = TRUE
    Routed = {TRUE, FALSE}
    MaxFaults = 2
SYMMETRY SaveSymmetry
INVARIANTS NoLostChange DeletedStaysDeleted
CHECK_DEADLOCK FALSE
