\* One deletion in the middle of a sweep.
SPECIFICATION Spec
CONSTANTS
    f = f
    m = m
    d1 = d1
    d2 = d2
    sweep = sweep
    s1 = s1
    s2 = s2
    s3 = s3
    Absent = Absent
    Base = Base
    Gone = Gone
    NoOne = NoOne
    Entities = {f, m}
    Fields = {f}
    Placings <- NotPlaced
    Saves = {s1, s2}
    Ops = {"create", "update", "delete"}
    Drainers = {d1}
    Poller = d1
    Sweepers = {sweep}
    Limit = 2
    Bad = {}
    LogLoss = FALSE
    Routed = {TRUE}
    MaxFaults = 0
PROPERTIES CommitsOnlyItsClosure
CHECK_DEADLOCK FALSE
