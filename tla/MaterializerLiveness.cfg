\* The poller and the sweep under fairness, one change set that always fails.
SPECIFICATION FairSpec
CONSTANTS
    f = f
    m = m
    d1 = d1
    d2 = d2
    sweep = sweep
    s1 = s1
    s2 = s2
    s3 = s3
    Absent = Absent
    Base = Base
    Gone = Gone
    NoOne = NoOne
    Entities = {f, m}
    Fields = {f}
    Placings <- NotPlaced
    Saves = {s1, s2}
    Ops = {"update", "delete"}
    Drainers = {d1}
    Poller = d1
    Sweepers = {sweep}
    Limit = 2
    Bad = {s1}
    LogLoss = TRUE
    Routed = {TRUE}
    MaxFaults = 1
PROPERTIES EverySetProcessed GitConverges
CHECK_DEADLOCK FALSE
