\* The poller under fairness, with failures.
SPECIFICATION FairSpec
CONSTANTS
    v1 = v1
    v2 = v2
    d1 = d1
    d2 = d2
    None = None
    Versions = {v1, v2}
    Drainers = {d1}
    MaxSets = 3
    MaxFaults = 1
    MaxRewrites = 0
PROPERTIES SetsReachGit
CHECK_DEADLOCK FALSE
