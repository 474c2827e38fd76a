\* Two releases, two drainers with overlapping lists, failures and crashes.
SPECIFICATION Spec
CONSTANTS
    v1 = v1
    v2 = v2
    d1 = d1
    d2 = d2
    None = None
    Versions = {v1, v2}
    Drainers = {d1, d2}
    MaxSets = 3
    MaxFaults = 1
    MaxRewrites = 1
SYMMETRY Symmetric
INVARIANTS TagsOnBranch IndexLagIsPending
PROPERTIES HistoryIsKept
CHECK_DEADLOCK FALSE
