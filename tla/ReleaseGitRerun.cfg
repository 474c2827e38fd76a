\* A crash between the ref and the tag.
SPECIFICATION Spec
CONSTANTS
    v1 = v1
    v2 = v2
    d1 = d1
    d2 = d2
    None = None
    Versions = {v1}
    Drainers = {d1}
    MaxSets = 1
    MaxFaults = 1
    MaxRewrites = 0
INVARIANTS OneCommitPerRelease
CHECK_DEADLOCK FALSE
