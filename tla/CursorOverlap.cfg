SPECIFICATION FairSpec
CONSTANTS
    MaxRequests = 3
    MaxExecs = 2
    Capacity = 1
    Limits <- JustOverlap
    None = None
INVARIANTS OverlapOwnID
CHECK_DEADLOCK FALSE
