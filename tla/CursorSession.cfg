SPECIFICATION FairSpec
CONSTANTS
    MaxRequests = 3
    MaxExecs = 2
    Capacity = 1
    Limits <- AllLimits
    None = None
INVARIANTS TypeOK NoSendOnClosed OneEnding ResultOnce CallsKept ResumesWhole
PROPERTIES TurnEnds HeartStops
CHECK_DEADLOCK FALSE
