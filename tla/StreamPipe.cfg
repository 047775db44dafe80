CONSTANTS
    Routes <- AllRoutes
    MaxEvents = 4
    MaxLines = 2
    Capacity = 1
SPECIFICATION FairSpec
INVARIANTS
    TypeOK
    NothingLost
    EndsMetered
    OneDone
    OkIsComplete
PROPERTIES
    Completes
CHECK_DEADLOCK FALSE
