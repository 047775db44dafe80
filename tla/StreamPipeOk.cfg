CONSTANTS
    Routes <- AllRoutes
    MaxEvents = 3
    MaxLines = 2
    Capacity = 1
SPECIFICATION Spec
INVARIANTS
    CompleteIsOk
CHECK_DEADLOCK FALSE
