CONSTANTS
    l1 = l1  l2 = l2  w1 = w1  w2 = w2
    None = None
    Logins = {l1, l2}
    Workers = {w1, w2}
    MaxTimers = 2
SYMMETRY Interchangeable
SPECIFICATION Spec
INVARIANTS
    BoundInFlight
CHECK_DEADLOCK FALSE
