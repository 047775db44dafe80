CONSTANTS
    l1 = l1  l2 = l2  w1 = w1  w2 = w2
    None = None
    Logins = {l1, l2}
    Workers = {w1, w2}
    MaxTimers = 2
SPECIFICATION FairSpec
INVARIANTS
    TypeOK
    OneCredential
PROPERTIES
    ListenerClosed
CHECK_DEADLOCK FALSE
