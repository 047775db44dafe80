CONSTANTS
    c1 = c1
    c2 = c2
    r1 = r1
    r2 = r2
    k1 = k1
    f1 = f1
    NoCred = NoCred
    Creds = {c1, c2}
    Rotating = {c1}
    Identity = {c2}
    Expiring = {c1, c2}
    Requests = {r1}
    Keepers = {k1}
    Fetches = {f1}
    MaxGen = 3
    Faults <- Losses
SPECIFICATION FairSpec
PROPERTIES
    Freshened
CHECK_DEADLOCK FALSE
