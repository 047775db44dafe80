CONSTANTS
    c1 = c1
    c2 = c2
    r1 = r1
    r2 = r2
    k1 = k1
    f1 = f1
    NoCred = NoCred
    Creds = {c1}
    Rotating = {c1}
    Identity = {}
    Expiring = {c1}
    Requests = {r1, r2}
    Keepers = {k1}
    Fetches = {f1}
    MaxGen = 3
    Faults <- AllFaults
SPECIFICATION FairSpec
INVARIANTS
    TypeOK
    OneSaver
    NoTokenLost
PROPERTIES
    NoStaleOverwrite
    RemovalSettles
    ImplementsCustody
CHECK_DEADLOCK FALSE
