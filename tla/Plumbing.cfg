SPECIFICATION Spec
CONSTANTS
    MaxChunks = 2
    Requests = {r1, r2, r3}
    Conns = {c1, c2, c3}
    MaxIdle = 1
    NoConn = NoConn
    Callers = {u1, u2, u3}
    Tokens = {t1, t2}
    MaxEvents <- Streams
    Pages = {p1, p2}
    MaxPolls = 4
    MaxStrikes = 3
    MaxText = 6
    MaxPiece = 3
    MaxTagLen = 5
    MaxParts = 5
INVARIANTS TypeOK OneAnswer PoolSound OneFetch SameAnswer LoginKept
PROPERTIES NothingDiscarded AllAnswered
CHECK_DEADLOCK FALSE
