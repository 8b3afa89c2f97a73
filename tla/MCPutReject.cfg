CONSTANTS
    w1 = w1
    w2 = w2
    w3 = w3
    w4 = w4
    Writes <- MCWrites3
    Offset <- MCOffset
    Size <- MCSize
    Worker = worker
    Closer = closer
    OverlapCalls = FALSE
    MayFail = FALSE
    MayExpire = FALSE
    MayReject = TRUE
    Asizes <- MCAsizes
    None = none
SPECIFICATION Spec
INVARIANTS
    NoSelfDeadlock
