CONSTANTS
    w1 = w1
    w2 = w2
    w3 = w3
    w4 = w4
    Writes <- MCWrites4
    Offset <- MCOffset
    Size <- MCSize
    Worker = worker
    Closer = closer
    OverlapCalls = FALSE
    MayFail = TRUE
    MayExpire = TRUE
    MayReject = FALSE
    Asizes <- MCAsizes
    None = none
SPECIFICATION FairSpec
INVARIANTS
    UploadInOrder
    AnsweredOnce
    OkIsTrue
    
PROPERTIES
    EveryCallAnswered
