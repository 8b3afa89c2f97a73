SPECIFICATION FairSpec
CONSTANTS
    r1 = r1
    r2 = r2
    r3 = r3
    r4 = r4
    Reads <- MCReads
    Offset <- MCOffset
    Size <- MCSize
    ObjectLen = 5
    MaxBlock = 3
    Worker = worker
    Closer = closer
    None = none
    MayTimeout = TRUE
    ReadsIn <- MCReadsIn
INVARIANTS
    
    AnsweredOnce
    NoReadLost

    
