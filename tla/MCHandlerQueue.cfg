CONSTANTS
    op1 = op1
    op2 = op2
    op3 = op3
    op4 = op4
    Ops <- MCOps
    MaxPending = 2
    MaxTime = 4
    Deadlines <- MCDeadlines
SPECIFICATION FairSpec
INVARIANTS
    PipeMatchesQueue
    InOnePlace
    UnexpiredBounded

    
