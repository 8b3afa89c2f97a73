SPECIFICATION Spec
CONSTANTS
    host1 = host1
    host2 = host2
    o1 = o1
    o2 = o2
    o3 = o3
    o4 = o4
    w1 = w1
    w2 = w2
    NoThread = NoThread
    Tags <- MCTags
    Workers <- MCWorkers
    Ops <- MCOps
    TagOf <- MCTagOf
    MaxOps = 2
    StarvingPercent = 25
    ActivePercent = 50
    PendingBufferSize = 3
    PerTagPendingSize = 2
SYMMETRY MCSymmetry
INVARIANTS
    
    
    QueueAccounting
    NoSleepingPool
