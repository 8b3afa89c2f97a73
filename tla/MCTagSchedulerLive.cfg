SPECIFICATION FairSpec
CONSTANTS
    host1 = host1
    host2 = host2
    o1 = o1
    o2 = o2
    o3 = o3
    o4 = o4
    w1 = w1
    w2 = w2
    NoThread = NoThread
    Tags <- MCTags
    Workers <- MCOneWorker
    Ops <- MCSmallOps
    TagOf <- MCSmallTagOf
    MaxOps = 2
    StarvingPercent = 25
    ActivePercent = 100
    PendingBufferSize = 2
    PerTagPendingSize = 0
PROPERTIES
    AdmittedIsServed
