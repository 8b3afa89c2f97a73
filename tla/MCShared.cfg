SPECIFICATION SharedSpec
CONSTANTS
    o1 = o1
    o2 = o2
    c1 = c1
    c2 = c2
    f1 = f1
    h1 = h1
    t1 = t1
    t2 = t2
    md5 = md5
    crc = crc
    None = None
    NoToken = NoToken
    Objects <- MCObjects
    Origins = {o1, o2}
    Brokered = {o1}
    Lifetime = 1
    BrokerLifetime = 0
    MaxLag = 1
    Clients = {c1, c2}
    MaxLifetime = 4
    DiscardTime = 3
    NegativeTime = 1
    StaleTime = 2
    RefreshPeriod = 1
    LookupTime = 1
    Askers = {c1, c2}
    Types = {md5, crc}
    ChecksumLifetime = 2
    Refreshers = {c1, c2}
    Files = {f1}
    Hosts = {h1}
    Tokens = {t1, t2}
    Ops = {o1, o2}
    Workers = {c1, c2}
    Buffers = {0, 2}
    OpsSettings = {0}
    DefaultMaxOps = 2
    LargestMaxOps = 1
CHECK_DEADLOCK FALSE
INVARIANTS
    
    ServedFresh
    NoStaleChecksum
    TokensAgree
    WorkVisible
PROPERTIES
    
    NegativeEnds
    ExitEnds
