CONSTANTS
    Ops = {s1, g1}
    Stats = {s1}
    Brokered = {g1}
    Endpoints = {director, origin}
    Home = director
    Handles = {h1, h2, h3}
    Fds = {f1}
    MaxOps = 2
    MaxRedirects = 2
    MaxProbes = 1
    MayExhaust = TRUE
    MayLinger = FALSE
    None = None
SPECIFICATION FairSpec
INVARIANTS
    HandlesExact

    
