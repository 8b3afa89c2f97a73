CONSTANTS
    App = app
    Worker = worker
    Size = 2
    RaceModes <- MCBoth
    MayFail = TRUE
    MayFailDb = TRUE
    MaxTime = 2
    TouchAfter = 0
    PartLimit = 0
    RowLimit = 1
    FinalLimit = 1
SPECIFICATION Spec
INVARIANTS
    MappedWhileRead
