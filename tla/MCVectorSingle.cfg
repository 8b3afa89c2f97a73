SPECIFICATION Spec
CONSTANTS
    Requests <- MCSingle
    Servers = {"whole"}
    FileSize = 6
    OffMax = 99
INVARIANTS
    SingleResponseRight
CHECK_DEADLOCK FALSE
