SPECIFICATION Spec
CHECK_DEADLOCK FALSE
CONSTANTS
    a1 = a1
    a2 = a2
    None = None
    Calls = {a1, a2}
    Ways <- MCWays
    MaxRetries = 2
    BaseDelay = 1
    MaxDelay = 2
    Plan <- MCPlan
    Names = {"obj"}
    Sentinels <- MCSentinels
    MaxBlocks = 2
    Requests <- MCRequests
    Servers = {"parts", "one", "malformed", "error"}
    FileSize = 6
    OffMax = 99
INVARIANTS
    RetryAnsweredOnce
    S3AnswersTrue
    
    VectorSplitFree
PROPERTIES
    RetryAnswers
    S3Answers
