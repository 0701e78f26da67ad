SPECIFICATION FairSpec
CONSTANTS
    Conditions = {"B0", "B1", "B2", "backend"}
    Clients = {"http", "subprocess"}
    Decisions = TRUE
    MemoryLimit = 2
    ParseRetries = 1
    MaxTurns = 2
    MaxLived = 4
    MaxSent = 3
    MaxRuns = 2
    NoOp = NoOp
INVARIANTS
    MemoryFollowsTheCondition
    CleanRecordsArePaired
PROPERTIES
    OperationsReturn
CHECK_DEADLOCK FALSE
