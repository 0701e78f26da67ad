SPECIFICATION FairSpec
CONSTANTS
    Bindings = {"stdio", "persistent", "http"}
    Runs <- MCRuns
    RequestIds <- MCRequestIds
    Retries = 1
    MaxBabble = 1
    NoCall = NoCall
INVARIANTS
    AnswerIsOwn
    InStep
    AcknowledgedIsRemembered
PROPERTIES
    ImplementsExchange
CHECK_DEADLOCK FALSE
