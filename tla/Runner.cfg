SPECIFICATION FairSpec
CONSTANTS
    Nothing = Nothing
    NoDescriptor = NoDescriptor
    Timeline <- MCTimeline
    Probes <- MCProbes
    Stated = {}
    Conditions <- MCConditions
    Descriptors <- MCDescriptors
    ToolCallIds = {"t1", "t2"}
    MaxAgentTurns = 2
    MaxToolCalls = 1
    TransportRetries = 1
INVARIANTS
    ReturnedRunVerifies
    EveryAgentReleased
    ToolCallsAreExperienced
    OnlyTheHandedStateCrosses
    CreditNeedsRecall
    MemoryIsTheOnlyTreatment
PROPERTIES
    NothingAfterFailure
    RunEnds
CHECK_DEADLOCK FALSE
