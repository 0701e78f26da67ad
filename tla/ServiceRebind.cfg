SPECIFICATION Spec
CONSTANTS
    Jobs = {j1}
    Workers = {w1, w2}
    Cycles = {c1, c2}
    Submissions = {s1}
    Clients = {e1}
    Operators = {o1}
    core = core
    transfer = transfer
    r1 = r1
    r2 = r2
    high = high
    low = low
    void = void
    NoRow = NoRow
    ProfileIds <- MCProfileIds
    FamilyOf <- MCFamilyOf
    ProfileDocs <- TwoDocs
    Revs <- OneRev
    Tracks <- HostedTracks
    Backends <- Local
    Outcomes <- OneOutcome
    Rankable <- OneOutcome
    InitialDisk <- MCInitialDisk
    Faults = {"edit", "io_error", "recover_live"}
    MaxEdits = 1
    MaxCrashes = 0
    MaxRecoveries = 1
    MaxActivations = 2
SYMMETRY Symmetry
INVARIANTS
    OneActiveCyclePerProfile
    ResultComesFromTheSignedJob
    SucceededNamesItsResult
CHECK_DEADLOCK FALSE
