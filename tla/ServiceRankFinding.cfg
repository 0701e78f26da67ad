SPECIFICATION Spec
CONSTANTS
    Jobs = {j1}
    Workers = {w1}
    Cycles = {c1}
    Submissions = {s1}
    Clients = {e1}
    Operators = {o1}
    core = core
    transfer = transfer
    r1 = r1
    r2 = r2
    high = high
    low = low
    void = void
    NoRow = NoRow
    ProfileIds <- MCProfileIds
    FamilyOf <- MCFamilyOf
    ProfileDocs <- OneDoc
    Revs <- OneRev
    Tracks <- HostedTracks
    Backends <- Local
    Outcomes <- TwoScores
    Rankable <- TwoScores
    InitialDisk <- MCInitialDisk
    Faults = {"crash", "recover"}
    MaxEdits = 0
    MaxCrashes = 1
    MaxRecoveries = 1
    MaxActivations = 0
INVARIANTS
    RankedScoreIsVerified
CHECK_DEADLOCK FALSE
