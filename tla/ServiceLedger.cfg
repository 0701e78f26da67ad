SPECIFICATION Spec
CONSTANTS
    Jobs = {j1, j2}
    Workers = {w1, w2}
    Cycles = {c1}
    Submissions = {s1, s2}
    Clients = {e1}
    Operators = {o1}
    core = core
    transfer = transfer
    r1 = r1
    r2 = r2
    high = high
    low = low
    void = void
    NoRow = NoRow
    ProfileIds <- MCProfileIds
    FamilyOf <- MCFamilyOf
    ProfileDocs <- TwoDocs
    Revs <- MCRevs
    Tracks <- HostedTracks
    Backends <- LocalAndOci
    Outcomes <- OneOutcome
    Rankable <- OneOutcome
    InitialDisk <- MCInitialDisk
    Faults = {"crash", "edit"}
    MaxEdits = 1
    MaxCrashes = 1
    MaxRecoveries = 0
    MaxActivations = 0
SYMMETRY AllSymmetry
INVARIANTS
    TypeOK
    StoredResultVerifies
PROPERTIES
    ImplementsLedger
CHECK_DEADLOCK FALSE
