SPECIFICATION Spec
CONSTANTS
    None = None
    Values = {"v1", "v2", "v3", "v4"}
    Mentioned = {"v1", "v2"}
    Window = 2
    Scenarios <- Every
    MaxNoise = 1
    MaxSaid = 3
INVARIANTS
    ScoresTellMemoryApart
    ContrastsAreReal
    AnswersAreOnRecord
    ArchivedIsRecalled
PROPERTIES
    RecordedPastIsFixed
CHECK_DEADLOCK FALSE
