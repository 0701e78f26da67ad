SPECIFICATION Spec
CONSTANTS
    Templates <- MCTemplates
    Seeds = {1}
    Rungs = {0, 1}
    Reps = {0, 1}
    Profile <- MCProfile
    Configs <- MCConfigs
    MaxOff = 1
    NoReport = NoReport
    None = None
INVARIANTS
    CausalCreditIsEarned
    VerifierIsExact
    FailingNeverHelps
    OfficialIsComplete
    PathsAgree
CHECK_DEADLOCK FALSE
