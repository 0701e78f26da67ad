SPECIFICATION Spec
CONSTANTS
    Templates <- MCTemplates
    Seeds <- MCSeeds
    CausalSeeds <- MCCausalSeeds
    MinInstances = 2
    Configs <- MCConfigs
    MaxFaults = 1
    NoReport = NoReport
    None = None
INVARIANTS
    EligibleIffClean
    VerifierIsExact
CHECK_DEADLOCK FALSE
