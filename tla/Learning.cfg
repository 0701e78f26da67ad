SPECIFICATION Spec
CONSTANTS
    Setups <- MCSetups
    Phases <- MCPhases
    MaxTurns = 3
    MaxToolCalls = 2
    TransportRetries = 1
    None = None
INVARIANTS
    OnlyTheUnreplayableIsRefused
    DamageIsNeverErased
    RevocationFollowsDamage
    ReadoptionNeedsAnotherTrial
CHECK_DEADLOCK FALSE
