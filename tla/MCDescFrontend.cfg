SPECIFICATION FairSpec
CONSTANTS
    NSpeculation = 2
    PendingFifoDepth = 3
    BackendDepth = 1
    InputFifoDepth = 1
    WCounterWidth = 1
    BackendHolds = 2
    AwsUnanswered = 1
    BeatsPause = FALSE
    Chains <- MCChains
INVARIANTS
    Lockstep
    InOrder
    DropsExplained
    SpeculationUnambiguous
    IdleIsDone
PROPERTIES
    Completes
