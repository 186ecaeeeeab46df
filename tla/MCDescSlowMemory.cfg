SPECIFICATION Spec
CONSTANTS
    NSpeculation = 2
    PendingFifoDepth = 3
    BackendDepth = 1
    InputFifoDepth = 1
    WCounterWidth = 1
    BackendHolds = 2
    AwsUnanswered = 1
    BeatsPause = TRUE
    Chains <- MCThreeChains
INVARIANTS
    Lockstep
    InOrder
    DropsExplained
