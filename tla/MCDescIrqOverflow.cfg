SPECIFICATION Spec
CONSTANTS
    NSpeculation = 2
    PendingFifoDepth = 3
    BackendDepth = 2
    InputFifoDepth = 1
    WCounterWidth = 2
    BackendHolds = 2
    AwsUnanswered = 1
    BeatsPause = FALSE
    Chains <- MCChains
INVARIANTS
    NoIrqDropped
