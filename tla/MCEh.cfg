SPECIFICATION FairSpec
CONSTANTS
    NumAxInFlight = 2
    MetaFifoDepth = 4
    CounterWidth = 2
    Profiles <- AllProfiles
INVARIANTS
    CountExact
    NoSpuriousCompletion
    ErrorDelivered
PROPERTIES
    ContinuedComplete
    AbortEnds
CHECK_DEADLOCK FALSE
