SPECIFICATION FairSpec
CONSTANTS
    NumAxInFlight = 2
    MetaFifoDepth = 4
    CounterWidth = 2
    Profiles <- TwoErrors
PROPERTIES
    AllComplete
CHECK_DEADLOCK FALSE
