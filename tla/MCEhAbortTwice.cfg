SPECIFICATION Spec
CONSTANTS
    NumAxInFlight = 2
    MetaFifoDepth = 4
    CounterWidth = 2
    Profiles <- AbortedRead
INVARIANTS
    CompletedOnce
CHECK_DEADLOCK FALSE
