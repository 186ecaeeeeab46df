SPECIFICATION Spec
CONSTANTS
    NumAxInFlight = 2
    MetaFifoDepth = 4
    CounterWidth = 2
    Profiles <- OneStall
INVARIANTS
    WaitsForAnswer
CHECK_DEADLOCK FALSE
