SPECIFICATION Spec
CONSTANTS
    NumAxInFlight = 2
    MetaFifoDepth = 4
    CounterWidth = 2
    Profiles <- FourShort
INVARIANTS
    TransferWhileWaiting
CHECK_DEADLOCK FALSE
