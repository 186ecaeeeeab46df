CONSTANTS
    OffsetWidth = 1
    BurstWidth = 1
    PageWidthCap = 2
    AddrSpace = 16
    NumAxInFlight = 3
    BufferDepth = 2
    MetaFifoDepth = 5
    CombinedShifter = FALSE
    MaxTransfers = 6
    Requests <- MCSmall
SPECIFICATION Spec
INVARIANT InFlightFits
