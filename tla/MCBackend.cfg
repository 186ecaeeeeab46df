CONSTANTS
    OffsetWidth = 1
    BurstWidth = 1
    PageWidthCap = 2
    AddrSpace = 16
    NumAxInFlight = 2
    BufferDepth = 2
    MetaFifoDepth = 4
    CombinedShifter = FALSE
    MaxTransfers = 3
    Requests <- MCToMemory
SPECIFICATION FairSpec
INVARIANTS
    BeatRight
    LastFlagPerTransfer
    CleanWhenIdle
PROPERTIES
    ImplementsInOrderCopy
    AllAnswered
