SPECIFICATION FairSpec
CONSTANTS
    OffsetWidth = 1
    BurstWidth = 3
    PageWidthCap = 3
    AddrSpace = 16
    Requests <- MCRequests
INVARIANTS
    BurstsTile
    BurstsContiguous
    CoupledLockstep
    OneLast
    BurstsLegal
PROPERTIES
    RefillAfterAll
    TransferFinishes
