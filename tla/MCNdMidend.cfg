SPECIFICATION FairSpec
CONSTANTS
    NumDim = 4
    RepWidth = 2
    AddrSpace = 16
    Requests <- MCRequests
    MaxInFlight = 2
    MaxTransfers = 3
INVARIANTS
    TypeOK
    BurstAddress
    LastOnFinal
    OneAnswerPerTransfer
PROPERTIES
    RequestsComplete
