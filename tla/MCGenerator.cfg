SPECIFICATION Spec
CONSTANTS
    Alphabet <- MCAlphabet
    Requests <- MCRequests
    StrobeWidth = 2
    MaxCycles = 2
    Lanes <- MCLanes
    MaxActive = 2
    Simulated <- MCSimulated
INVARIANTS
    ParserAcceptsGrammar
    AllOrNothing
    TextsIntact
    TracedPortsExist
    RegistersSound
    UtilizationRight
CHECK_DEADLOCK FALSE
