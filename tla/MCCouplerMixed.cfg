SPECIFICATION FairSpec
CONSTANTS
    NumAxInFlight = 4
    CounterWidth = 2
    DecoupleAw <- MCMixed
PROPERTIES
    StoreDrains
