SPECIFICATION FairSpec
CONSTANTS
    NumAxInFlight = 16
    CounterWidth = 4
    DecoupleAw <- MCCoupledOnly
INVARIANTS
    GrantsMatchAws
    AwAfterR
PROPERTIES
    StoreDrains
