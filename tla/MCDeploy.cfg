CONSTANTS
    Jobs = {j1, j2, j3}
    Commits = {plain, holding, quotes}
    Holding = {holding}
    Unquotable = {quotes}
    Plain = Plain
    Absent = Absent
SPECIFICATION Spec
SYMMETRY AnyJob
INVARIANTS
    DeployedWhenOver
PROPERTIES
    DeployedStays
CHECK_DEADLOCK FALSE
