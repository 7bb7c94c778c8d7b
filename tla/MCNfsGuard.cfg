SPECIFICATION Spec
CONSTANTS
    Names = {1, 2, 3}
    MaxId = 5
    Clients = {"c1", "c2"}
    Auth <- MCAuth
    Scenarios <- MCScenarios
    Sattrs <- MCSattrs
    Tree <- MCTree
    PageSize = 2
    Fit = 1
    MaxXid = 3
    MaxConn = 2
    MaxLives = 2
    MaxFaults = 0
INVARIANT
    GuardHolds
CHECK_DEADLOCK FALSE
