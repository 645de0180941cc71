CONSTANTS
    NShards = 5
    Gid = {1, 2, 3, 4}
    Server = {"x", "y"}
    MaxNum = 4
SPECIFICATION FairSpec
INVARIANTS CheckConfig  MovesAreNeeded
PROPERTY RebalanceReturns
CHECK_DEADLOCK FALSE
