CONSTANTS
    nclnt = 2
    MaxOps = 2
    MaxLost = 4
SPECIFICATION FairSpec
INVARIANTS  ChecksPass AppendsKept
PROPERTY SpawnReturns
CHECK_DEADLOCK FALSE
