CONSTANTS
    Client = {c1, c2}
    MaxRounds = 2
SPECIFICATION FairSpec
PROPERTY AcquireReturns
CHECK_DEADLOCK FALSE
