CONSTANTS
    Client = {c1, c2}
    MaxRounds = 2
SPECIFICATION FairSpec
INVARIANTS TypeOK MutualExclusion NoOrphan
PROPERTIES ReleaseTakesEffect AcquireReturnsUnlessLost
CHECK_DEADLOCK FALSE
