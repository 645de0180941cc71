CONSTANTS
    Client = {k1, k2}
    Server = {s1}
    Call = {c1, c2}
    Unreliable = TRUE
    MaxInst = 3
SPECIFICATION FairSpec
INVARIANTS TypeOK AckedIsPersisted OldInstanceHarmless EndsFollowSrvs
PROPERTY CallToDeletedReturns
