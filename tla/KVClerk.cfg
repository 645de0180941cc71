CONSTANTS
    Key = {"k"}
    Value = {"a", "b"}
    Empty = ""
    Version = {0, 1, 2}
    Op = {o1, o2}
    Unreliable = TRUE
    Disconnects = TRUE
    MaxLate = 1
SPECIFICATION FairSpec
INVARIANTS TypeOK AtMostOnce ResultIsTrue VersionsCountWrites
PROPERTIES Linearizable EveryCallReturns
CHECK_DEADLOCK FALSE
