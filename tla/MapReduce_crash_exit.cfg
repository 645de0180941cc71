CONSTANTS
    i1 = i1
    i2 = i2
    a = a
    b = b
    Key = {a, b}
    Files <- MCFiles
    Emits <- MCEmits
    Part <- MCPart
    MaxWorkers = 2
    Faulty = {"map"}
    MaxCrashes = 1
    MaxSlow = 0
    LateRegister = FALSE
SPECIFICATION FairSpec
PROPERTY CoordinatorStops
CHECK_DEADLOCK FALSE
