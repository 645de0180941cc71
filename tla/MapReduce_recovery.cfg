CONSTANTS
    i1 = i1
    i2 = i2
    a = a
    b = b
    Key = {a, b}
    Files <- MCFiles
    Emits <- MCEmits
    Part <- MCPart
    MaxWorkers = 3
    Faulty = {"map", "reduce"}
    MaxCrashes = 1
    MaxSlow = 0
    LateRegister = FALSE
SPECIFICATION FairSpec
PROPERTIES JobGetsDone CoordinatorStopsUnlessCrash
CHECK_DEADLOCK FALSE
