CONSTANTS
    i1 = i1
    i2 = i2
    a = a
    b = b
    Key = {a, b}
    Files <- MCFiles
    Emits <- MCEmits
    Part <- MCPart
    MaxWorkers = 2
    Faulty = {"reduce"}
    MaxCrashes = 1
    MaxSlow = 0
    LateRegister = FALSE
SPECIFICATION Spec
INVARIANT OutputExact
CHECK_DEADLOCK FALSE
