CONSTANTS
    i1 = i1
    i2 = i2
    a = a
    b = b
    Key = {a, b}
    Files <- MCFiles
    Emits <- MCEmits
    Part <- MCPart
    MaxWorkers = 3
    Faulty = {"map", "reduce"}
    MaxCrashes = 0
    MaxSlow = 2
    LateRegister = FALSE
SPECIFICATION Spec
INVARIANTS TypeOK OneAttempt MapsCounted ReducesSeeEveryMapOnce ShutdownHasOutput OutputExactUnlessRetried
 
CHECK_DEADLOCK FALSE
