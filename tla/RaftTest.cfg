CONSTANTS
    Server = {s1, s2, s3}
    Cmd = {a, b}
    Nil = Nil
    Expected = {2}
    SnapShotInterval = 2
    MaxIndex = 2
    MaxKills = 2
SPECIFICATION Spec
SYMMETRY Symmetry
INVARIANTS   ReturnsAreCommitted 
CHECK_DEADLOCK FALSE
