CONSTANTS
    Limit = 2
    Threshold = 3
    Window = 3
    MaxTime = 12
SPECIFICATION Spec
INVARIANTS
    TypeOK
    BurstBound
    StreakWithinWindow
PROPERTIES
    NeverRefusedBelowLimit
CHECK_DEADLOCK FALSE
