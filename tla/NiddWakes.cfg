SPECIFICATION Spec
CONSTANTS
    WakeMin = 3
    ReadingsPerWake = 4
    Intervals <- MCIntervals
    MaxBlock = 3
CHECK_DEADLOCK TRUE
INVARIANTS
    WakesOnTime
PROPERTIES
    DueSpacing
    MadeSpacing
