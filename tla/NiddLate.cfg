SPECIFICATION Spec
CONSTANTS
    Absent = Absent
    Malformed = Malformed
    NoDoc = NoDoc
    Intervals <- MCIntervals
    WakeMin = 4
    DefaultInterval = 5
    Configs <- MCConfigs
    MaxVersion = 1
    MaxResets = 0
    MaxFrames = 1
CHECK_DEADLOCK TRUE
INVARIANTS
    LateConfirmationCounts
