SPECIFICATION FairSpec
CONSTANTS
    Absent = Absent
    Malformed = Malformed
    NoDoc = NoDoc
    Intervals <- MCIntervals
    WakeMin = 4
    DefaultInterval = 5
    Configs <- MCConfigs
    MaxVersion = 2
    MaxResets = 1
    MaxFrames = 1
CHECK_DEADLOCK TRUE
INVARIANTS
    RebootOnlyConfirmed
    OneTimeoutPerWake
    NothingUnnoticed
PROPERTIES
    ImplementsPromise
    RebootAtMostOnce
    Settles
    ReportsCease
