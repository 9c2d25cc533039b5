SPECIFICATION FairSpec
CONSTANTS
    Absent = Absent
    Malformed = Malformed
    NoDoc = NoDoc
    NoImage = NoImage
    a = a
    good = good
    raw = raw
    dead = dead
    stale = stale
    slow = slow
    fast = fast
    Images <- MCImages
    FirstImage = a
    Signed <- MCSigned
    Healthy <- MCHealthy
    Baked <- MCBaked
    Intervals <- MCIntervals
    DefaultInterval = slow
    Configs <- UpdateConfigs
    Fota = TRUE
    SwapRevert = TRUE
    ConfirmMayFail = FALSE
    Budget = 2
    MaxVersion = 3
    MaxResets = 1
CHECK_DEADLOCK TRUE
INVARIANTS
    ConvergedMeansBooted
    Recoverable
    DownloadsWithinBudget
PROPERTIES
    ImplementsPromise
    RecordedRebootOnce
    Settles
    EventuallyQuiet
