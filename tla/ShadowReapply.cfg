SPECIFICATION Spec
CONSTANTS
    Absent = Absent
    Malformed = Malformed
    NoDoc = NoDoc
    NoImage = NoImage
    a = a
    good = good
    raw = raw
    dead = dead
    stale = stale
    slow = slow
    fast = fast
    Images <- MCImages
    FirstImage = a
    Signed <- MCSigned
    Healthy <- MCHealthy
    Baked <- MCBaked
    Intervals <- MCIntervals
    DefaultInterval = slow
    Configs <- PlainConfigs
    Fota = FALSE
    SwapRevert = TRUE
    ConfirmMayFail = FALSE
    Budget = 1
    MaxVersion = 1
    MaxResets = 1
CHECK_DEADLOCK TRUE
INVARIANTS
    BootReapplies
