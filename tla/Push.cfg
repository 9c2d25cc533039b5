SPECIFICATION FairSpec
CONSTANTS
    Absent = Absent
    Malformed = Malformed
    NoDoc = NoDoc
    slow = slow
    fast = fast
    Channels <- MCChannels
    Intervals <- MCIntervals
    DefaultInterval = slow
    Configs <- MCConfigs
    MaxVersion = 2
    MaxDrops = 1
CHECK_DEADLOCK TRUE
INVARIANTS
    PushNotLost
    PushIsNoPayload
PROPERTIES
    ImplementsPromise
    Settles
    WakeupsCease
