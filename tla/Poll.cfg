SPECIFICATION FairSpec
CONSTANTS
    Absent = Absent
    Malformed = Malformed
    NoDoc = NoDoc
    slow = slow
    fast = fast
    Intervals <- MCIntervals
    DefaultInterval = slow
    Configs <- MCConfigs
    MaxVersion = 3
    MaxPolls = 3
    MaxResets = 1
\* main() returns when the network does not start.
CHECK_DEADLOCK FALSE
INVARIANTS
    OutputFollows
PROPERTIES
    ImplementsPromise
    NoFalseReboot
    Settles
    RebootsCease
