SPECIFICATION FairSpec
CONSTANTS
    Builds <- MCBuilds
    SlotChoices <- MCSlots
    MaxFrames = 3
    MaxResets = 1
CHECK_DEADLOCK TRUE
INVARIANTS
    ReportIsOneFrame
PROPERTIES
    ImplementsPromise
    FixReported
