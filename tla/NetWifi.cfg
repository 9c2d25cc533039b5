SPECIFICATION Spec
CONSTANTS
    Ours = Ours
    Other = Other
    NoCert = NoCert
    Builds <- WifiOnly
    MaxRounds = 1
    MaxTries = 1
    DeleteMayFail = FALSE
    MaxCuts = 0
CHECK_DEADLOCK FALSE
PROPERTIES
    ConnectedInThisAttempt
