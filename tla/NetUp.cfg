SPECIFICATION FairSpec
CONSTANTS
    Ours = Ours
    Other = Other
    NoCert = NoCert
    Builds <- MCBuilds
    MaxRounds = 3
    MaxTries = 3
    DeleteMayFail = FALSE
    MaxCuts = 1
\* main() returns when the credentials, a connect without retries or pigeon_init() fail.
CHECK_DEADLOCK FALSE
INVARIANTS
    PoweredOffNotReset
    CredentialReady
PROPERTIES
    ConnectedInThisCall
    ComesOnline
