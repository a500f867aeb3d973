SPECIFICATION Spec
CONSTANTS
    MaxSessions = 2
    SESSION_RETENTION_COUNT = 1
    ByAge = TRUE
    MaxFaults = 1
INVARIANT TypeOK
INVARIANT ActiveAgrees
INVARIANT ActiveListed
INVARIANT RowsAgree
 
PROPERTY CountSparesRunning
