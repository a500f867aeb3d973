SPECIFICATION Spec
CONSTANTS
    MaxSessions = 2
    MaxCommands = 3
    MaxFaults = 1
    MaxOutages = 0
    MaxCrashes = 1
    Levels = {"loud", "silent"}
    Timeouts = {1, 2}
    DefaultTimeout = 2
INVARIANT TypeOK
INVARIANT KvNamesLatest
INVARIANT BackfillIsPast
PROPERTY ImplementsLifecycle
PROPERTY AutoStopEarned
