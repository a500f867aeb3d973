SPECIFICATION Spec
CONSTANTS
    MaxSessions = 3
    MaxCommands = 4
    MaxFaults = 1
    MaxOutages = 1
    MaxCrashes = 1
    Levels = {"loud"}
    Timeouts = {1}
    DefaultTimeout = 1
INVARIANT NoSessionAbandoned
INVARIANT KvAgrees
INVARIANT AnnouncedAgrees
