SPECIFICATION FairSpec
CONSTANTS
    MaxSessions = 2
    MaxCommands = 3
    MaxFaults = 1
    MaxOutages = 0
    MaxCrashes = 0
    Levels = {"loud", "silent"}
    Timeouts = {1}
    DefaultTimeout = 1
PROPERTY FlushEndsWhileActive
PROPERTY StopHonoured
