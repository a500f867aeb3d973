SPECIFICATION Spec
CONSTANTS
    MaxSessions = 1
    SESSION_RETENTION_COUNT = 1
    ByAge = FALSE
    MaxFaults = 0
INVARIANT HandlesFound
