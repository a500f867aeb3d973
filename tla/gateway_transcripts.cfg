\* Texts and clients are finitely many: the gateway then waits for more.
SPECIFICATION Spec
CONSTANTS
    c1 = c1
    c2 = c2
    Clients = {c1, c2}
    Texts <- TwoFinals
    MaxSessions = 2
    MAX_WS_CONNECTIONS = 1
    MaxFaults = 1
SYMMETRY Symmetry
INVARIANT LimitKept
INVARIANT ReplayComplete
INVARIANT StoredOnce
PROPERTY FiledInTime
CHECK_DEADLOCK FALSE
