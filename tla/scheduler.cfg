SPECIFICATION Spec
CONSTANTS
    Ids = {1, 2}
    Plans <- ThreePlans
    DAY = 8
    MaxClock = 15
    MaxWishes = 1
    MaxFaults = 2
INVARIANT OncePerDay
INVARIANT DueFired
INVARIANT SessionFollowsPlan
PROPERTY StartsComeFirst
