\* The streams end: the workers then wait for more.
SPECIFICATION FairSpec
CONSTANTS
    Lanes = {"live", "backfill"}
    Audio <- TwoLanes
    WINDOW = 2
    Voices = {"ann", "bob"}
    MaxWishes = 1
    MaxFaults = 1
INVARIANT OneSession
INVARIANT WindowsWhole
INVARIANT EnrolledKept
PROPERTY Drains
CHECK_DEADLOCK FALSE
