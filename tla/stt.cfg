\* The audio is finite: the service waits for more when all is published.
SPECIFICATION FairSpec
CONSTANTS
    Backfill <- TwoBackfills
    Live <- TwoLives
    Faults = {"call", "send", "slow", "drop", "crash"}
    MaxFaults = 2
INVARIANT TypeOK
INVARIANT LineStraight
INVARIANT LineInOrder
INVARIANT LiveTaggedLive
INVARIANT SkippedWereStale
PROPERTY CalmTranscribed
CHECK_DEADLOCK FALSE
