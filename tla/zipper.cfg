\* The transcripts and identities are finitely many: the service stops when all
\* are settled.
SPECIFICATION FairSpec
CONSTANTS
    Transcripts <- MixedTranscripts
    Identities <- TwoSpeakers
    MATCH_WINDOW = 2
    MAX_BUFFER = 8
    MaxFaults = 1
    MaxCrashes = 1
INVARIANT PublishedOnce
INVARIANT HeldUnsettled
PROPERTY ImplementsRelay
CHECK_DEADLOCK FALSE
