SPECIFICATION FairSpec
CONSTANTS
    Services = {"audio-producer", "stt-provider"}
    Protected = "nats"
    MaxRequests = 1
    MaxFaults = 0
PROPERTY DownReported
