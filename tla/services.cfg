SPECIFICATION FairSpec
CONSTANTS
    Services = {"audio-producer"}
    Protected = "nats"
    MaxRequests = 2
    MaxFaults = 2
INVARIANT AnswerHolds
PROPERTY ServicesReturn
PROPERTY StaleShown
