SPECIFICATION FairSpec
CONSTANTS
    Jobs = {j1}
    Workers = {w1, w2}
    Sweeps = {p1}
    PublishKeys = {}
    Malformed = {}
    NoJob = NoJob
    NoToken = NoToken
    Plans = {"PAID", "LAPSED"}
    MaxRetries = 1
    MaxPublishAttempts = 2
    SolveCost = 2
    PublishCost = 1
    InitialCredits = 3
    MaxFaults = 1
    MaxRevision = 1
    LossyBroker = TRUE
PROPERTY
    EverySolveEnds
CHECK_DEADLOCK FALSE
