SPECIFICATION Spec
CONSTANTS
    Jobs = {j1}
    Workers = {w1, w2}
    Sweeps = {p1}
    PublishKeys = {k1}
    Malformed = {}
    NoJob = NoJob
    NoToken = NoToken
    Plans = {"PAID", "LAPSED"}
    MaxRetries = 1
    MaxPublishAttempts = 2
    SolveCost = 2
    PublishCost = 1
    InitialCredits = 3
    MaxFaults = 2
    MaxRevision = 1
    LossyBroker = FALSE
SYMMETRY Symmetry
INVARIANT
    PublishedHasMessage
CHECK_DEADLOCK FALSE
