SPECIFICATION Spec
CONSTANTS
    Jobs = {j1}
    Workers = {w1}
    Sweeps = {p1}
    PublishKeys = {k1}
    Malformed = {}
    NoJob = NoJob
    NoToken = NoToken
    Plans = {"PAID", "BETA"}
    MaxRetries = 1
    MaxPublishAttempts = 2
    SolveCost = 2
    PublishCost = 1
    InitialCredits = 3
    MaxFaults = 0
    MaxRevision = 1
    LossyBroker = TRUE
SYMMETRY Symmetry
PROPERTY
    ClaimHonoursEntitlement
CHECK_DEADLOCK FALSE
