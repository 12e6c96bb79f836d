SPECIFICATION Spec
CONSTANTS
    Jobs = {j1, j2}
    Workers = {w1, w2}
    Sweeps = {p1}
    PublishKeys = {k1}
    Malformed = {j2}
    NoJob = NoJob
    NoToken = NoToken
    Plans = {"PAID", "LAPSED"}
    MaxRetries = 1
    MaxPublishAttempts = 2
    SolveCost = 2
    PublishCost = 1
    InitialCredits = 4
    MaxFaults = 1
    MaxRevision = 1
    LossyBroker = TRUE
SYMMETRY Symmetry
INVARIANTS
    ActiveJobOwnsDraft
    CompletedKeysSound
PROPERTY
    KeepsPromise
CHECK_DEADLOCK FALSE
