SPECIFICATION Spec
CONSTANTS
    Jobs = {j1}
    Workers = {w1, w2}
    Sweeps = {p1, p2}
    PublishKeys = {k1}
    Malformed = {}
    NoJob = NoJob
    NoToken = NoToken
    Plans = {"PAID", "LAPSED"}
    MaxRetries = 1
    MaxPublishAttempts = 2
    SolveCost = 2
    PublishCost = 1
    InitialCredits = 3
    MaxFaults = 2
    MaxRevision = 1
    LossyBroker = TRUE
SYMMETRY Symmetry
INVARIANTS
    TypeOK
    PaidProvenance
    WalletConserved
    NoLostEdit
PROPERTIES
    TerminalIsFinal
    LiveLeaseProtects
    StaleSweepHarmless
CHECK_DEADLOCK FALSE
