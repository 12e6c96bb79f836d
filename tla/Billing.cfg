CONSTANTS
    Replicas = {p1, p2}
    Prices = {v1, v2}
    None = None
    MaxSessions = 2
    MaxFaults = 1
    e1 = e1
    p1 = p1
    p2 = p2
    r1 = r1
    s1 = s1
    s2 = s2
    v1 = v1
    v2 = v2
    SyncSubs = {s1, s2}
    SyncHandlers = {e1}
    SyncUnlisted = {s2}
    SyncMaxChanges = 3
    SyncMaxSwitches = 0
    SyncMaxFaults = 1
    SuspSubs = {s1}
    SuspHandlers = {p1, p2}
    SuspUnlisted = {}
    SuspMaxChanges = 2
    SuspMaxSwitches = 2
    SuspMaxFaults = 0
    BuySessions = {s1}
    BuyHandlers = {p1, p2}
    BuyMaxAttempts = 3
    BuyMaxSwitches = 1
    BuyMaxFaults = 1
    CancelSubs = {s1}
    CancelProcs = {p1, p2}
    CancelMaxOps = 2
    CancelMaxHolds = 1
    CancelMaxPeriods = 1
    CancelMaxResumes = 0
    CancelMaxFaults = 1
    CancelMaxStalls = 0
    StallSubs = {s1}
    StallProcs = {p1, p2}
    StallMaxOps = 2
    StallMaxHolds = 1
    StallMaxPeriods = 0
    StallMaxResumes = 0
    StallMaxFaults = 0
    StallMaxStalls = 1
    ReplSubs = {s1, s2}
    ReplProcs = {p1, p2}
    ReplMaxOps = 1
    ReplMaxHolds = 2
    ReplMaxPeriods = 1
    ReplMaxResumes = 1
    ReplMaxFaults = 0
    ReplMaxStalls = 0
    DelProcs = {p1, p2}
    DelSessions = {s1}
    DelIntakes = {r1}
    DelMaxFaults = 1
    DelMaxStalls = 1
    UsageWorkers = {p1, p2}
    UsageReports = {e1}
    UsageNumPeriods = 1
    UsageMaxStaff = 1
    UsageMaxAttempts = 2
    UsageMaxReplays = 1
    UsageMaxFaults = 1
    UnnamedWorkers = {r1}
    UnnamedReports = {e1}
    UnnamedNumPeriods = 2
    UnnamedMaxStaff = 1
    UnnamedMaxAttempts = 2
    UnnamedMaxReplays = 0
    UnnamedMaxFaults = 0
SPECIFICATION MCSpec
SYMMETRY MCSymmetry
CHECK_DEADLOCK FALSE
INVARIANT OneOpenSession
INVARIANT LinkSellsWhatWasAsked
INVARIANT SyncSafe
INVARIANT PurchaseSafe
INVARIANT CancellationSafe
INVARIANT DeletionSafe
INVARIANT UsageSafe
PROPERTY BillingSteps
