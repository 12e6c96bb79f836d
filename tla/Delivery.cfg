CONSTANTS
    Intents = {i1}
    Deliveries = {p1, p2}
    Addresses = {a1, a2}
    NoAddress = NoAddress
    Unread = Unread
    None = None
    MaxAttempts = 2
    MaxFaults = 2
    MaxSwitches = 2
    p1 = p1
    p2 = p2
    q1 = q1
    q2 = q2
    b1 = b1
    b2 = b2
    e1 = e1
    e2 = e2
    i1 = i1
    a1 = a1
    a2 = a2
    k1 = k1
    k2 = k2
    n1 = n1
    HookEndpoints = {e1}
    HookHandlers = {p1, p2}
    HookSweeps = {q1}
    HookMaxAttempts = 2
    HookCost = 2
    HookInitialCredits = 5
    HookMaxFaults = 1
    HookMaxSwitches = 2
    PairEndpoints = {e1, e2}
    PairHandlers = {q2}
    PairSweeps = {q1}
    PairMaxAttempts = 1
    PairCost = 2
    PairInitialCredits = 5
    PairMaxFaults = 1
    PairMaxSwitches = 1
    ImportImports = {i1}
    ImportHandlers = {p1, p2}
    ImportPublishers = {q1}
    ImportMaxRetries = 0
    ImportCost = 2
    ImportInitialCredits = 5
    ImportMaxFaults = 1
    ImportMaxSwitches = 1
    RetryImports = {i1}
    RetryHandlers = {q2}
    RetryPublishers = {q1}
    RetryMaxRetries = 1
    RetryCost = 2
    RetryInitialCredits = 5
    RetryMaxFaults = 0
    RetryMaxSwitches = 1
    InviteWorkers = {p1, p2}
    InviteAddresses = {a1, a2}
    InviteReissueKeys = {k1, k2}
    InviteInvitations = {n1}
    InviteMaxAttempts = 2
    InviteMaxManualRetries = 1
    InviteMaxFaults = 3
    InviteMaxSwitches = 2
    ExportProcs = {p1, p2}
    ExportNumJobs = 1
    ExportTenants = {e1, e2}
    ExportTenantOf <- OneOwner
    ExportMaxArtifact = 2
    ExportSizes = {1}
    ExportGlobalQuota = 3
    ExportTenantQuota = 2
    ExportMaxAttempts = 2
    ExportMaxFaults = 2
    ExportsProcs = {q2}
    ExportsNumJobs = 2
    ExportsTenants = {e1, e2}
    ExportsTenantOf <- TwoOwners
    ExportsMaxArtifact = 2
    ExportsSizes = {1, 2}
    ExportsGlobalQuota = 3
    ExportsTenantQuota = 2
    ExportsMaxAttempts = 2
    ExportsMaxFaults = 1
    ResetWorkers = {p1, p2}
    ResetRedeemers = {p1, p2}
    ResetAddresses = {b1, b2}
    ResetMaxLinks = 2
    ResetMaxAttempts = 2
    ResetMaxFaults = 1
    ResetMaxSwitches = 2
SPECIFICATION MCSpec
SYMMETRY MCSymmetry
CHECK_DEADLOCK FALSE
INVARIANT WebhookSafe
INVARIANT ImportSafe
INVARIANT OneMailPerIntent
INVARIANT LinksSafe
INVARIANT ExportSafe
PROPERTY QueueSteps
PROPERTY MailSteps
