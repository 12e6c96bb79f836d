CONSTANTS
    Keys = {k1, k2}
    Costs = {1, 2}
    Credits = 3
    Lines = {l1, l2}
    Events = {e1, e2}
    NoBatch = NoBatch
    e1 = e1
    k1 = k1
    p1 = p1
    p2 = p2
    a1 = a1
    a2 = a2
    c1 = c1
    c2 = c2
    u1 = u1
    u2 = u2
    u3 = u3
    l1 = l1
    None = None
    CardsCards = {c1, c2}
    CardsUsers = {u1, u2}
    CardsAmendments = {a1}
    CardsNumPeriods = 2
    CardsPeriodLength = 2
    CardsMaxRevision = 3
    AmendCards = {c1}
    AmendUsers = {u1, u2, u3}
    AmendAmendments = {a1, a2}
    AmendNumPeriods = 3
    AmendPeriodLength = 1
    AmendMaxRevision = 3
    EdtUsers = {u1}
    EdtLocations = {l1}
    EdtClients = {c1}
    EdtNumSchedules = 2
    EdtNumShifts = 2
    EdtSlots <- EditSlots
    EdtDemands <- EditDemands
    EdtDays = {0, 1}
    EdtDrafts = {0, 1}
    EdtDayLength = 2
    EdtLongShift = 3
    EdtMaxHours = 2
    EdtLimits = {1, 3}
    EdtAvailable <- BothDays
    EdtScheduleCost = 1
    EdtCredits = 4
    EdtMaxEdits = 2
    EdtMaxSwitches = 2
    PubUsers = {u1}
    PubLocations = {l1}
    PubClients = {c1}
    PubNumSchedules = 1
    PubNumShifts = 2
    PubSlots <- PublicationSlots
    PubDemands <- PublicationDemands
    PubDays = {0, 1}
    PubDrafts = {}
    PubDayLength = 3
    PubLongShift = 2
    PubMaxHours = 2
    PubLimits = {1}
    PubAvailable <- BothDays
    PubScheduleCost = 1
    PubCredits = 3
    PubMaxEdits = 3
    PubMaxSwitches = 3
    BrkKeys = {k1}
    BrkEdits = {e1}
    BrkHandlers = {p1, p2}
    BrkHorizon = 2
    BrkCredits = 2
    BrkMaxSwitches = 1
    BrkMaxFaults = 1
SPECIFICATION MCSpec
CHECK_DEADLOCK FALSE
INVARIANT OneExportIsPaid
INVARIANT ReconciledIsTrue
INVARIANT PayrollSafe
INVARIANT BreaksSafe
INVARIANT EditingSafe
PROPERTY WorkforceSteps
