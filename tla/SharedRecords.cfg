CONSTANTS
    MediaWorkers = {p1, p2}
    MediaUsers = {p1, p2}
    Media = {v1}
    Videos = {v1}
    GenerationAttempts = 2
    MaxMediaAsks = 2
    MaxMediaFaults = 1
    TokenCallers = {p1, p2}
    MaxTokens = 4
    MaxRequests = 3
    NoToken = none
    Requesters = {p1, p2}
    PlanLimits = {2, 3}
    MostUnits = 2
    MaxCalls = 2
    Objects = {o1}
    MaxPeriods = 1
    MaxUsageRequests = 3
    MaxUsageFaults = 1
    Servers = {p1, p2}
    Payloads <- Batches
    Backfillers = {b1}
    MaxDuplicates = 1
    MaxLeadFaults = 1
    MaxEdits = 1
    Evaluators = {p1, p2}
    Recs = {1, 2}
    Proposal <- Proposals
    Policies <- Settings
    MaxAutoRisk = 2
    MaxActions = 1
    MaxIncreases = 1
    MaxCampaigns = 1
    BatchLimit = 3
    MaxDays = 2
    MaxSessions = 2
    Hitters = {p1, p2}
    Processes = {p1, p2}
    Limit = 1
    Window = 2
    MaxMoment = 3
    MaxHits = 4
SYMMETRY Symmetry
SPECIFICATION RecordSpec
CHECK_DEADLOCK FALSE
INVARIANTS TypeOK OneUseUnlessContested EndedFamiliesStayEnded UsageIsAccounted OverrunIsOverlap OneLeadPerEvent LossNeedsAKeyRace QuietEditsSurvive CompleteIsComplete CapHoldsButForOverlap OppositesAreApart RejectionsStand BilledOnce CancelledIsOver VideosAreWatched ReadyMeansSettled BudgetHolds
