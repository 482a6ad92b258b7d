CONSTANTS
    MediaWorkers = {p1}
    MediaUsers = {}
    Media = {v1}
    Videos = {v1}
    GenerationAttempts = 1
    MaxMediaAsks = 0
    MaxMediaFaults = 0
    TokenCallers = {p1, p2}
    MaxTokens = 1
    MaxRequests = 0
    NoToken = none
    Requesters = {p1, p2}
    PlanLimits = {2, 3}
    MostUnits = 2
    MaxCalls = 0
    Objects = {o1}
    MaxPeriods = 0
    MaxUsageRequests = 0
    MaxUsageFaults = 1
    Servers = {p1, p2}
    Payloads <- Batches
    Backfillers = {}
    MaxDuplicates = 0
    MaxLeadFaults = 1
    MaxEdits = 0
    Evaluators = {p1, p2}
    Recs = {1}
    Proposal <- Proposals
    Policies <- Settings
    MaxAutoRisk = 2
    MaxActions = 1
    MaxIncreases = 1
    MaxCampaigns = 1
    BatchLimit = 3
    MaxDays = 0
    MaxSessions = 0
    Hitters = {p1, p2}
    Processes = {p1, p2}
    Limit = 1
    Window = 2
    MaxMoment = 0
    MaxHits = 0
SPECIFICATION RecordSpec
CHECK_DEADLOCK FALSE
INVARIANT AnsweredIsOnRecord
