CONSTANTS
    MediaWorkers = {s1}
    MediaUsers = {}
    Media = {i1, v1}
    Videos = {v1}
    GenerationAttempts = 1
    MaxMediaAsks = 0
    MaxMediaFaults = 1
    Servers = {s1, s2}
    Payloads <- Crossed
    Backfillers = {}
    MaxDuplicates = 0
    MaxLeadFaults = 1
    MaxEdits = 0
    TickWorkers = {w1, w2}
    Clients = {1, 2}
    OrgOf <- OneOrg
    MaxOrgs = 1
    Depth = 3
    MaxSwitches = 1
    MaxTickFaults = 1
    MaxRetries = 1
SPECIFICATION WorkSpec
CHECK_DEADLOCK FALSE
INVARIANT TypeOK
PROPERTIES EveryPayloadIsAnswered OverlapNeedsARace OrgsAreServed FirstClientsAreServed RunsFinish
