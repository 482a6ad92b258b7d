\* Two workers and a request share a table that their ticks, handlers and enqueues fill; the request may cancel or retry instead.
CONSTANTS
    Workers = {w1, w2}
    Requests = {r1}
    Keys = {k1, k2}
    NoKey = NoKey
    Nobody = Nobody
    Null = Null
    JobSlots = 2
    Preloaded = 0
    Unhandled = {}
    Ops = {"enqueue", "cancel", "retry"}
    MaxAttempts = 2
    BatchSize = 2
    LeaseMinutes = 1
    MaxBackoff = 1
    MaxAborts = 1
    MaxOrphans = 0
    Cap = 2
SPECIFICATION FairSpec
CONSTRAINT Focus
INVARIANTS TypeOK SingleExecutor RepeatsNeedALostCycle EnqueueIdempotent
PROPERTIES RunsOnlyClaimable EveryJobSettles
