\* A cancel request meets a worker whose cycle has not committed yet.
CONSTANTS
    Workers = {w1}
    Requests = {r1}
    Keys = {}
    NoKey = NoKey
    Nobody = Nobody
    Null = Null
    JobSlots = 1
    Preloaded = 1
    Unhandled = {}
    Ops = {"cancel"}
    MaxAttempts = 2
    BatchSize = 1
    LeaseMinutes = 1
    MaxBackoff = 2
    MaxAborts = 0
    MaxOrphans = 0
    Cap = 3
SPECIFICATION Spec
PROPERTIES CancelStopsOnlyWaiting
