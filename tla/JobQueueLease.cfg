\* One worker, leases left behind by dead sessions, one manual retry, a job nobody handles.
CONSTANTS
    Workers = {w1}
    Requests = {r1}
    Keys = {}
    NoKey = NoKey
    Nobody = Nobody
    Null = Null
    JobSlots = 2
    Preloaded = 2
    Unhandled = {2}
    Ops = {"retry"}
    MaxAttempts = 2
    BatchSize = 1
    LeaseMinutes = 2
    MaxBackoff = 2
    MaxAborts = 1
    MaxOrphans = 2
    Cap = 6
SPECIFICATION FairSpec
INVARIANTS AttemptsBoundStarts
PROPERTIES OrphansRecover FollowsStateMachine
