\* Two workers ensure the same keyed tick in overlapping cycles.
CONSTANTS
    Workers = {w1, w2}
    Requests = {}
    Keys = {k1}
    NoKey = NoKey
    Nobody = Nobody
    Null = Null
    JobSlots = 1
    Preloaded = 0
    Unhandled = {}
    Ops = {}
    MaxAttempts = 2
    BatchSize = 1
    LeaseMinutes = 1
    MaxBackoff = 1
    MaxAborts = 0
    MaxOrphans = 0
    Cap = 3
SPECIFICATION Spec
INVARIANTS LoserReadsWinner
