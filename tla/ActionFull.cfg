\* Every operation on one action, from each status it can be found in.
CONSTANTS
    Callers = {c1, c2}
    Workers = {w1}
    Nobody = Nobody
    Null = Null
    InitialStatus = {"pending", "failed", "executing"}
    Budget <- EveryOperation
    NeedsApproval = TRUE
    Limited = TRUE
    MaxRetries = 2
    ChecksMayFail = TRUE
    JobAttempts = 1
    StaleAfter = 1
    MaxCrashes = 1
    MaxOrphans = 1
    MaxMisreads = 0
    Cap = 4
CHECK_DEADLOCK FALSE
SPECIFICATION FairSpec
INVARIANTS TypeOK SingleMutator CompletedMeansApplied
PROPERTIES StaleIsRecovered
