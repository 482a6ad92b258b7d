\* A failed action is retried, recovered and resolved concurrently, but not approved again.
CONSTANTS
    Callers = {c1, c2}
    Workers = {w1}
    Nobody = Nobody
    Null = Null
    InitialStatus = {"failed"}
    Budget <- RetriesOnly
    NeedsApproval = TRUE
    Limited = TRUE
    MaxRetries = 2
    ChecksMayFail = FALSE
    JobAttempts = 2
    StaleAfter = 1
    MaxCrashes = 1
    MaxOrphans = 1
    MaxMisreads = 1
    Cap = 6
CHECK_DEADLOCK FALSE
SPECIFICATION FairSpec
INVARIANTS EffectsAccounted
PROPERTIES CompletedIsFinal FirstDoubtIsChecked
