\* An action in doubt is approved again.
CONSTANTS
    Callers = {c1}
    Workers = {w1}
    Nobody = Nobody
    Null = Null
    InitialStatus = {"pending"}
    Budget <- TwoApprovals
    NeedsApproval = TRUE
    Limited = TRUE
    MaxRetries = 2
    ChecksMayFail = FALSE
    JobAttempts = 2
    StaleAfter = 1
    MaxCrashes = 0
    MaxOrphans = 0
    MaxMisreads = 0
    Cap = 4
CHECK_DEADLOCK FALSE
SPECIFICATION Spec
PROPERTIES NotClaimedInDoubt
