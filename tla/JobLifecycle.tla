---------------------------- MODULE JobLifecycle ----------------------------
(***************************************************************************)
(* What the job queue promises about one job, as its callers see it: the   *)
(* state machine drawn in app/jobs/queue.py:25-34, over committed rows.    *)
(*                                                                         *)
(* A worker claims, runs and settles a job in one transaction, so QUEUED   *)
(* -> RUNNING -> COMPLETED is one step here; RUNNING itself is visible     *)
(* only after a session has committed a claim and died.  One commit may    *)
(* move several jobs, and may create or reap a job and then run it.        *)
(***************************************************************************)
EXTENDS Naturals

CONSTANTS
    Jobs,           \* job identities
    Preloaded,      \* jobs 1..Preloaded exist initially
    Unhandled,      \* jobs whose type has no handler
    MaxAttempts     \* BackgroundJob.max_attempts

VARIABLE life       \* status and attempts of every job

Absent == [status |-> "absent", attempts |-> 0]
Queued == [status |-> "queued", attempts |-> 0]

Init == life = [j \in Jobs |-> IF j <= Preloaded THEN Queued ELSE Absent]

\* What is left of an attempt that did not succeed.
RetryOrFail(attempts) == IF attempts < MaxAttempts THEN "retrying" ELSE "failed"

Enqueue(from, to) == from = Absent /\ to = Queued

\* --claim--> RUNNING, by a session that commits the claim; a RUNNING job is
\* claimed again once its lease has expired.
Claim(from, to) ==
    /\ from.status \in {"queued", "retrying", "running"}
    /\ to = [status |-> "running", attempts |-> from.attempts + 1]

\* RUNNING --lease expired--> reclaimable, or FAILED without attempts left.
Reap(from, to) ==
    /\ from.status = "running"
    /\ to = [from EXCEPT !.status = RetryOrFail(from.attempts)]

\* --claim--> RUNNING --ok--> COMPLETED, or --error--> RETRYING / FAILED.
Run(j, from, to) ==
    /\ from.status \in {"queued", "retrying", "running"}
    /\ to.attempts = from.attempts + 1
    /\ to.status \in IF j \in Unhandled THEN {"failed"}
                     ELSE {"completed", RetryOrFail(to.attempts)}

\* FAILED --retry()--> QUEUED, with the attempts reset.
Retry(from, to) == from.status = "failed" /\ to = Queued

\* QUEUED/RETRYING --cancel()--> CANCELLED.
Cancel(from, to) ==
    /\ from.status \in {"queued", "retrying"}
    /\ to = [from EXCEPT !.status = "cancelled"]

JobStep(j, from, to) ==
    \/ Enqueue(from, to)
    \/ Claim(from, to)
    \/ Reap(from, to)
    \/ Run(j, from, to)
    \/ Retry(from, to)
    \/ Cancel(from, to)
    \/ from = Absent /\ Run(j, Queued, to)

Next == \A j \in Jobs : life'[j] = life[j] \/ JobStep(j, life[j], life'[j])

Spec == Init /\ [][Next]_life
=============================================================================
