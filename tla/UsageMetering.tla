---------------------------- MODULE UsageMetering ----------------------------
(***************************************************************************)
(* What one organisation consumes of one metered quantity, and what its    *)
(* plan lets it: app/services/usage_service.py, the metered AI provider    *)
(* (app/ai/providers/metering.py), app/services/billing_service.py and the *)
(* quota dependency (app/security/quota.py).                               *)
(*                                                                         *)
(* A unit of consumption is named by its idempotency key.  A provider call *)
(* gets a fresh key and is buffered until the session is over; an object   *)
(* created in the database is metered in the session's own transaction.    *)
(* A route asks for an amount and then starts what it starts: as much, more *)
(* (POST /creative/images/generate asks for 1 and queues up to 5 images),  *)
(* or work it never asked for; a worker's cycle asks for nothing.  Queued  *)
(* media work is metered by whoever finishes it.                           *)
(* topLimit, overlap, unasked, consumed, made and lost are history.        *)
(***************************************************************************)
EXTENDS Integers, FiniteSetsExt

CONSTANTS
    Requesters,     \* sessions: requests in flight and workers' cycles
    PlanLimits,     \* what the plans of the catalogue allow per period
    MostUnits,      \* the largest `amount' a request asks for
    MaxCalls,       \* bound: provider calls
    Objects,        \* keys of objects metered where they are created
    MaxPeriods,     \* bound: months
    MaxUsageRequests, \* bound: requests and cycles
    MaxUsageFaults  \* bound: failed flushes and crashes

ASSUME UsageAssumption ==
    /\ PlanLimits \subseteq Nat /\ PlanLimits # {}
    /\ MostUnits \in Nat \ {0} /\ MaxCalls \in Nat /\ MaxPeriods \in Nat
    /\ MaxUsageRequests \in Nat /\ MaxUsageFaults \in Nat
    /\ Objects \cap Nat = {}

VARIABLES
    limit,      \* the plan's limit of the metric
    status,     \* the committed subscription status
    lapsed,     \* the trial's or the grace period's end has passed
    period,     \* the current month
    usage,      \* committed usage records: [key, period]
    stage,      \* session: idle, serving, or over (its transaction has ended)
    want,       \* session: units it asked for and has not started yet
    buffer,     \* session: keys queued for the flush
    rows,       \* session: keys inserted in its open transaction
    queued,     \* session: media jobs inserted in its open transaction
    backlog,    \* committed media jobs that are not over, by their object's key
    calls,      \* provider calls so far
    asked,      \* sessions so far
    faults,     \* failed flushes and crashes so far
    consumed,   \* keys of the provider calls made
    made,       \* objects committed
    lost,       \* keys of failed flushes and crashes
    topLimit,   \* the highest limit so far
    overlap,    \* most units in flight when a request was admitted
    unasked     \* units started beyond what was asked, since the last admission

usageVars == <<limit, status, lapsed, period, usage, stage, want, buffer, rows, queued, backlog,
               calls, asked, faults, consumed, made, lost, topLimit, overlap, unasked>>

plan    == <<limit, status, lapsed, period, topLimit>>
traced  == <<consumed, made, lost>>
bounded == <<calls, asked, faults>>
jobs    == <<queued, backlog>>

Usable == {"trialing", "active", "past_due"}

Keys == {u.key : u \in usage}

\* UsageService.total of a metric that is counted per period.
Used == Cardinality({u \in usage : u.period = period})

\* Units in flight: those started and not on record yet, and those that were
\* asked for and are still to come.
Pending  == backlog \cup UNION {buffer[r] \cup rows[r] \cup queued[r] : r \in Requesters}
Admitted == {u \in Requesters \X (1..MostUnits) : u[2] <= want[u[1]]}

InFlight == Cardinality(Pending) + Cardinality(Admitted)

UsageInit ==
    /\ limit \in PlanLimits
    /\ status \in Usable /\ lapsed = FALSE
    /\ period = 0 /\ usage = {}
    /\ stage = [r \in Requesters |-> "idle"]
    /\ want = [r \in Requesters |-> 0]
    /\ buffer = [r \in Requesters |-> {}]
    /\ rows = [r \in Requesters |-> {}]
    /\ queued = [r \in Requesters |-> {}] /\ backlog = {}
    /\ calls = 0 /\ asked = 0 /\ faults = 0
    /\ consumed = {} /\ made = {} /\ lost = {}
    /\ topLimit = limit /\ overlap = 0 /\ unasked = 0

-----------------------------------------------------------------------------
\* expire_if_due: what the status becomes when the subscription is read.
Expired == status \in {"trialing", "past_due"} /\ lapsed

EffectiveStatus == IF Expired THEN "expired" ELSE status

\* check_quota.allowed, which the routes show, where require_quota asks for
\* the whole amount.  (Mutant of Fits.)
Fits_AnyLeft(n) == Used < limit

Fits(n) == Used + n <= limit

\* require_quota admits the request.
Admit(r, n) ==
    /\ stage[r] = "idle" /\ asked < MaxUsageRequests
    /\ EffectiveStatus \in Usable
    /\ Fits(n)
    /\ stage' = [stage EXCEPT ![r] = "serving"]
    /\ want' = [want EXCEPT ![r] = n]
    /\ asked' = asked + 1
    /\ overlap' = Max({overlap, InFlight})
    /\ unasked' = 0
    /\ UNCHANGED <<plan, usage, buffer, rows, jobs, calls, faults, traced>>

\* require_quota refuses: the expiry it noticed is rolled back with the 402.
Refuse(n) ==
    /\ asked < MaxUsageRequests
    /\ EffectiveStatus \notin Usable \/ ~ Fits(n)
    /\ asked' = asked + 1
    /\ UNCHANGED <<plan, usage, stage, want, buffer, rows, jobs, calls, faults,
                   traced, overlap, unasked>>

\* A worker's cycle, or a route that asks for nothing.
BeginUse(r) ==
    /\ stage[r] = "idle" /\ asked < MaxUsageRequests
    /\ stage' = [stage EXCEPT ![r] = "serving"]
    /\ asked' = asked + 1
    /\ UNCHANGED <<plan, usage, want, buffer, rows, jobs, calls, faults, traced,
                   overlap, unasked>>

\* Session r starts a unit: one that it asked for, while there is one.
StartUnit(r) ==
    /\ want' = [want EXCEPT ![r] = IF @ > 0 THEN @ - 1 ELSE @]
    /\ unasked' = IF want[r] > 0 THEN unasked ELSE unasked + 1

\* MeteredProvider.complete, and its entry in the session's buffer.
CallProvider(r) ==
    /\ stage[r] = "serving" /\ calls < MaxCalls
    /\ calls' = calls + 1
    /\ consumed' = consumed \cup {calls}
    /\ buffer' = [buffer EXCEPT ![r] = @ \cup {calls}]
    /\ StartUnit(r)
    /\ UNCHANGED <<plan, usage, stage, rows, jobs, asked, faults, made, lost, overlap>>

\* The unique idempotency_key: another session's uncommitted row is waited for.
Fresh(k) == k \notin Keys /\ \A s \in Requesters : k \notin rows[s]

Queued == UNION {queued[s] : s \in Requesters}

\* enqueue_images, enqueue_video and create_variations: a media job, whose
\* object will have its own key.
QueueWork(r, k) ==
    /\ stage[r] = "serving"
    /\ k \notin Keys \cup Pending
    /\ queued' = [queued EXCEPT ![r] = @ \cup {k}]
    /\ StartUnit(r)
    /\ UNCHANGED <<plan, usage, stage, buffer, rows, backlog, bounded, traced, overlap>>

\* meter(): the object and its usage record in one transaction; an object that
\* is metered already is not metered again.  A media job's object was started
\* when the job was queued, and whoever finishes the job meters it.
MeterObject(r, k) ==
    /\ stage[r] = "serving"
    /\ Fresh(k) /\ k \notin Queued
    /\ rows' = [rows EXCEPT ![r] = @ \cup {k}]
    /\ IF k \in backlog THEN UNCHANGED <<want, unasked>> ELSE StartUnit(r)
    /\ UNCHANGED <<plan, usage, stage, buffer, jobs, bounded, traced, overlap>>

\* A media job fails or is cancelled.
DropWork(k) ==
    /\ k \in backlog /\ \A s \in Requesters : k \notin rows[s]
    /\ backlog' = backlog \ {k}
    /\ UNCHANGED <<plan, usage, stage, want, buffer, rows, queued, bounded, traced,
                   overlap, unasked>>

Record(ks) == usage' = usage \cup {[key |-> k, period |-> period] : k \in ks}

EndRequest(r) ==
    /\ stage[r] = "serving"
    /\ stage' = [stage EXCEPT ![r] = "over"]
    /\ want' = [want EXCEPT ![r] = 0]
    /\ rows' = [rows EXCEPT ![r] = {}]
    /\ queued' = [queued EXCEPT ![r] = {}]

CommitRequest(r) ==
    /\ EndRequest(r)
    /\ Record(rows[r])
    /\ made' = made \cup rows[r]
    /\ backlog' = (backlog \cup queued[r]) \ rows[r]
    /\ UNCHANGED <<plan, buffer, bounded, consumed, lost, overlap, unasked>>

\* Mutant: the buffer goes with the transaction.
AbortRequest_Unbuffered(r) ==
    /\ EndRequest(r)
    /\ buffer' = [buffer EXCEPT ![r] = {}]
    /\ UNCHANGED <<plan, usage, backlog, bounded, traced, overlap, unasked>>

\* The handler raises; the middleware flushes all the same.
AbortRequest(r) ==
    /\ EndRequest(r)
    /\ UNCHANGED <<plan, usage, buffer, backlog, bounded, traced, overlap, unasked>>

\* flush_usage in a session of its own.  A duplicate in the buffer is skipped
\* within its savepoint; any other error loses the whole buffer.
Flush(r) ==
    /\ stage[r] = "over"
    /\ Record(buffer[r] \ Keys)
    /\ stage' = [stage EXCEPT ![r] = "idle"]
    /\ buffer' = [buffer EXCEPT ![r] = {}]
    /\ UNCHANGED <<plan, want, rows, jobs, bounded, traced, overlap, unasked>>

Fault(r) ==
    /\ faults < MaxUsageFaults /\ faults' = faults + 1
    /\ stage' = [stage EXCEPT ![r] = "idle"]
    /\ want' = [want EXCEPT ![r] = 0]
    /\ rows' = [rows EXCEPT ![r] = {}]
    /\ queued' = [queued EXCEPT ![r] = {}]
    /\ buffer' = [buffer EXCEPT ![r] = {}]
    /\ lost' = lost \cup buffer[r]
    /\ UNCHANGED <<plan, usage, backlog, calls, asked, consumed, made, overlap, unasked>>

FlushFails(r)   == stage[r] = "over" /\ Fault(r)
ProcessDies(r)  == stage[r] # "idle" /\ Fault(r)

\* GET /billing/subscription: the read that commits an expiry.
ReadSubscription ==
    /\ Expired
    /\ status' = EffectiveStatus
    /\ UNCHANGED <<limit, lapsed, period, topLimit, usage, stage, want, buffer,
                   rows, jobs, bounded, traced, overlap, unasked>>

\* POST /billing/plan.
ChangePlan(n) ==
    /\ n # limit
    /\ limit' = n /\ topLimit' = Max({topLimit, n})
    /\ UNCHANGED <<status, lapsed, period, usage, stage, want, buffer, rows,
                   jobs, bounded, traced, overlap, unasked>>

Lapse ==
    /\ ~ lapsed /\ lapsed' = TRUE
    /\ UNCHANGED <<limit, status, period, topLimit, usage, stage, want, buffer,
                   rows, jobs, bounded, traced, overlap, unasked>>

NextPeriod ==
    /\ period < MaxPeriods /\ period' = period + 1
    /\ UNCHANGED <<limit, status, lapsed, topLimit, usage, stage, want, buffer,
                   rows, jobs, bounded, traced, overlap, unasked>>

UsageNext ==
    \/ ReadSubscription \/ Lapse \/ NextPeriod
    \/ \E n \in PlanLimits : ChangePlan(n)
    \/ \E n \in 1..MostUnits : Refuse(n) \/ \E r \in Requesters : Admit(r, n)
    \/ \E k \in Objects : DropWork(k)
    \/ \E r \in Requesters :
         \/ BeginUse(r) \/ CallProvider(r) \/ CommitRequest(r) \/ AbortRequest(r)
         \/ Flush(r) \/ FlushFails(r) \/ ProcessDies(r)
         \/ \E k \in Objects : QueueWork(r, k) \/ MeterObject(r, k)

UsageSpec == UsageInit /\ [][UsageNext]_usageVars

-----------------------------------------------------------------------------
UsageTypeOK ==
    /\ limit \in PlanLimits /\ topLimit \in PlanLimits
    /\ status \in Usable \cup {"expired"} /\ lapsed \in BOOLEAN
    /\ period \in 0..MaxPeriods
    /\ usage \subseteq [key : Objects \cup Nat, period : 0..MaxPeriods]
    /\ stage \in [Requesters -> {"idle", "serving", "over"}]
    /\ want \in [Requesters -> 0..MostUnits]
    /\ queued \in [Requesters -> SUBSET Objects] /\ backlog \subseteq Objects
    /\ calls \in 0..MaxCalls /\ faults \in 0..MaxUsageFaults
    /\ overlap \in Nat /\ unasked \in Nat

\* Usage is counted once: every provider call is on record, in a buffer, or
\* went with a failed flush or a dead process - never with a rolled-back
\* request - an object is on record exactly when it was committed, and the
\* media job it came from is over by then.
UsageIsAccounted ==
    /\ consumed = (Keys \ Objects) \cup lost \cup UNION {buffer[r] : r \in Requesters}
    /\ Keys \cap Objects = made /\ made \cap backlog = {}
    /\ \A u, v \in usage : u.key = v.key => u = v
    /\ lost \cap Keys = {}

\* The quota is checked before the work and metered after it, once for what a
\* request asks and never in a worker: a period exceeds the limit in force by
\* no more than the units that were in flight or queued when a request was
\* admitted, and the units started since the last admission that nobody asked
\* for (quota.py:34, media_generation_service.py:131-170).
OverrunIsOverlap == Used + InFlight <= topLimit + overlap + unasked
=============================================================================
