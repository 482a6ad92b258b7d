# Formal model of GrowthOS

GrowthOS is a FastAPI service (`src/apps/api/app`) over PostgreSQL, a worker
process (`app/worker.py`) that drains a job queue kept in the same database,
and a Next.js client that only calls the API. This directory holds TLA+ modules
of the parts of the service whose correctness depends on *interleaving*:
database transactions of requests and workers that read, decide and write at
different moments, processes that die between two steps, and providers that
answer late, badly or not at all.

## 1. Inventory

Everything shared lives in the database. There is one kind of atomic step that
matters: an SQL statement of a session whose transaction is open, and its
commit or rollback. A request's transaction commits when its handler returns
and rolls back when it raises (`db/session.py:18-25`); a worker's whole cycle
is one transaction (`worker.py:82-125`). PostgreSQL runs at READ COMMITTED: a
session sees its own writes and what is committed; an UPDATE waits for the
row lock and is then applied to the version that is committed. SQLAlchemy
writes a loaded object back by primary key, naming only the columns that
differ from what it loaded.

| Component | State | Operations | What is hard | What must hold |
|---|---|---|---|---|
| Job queue (`jobs/queue.py`, `api/v1/jobs.py`) | `background_jobs`: status, attempts, lease, run_after, dedupe_key | enqueue, scan, claim, complete, fail, reap, retry, cancel | two workers and a request on one row; unique-key races; lost cycles; leases | one executor per job; a start only from a waiting, due row; bounded attempts; one row per key; every job settles |
| Worker (`worker.py`) | the open transaction of its cycle | reap, ensure ticks, reap stale actions, drain a batch, commit | a batch of external effects behind a single commit | a lost cycle gives back what it took |
| AI actions (`services/action_service.py`, `automation/execution.py`, `idempotency.py`, `publishing/ads_executor.py`) | `ai_actions`: status, reconciliation, retry_count, executing_at; the provider's state | approve, reject, cancel, execute, claim, call, record | stale objects written back; crash after the call; ambiguous outcomes | one mutation in flight; COMPLETED only when applied, and final; repeats accounted for |
| Recovery (`automation/provider_reconciliation.py`, `manual_reconciliation.py`, `legacy_executing.py`, `stale_recovery.py`, `publishing/ads_reconciliation.py`) | the same rows, the `provider.reconcile` job | reconcile, operator verdicts, legacy recovery, stale reaper | three recoverers race with each other and with retries | a doubt is looked at; nothing stays EXECUTING |
| Autopilot scheduler (`jobs/autopilot_scheduler.py`) | tick and cycle jobs keyed by window | ensure tick, schedule next, discover, enqueue cycle | windows, overlapping cycles, starvation of a second client | one tick per window; every client gets cycles |
| Scheduled publishing (`jobs/handlers.py:448-524`) | `scheduled_posts`, `publish_due` jobs | select due posts, publish, record | in-flight check without a key | a post is published once; today no adapter publishes (`publishing/adapters.py:38-65, 118-124`), so nothing can be repeated |
| Usage and quotas (`services/usage_service.py`, `services/billing_service.py`, `security/quota.py`, `ai/providers/metering.py`) | usage records, the request's buffer, the subscription | check, consume, queue, meter, flush, change plan, expire | checked for one unit before the work and metered after it, media by a worker that checks nothing; flushed in a session of its own after the request is over | no unit counted twice or silently dropped; a limit is exceeded only by what was in flight at a check or started unasked since |
| Campaign runs (`services/campaign_generation_service.py`) | the run, its stages, the campaign's review status, the counting job | start, execute, fail, reconcile | jobs that queue each other; readers that reconcile too | READY only once all media have settled, and then in the end |
| Media (`services/media_generation_service.py`, media handlers of `jobs/handlers.py`) | image and video jobs, their background jobs, assets; renderings at the provider | generate, submit, poll, view, cancel, time out | retries after a rollback and attempts that run out, cancel against submit, several pollers of a row | billed once; cancelled means over; a rendering is watched |
| Lead ingestion (`services/lead_ingest_service.py`) and backfill (`services/lead_backfill_service.py`) | webhook events, leads and their contact details | ingest, redeliver, backfill, edit, remove details | several events in a transaction, unique keys, deadlock; backfill against a person's edit | one lead per event; an answered payload is on record; edits survive |
| Closed loop (`optimization/`, `automation/production_gates.py`) | recommendations, the actions of the last days, autonomy settings | evaluate, approve, reject, patch, expire, create an action, reconcile it | caps, cooldowns, duplicates counted before the insert | caps hold; no flip-flop; a rejection stands until a person reopens it; high risk asks a person |
| Sessions (`services/refresh_token_service.py`, `api/v1/auth.py`) | token families | login, refresh, logout, logout-all | a token is read, then consumed without a compare-and-swap | one successor per token; an ended family stays ended |
| Rate limits (`security/rate_limit.py`) | counters in Redis, and in each process while Redis is out of reach | count, degrade, refuse | fixed windows here and sliding ones there; outages, lost replies, expiring keys | a budget is exceeded by no more than what the windows and the outage explain |
| Canary (`automation/canary.py`), rule engine | settings | decide | many conditions in order | the first failing gate decides |
| SEO engine (`seo/`, `services/seo_*`), analytics, AI providers, integrations, storage, schemas, web client | reports, crawls | parse, score, fetch, render | mostly data | not control |

How they interact: requests and the worker's scheduler ticks *enqueue* jobs;
the worker *claims* them and calls handlers in its own transaction; handlers
enqueue follow-up jobs, create actions or publish posts; an action in doubt
enqueues a `provider.reconcile` job whose handler updates the action; the
worker's cycle also reaps stale actions before it drains the queue.

`PROJECT.json` lists the hazards of this code at their lines.

## 2. Plan

Done, in this order:

1. **JobQueue**, **JobLifecycle**, **JobQueueProofs** - the queue and the
   worker's cycle, the state machine they promise, and proofs.
2. **ActionExecution**, **ActionExecutionProofs** - the life of an AI action,
   its execution and its recovery, and the proofs of its two main invariants.
3. **AutopilotScheduler** - windows, keyed ticks and cycles, one cycle in flight
   per organisation, over the queue as its callers may see it.
4. **MediaJobs** and **CampaignRun**, which composes with it - images and videos
   of a run, their background jobs, and the promotion of the run.
5. **UsageMetering**, **LeadIngest**, **RefreshTokens** - records that several
   transactions read and write.
6. **ClosedLoop** - recommendations, policy, gates, and the actions they become.
7. **LeadIngestProofs** - the types and all invariants of that module;
   **ClosedLoopProofs** - types and rejections.
8. **RateLimits** - one budget, with Redis and without.
9. **CampaignRunProofs** - all invariants of CampaignRun and MediaJobs;
   **LimitProofs** - what becomes of each unit of use, the quota, and the rate
   limits' budgets. In **JobQueueProofs**, the unique keys, the refinement of
   JobLifecycle and the counts of starts and successes; in
   **ActionExecutionProofs**, what becomes of a completed action; in
   **ClosedLoopProofs**, the cooldown and the daily cap.
10. **SharedRecordsProofs** - refresh tokens, and what the components promise
   together; **ScheduledWorkProofs** - the autopilot's ticks and cycles, and the
   composition with runs and payloads.
11. Nothing is left to nobody: in **JobQueueProofs**, **ActionExecutionProofs**,
   **CampaignRunProofs** and **LeadIngestProofs**, the safety part of each
   liveness property that is about jobs, doubts, runs and payloads.

Dropped: a module for `publish_due`. Two such jobs of an organisation may select
the same posts (handlers.py:453), but no adapter publishes at this commit, so
there is no effect whose repetition could be stated.

Left: the creation of an action outside the closed loop (its savepoint race,
action_service.py:106) and `rollback()`; the SEO crawl frontier; analytics
upserts. Of what the runs check, every invariant and every action property is
proved, some under a hypothesis that section 5 names; what is left to TLC is
liveness, named at the end of section 5.

## 3. Modules

### JobQueue

One variable per piece of database and session state. `row` holds the
committed `background_jobs` rows, `lock` the session holding each row lock and
`draft` that session's version; `View(s, j)` is what a session reads. `CommitOf`
and `RollbackOf` are the ends of a transaction. Moments are minutes that
remain (0 once passed), so that time needs no absolute clock.

| Action | Code |
|---|---|
| `StartCycle`, `Reap` | the SELECT and the flush of `reap_expired_leases` (queue.py:306-338) |
| `EnsureTick`, `HandlerEnqueue`, `Insert` | `enqueue` (queue.py:88-137) called by `ensure_scheduler_tick` and by handlers |
| `WaitForKey`, `KeyWon`, `KeyLost`/`LoseCycle` | the INSERT that meets another session's uncommitted row with the key; it is lost when that session commits, or when sessions wait for each other in a circle (`InCircle`), which PostgreSQL breaks |
| `Scan` | `_candidate_ids` with FOR UPDATE SKIP LOCKED (143-165) |
| `Claim` | `claim` and the start of the handler (167-219, 254-270) |
| `Complete`, `Fail` | `_complete`, `_fail` with backoff (272-295) |
| `Commit`, `AbortCycle` | worker.py:117 and 118-125; a crash has the effect of the rollback |
| `AbandonClaim` | a session that commits a claim and dies, as tests/test_worker.py:195-232 does; no application path commits there |
| `RequestEnqueue...`, `RequestLoad`, `RequestWrite` | producers in requests, and `retry_job`/`cancel_job` (api/v1/jobs.py:96-136) with the queue's `retry` and `cancel` |
| `Tick` | a minute passes |

`OrmUpdate` is the flush of a stale object: this is how `cancel` and `retry`
overwrite a status committed after they loaded the row.

Abstracted: tenancy predicates (they only narrow which rows an operation
names), payloads, results and error texts, `heartbeat()` (no caller). All jobs
of a batch have leases counted from the scan in the code and from their claim
here; the difference is an elapsed minute that `Tick` provides.

### JobLifecycle

What callers are told about one job (queue.py:25-34), over committed rows. A
worker's cycle is one commit, so QUEUED -> RUNNING -> COMPLETED is one step.
`FollowsStateMachine` checks that JobQueue implements it under the mapping
`life[j] = [status, attempts]` of `row[j]`.

### ActionExecution

One action (every operation names it by id), the requests that decide on it
and execute it, the worker, and the provider. `row`, `lock`, `draft` are as
above; `seen[s]` is the object as the session loaded it, `Flush` merges it back.
`applied` counts how often the mutation took effect at the provider, `doubts`
the ambiguous outcomes.

| Action | Code |
|---|---|
| `Load` | `ActionService.get` and the status check of each operation |
| `Decide`, `Approve` | reject, cancel; approve up to its call of `execute()` |
| `CheckFails`, `MarkFailed` | the validations of `execute()` and `_fail` |
| `Claim`, `ClaimFinished`, `ClaimBlocked` | `try_claim_action_for_execution` and the three ways out of it |
| `Call` | the ads mutation: confirmed, refused (any exception or HTTP error, even one that hides a success), ambiguous (timeout, transport) |
| `Record` | COMPLETED, FAILED with `retry_count + 1`, or `_fail_ambiguous`, and the commit |
| `Resolve`, `RecoverLegacy`, `Conflict` | the operator's routes (api/v1/operator.py:570-630) |
| `Reap` | `reap_stale_executing_actions` |
| `TakeJob`, `ReadProvider`, `Apply`, `EndCycle` | the `provider.reconcile` handler inside a worker's cycle, and the commit with the attempt at its job (`Attempted`) |
| `ReadRaises` | an answer that is no JSON or a budget that is no number (publishing/ads_reconciliation.py:180, 255, 404): the handler raises, and the job is retried until `JobAttempts` are spent |
| `Crash`, `CrashCycle`, `AbandonClaim` | lost transactions, and a committed claim whose session dies |

Abstracted: the checks of `execute()` are one choice (`CheckFails`); an expired
action is refused by `approve()` and its EXPIRED status is rolled back with the
400, so expiry changes nothing; operators and reconcilers see the provider's
state at the moment they look, and an operator may also keep the case open;
HTTP and transport errors of a reconciler's read are UNKNOWN, anything else it
meets raises. Of the reconciliation job, status and attempts are kept; when it
is due and who has leased it is JobQueue's business.
`approved` and `executing` are never committed by the application itself,
because approval, claim, call and outcome are one transaction.

### AutopilotScheduler

`tick` and `cycle` are the committed jobs by window and by (client, window);
`doing`, `newTicks` and `newCycles` are a worker's open cycle. The queue is used
as JobQueue describes it: a running job is locked by its worker, a key belongs
to the first session that commits it and the other one loses its whole cycle.

| Action | Code |
|---|---|
| `Poll`, `CommitWork` | `ensure_scheduler_tick` (autopilot_scheduler.py:231-268) in a worker's cycle, and its commit |
| `TakeTick` | the tick's handler (handlers.py:532-643): `Targets` in the order of ids up to the limit of organisations, `Skipped` for one in flight, keyed inserts, the next tick |
| `TakeCycle` | the cycle's handler (handlers.py:646-724), whatever it does to its client |
| `HandlerFails`, `LoseWork`, `LoseKeyRace` | a handler that raises; a cycle that is rolled back; an insert that meets another one's key |
| `RetryCycle`, `Switch`, `NextWindow` | a person retries a failed cycle or switches automation; time passes |

A worker settles one job per cycle; a window is numbered by its place among the
`Depth` last ones, so a job may be late by `Depth - 2` of them.

### UsageMetering

One organisation, one metric. A unit is named by its idempotency key. `Admit`
and `Refuse` are the quota dependency with `expire_if_due` in front of it;
`BeginUse` is a session that asks for nothing, a worker's cycle or a route without
the dependency (`create_variations`). What a session then starts has no guard but
its own bounds, as in the code: `CallProvider` buffers a unit, `QueueWork` inserts
a media job (`enqueue_images` up to five for the one unit that
POST /creative/images/generate asks for), `MeterObject` records an object in the
session's own transaction, be it made there or by a media job of the `backlog`
that any session finishes; `DropWork` is a media job that fails or is cancelled.
`StartUnit` keeps the accounts: a unit is one that was asked for (`want`) or adds
to `unasked`. `CommitRequest`/`AbortRequest` end the transaction, and `Flush`,
which comes after either, writes the buffer in another one. `Fault` is a flush
that fails or a process that dies in between: the buffer is lost.
`ReadSubscription` persists an expiry (a refused request rolls it back with its
402). `ChangePlan`, `Lapse` and `NextPeriod` are the environment's.

### LeadIngest

A payload is a sequence of events and one transaction: `Deliver`, then per event
`CheckEvent` (already on record?) and `IngestOne` (the rows of the event and its
lead; it waits while another session's uncommitted row has the key, `Contended`,
and goes on or becomes `KeyLost`, which rolls back everything the payload had
stored before), `Answer` at the end. `FailDelivery` is a persistence error or a
crash, `Deadlocked` PostgreSQL breaking a circle of waits of any length
(`InCircle`), for which there must be finitely many requests: Meta redelivers.
`LoadLead`, `Backfill`, `BackfillFails` retrieve missing contact details over an
object loaded earlier. `Edit` and `Clear` are a person's PATCH of a lead, which
fills a field in or removes the address and does not touch `enrichment_status`.
Routing of pages is one choice.

### ClosedLoop

The recommendations of one client. A session is an autopilot batch
(`StartBatch`) or one approval (`StartApprove`); it takes recommendations in
order (`Turn`) and for each ends in `Decline`, `AskFirst` or `Create`; `CommitLoop`
or `LoseLoop` end its transaction. `PolicyAllows` is a conjunction of one operator
per rule of `evaluate_policy` (`UnderCap`, `SameCooldown`, `OppositeCooled`,
`FewIncreases`, `NotDuplicate`), over what the session can see (`Seen`):
committed actions and its own. `GatesOpen` is the switch of automation in
`evaluate_production_gates` and `RequiresApproval` the validator's rule; the
evidence thresholds, allowlists, capabilities and latches among the other gates are
one choice (`fit`). `RejectRec`, `DecideAction` and `Configure` are people's, and so
is `PatchRec`, which writes any status over any other (intelligence.py:485-520);
it also stands for `expire_due`, which writes EXPIRED over what it has read. An
action may also end FAILED with its reconciliation open ("doubtful"): `Reconcile`
is the job or the operator that completes it or leaves it failed, with nobody
executing it. `evaluate_policy` counts neither kind of FAILED action as an
opposite (policy.py:292-297).

### MediaJobs and CampaignRun

MediaJobs has the row of each image and video, its `generation` and `polling`
background jobs, the assets it was billed for and, for videos, what has become
of the rendering at the provider. A session loads a row (`TakeGeneration`,
`TakePoll`, `View`, `Cancel`), works on it (`Paint`, `Submit`, `PollVideo`,
`TimedOut`, `PollEnds`, `CancelRow`, or `GenerationRaises`/`PollRaises`) and
ends with `CommitMedia` or `DropMedia`. Two details matter and are kept: a
session holds the row lock only from its first UPDATE on, and it writes only the
columns it has changed (`Interim`, `Unwritten`, `Persisted`). `Submit` may come
back with a finished video, which is stored and billed at once. `raises` counts
the attempts of a generation job that raised: after `GenerationAttempts` of them
the job is failed (`NextTry`), and its image or video stays in progress as the
last attempt has flushed it.

CampaignRun EXTENDS it and shares its sessions and rows: `Execute` queues the
media of a run (or `ExecuteFails` after some of them), `Count` reads them and
works out the stages, by the `campaign.reconcile` job or for a reader;
`CommitCount` writes the stages, promotes the run or schedules the next count;
`LoseCount` is a rollback or a handler that raises. `HourPasses` stands for the
sixty attempts of the job.

### RefreshTokens

The tokens of one user by number. `Load` and `Reject` are the reads of a
refresh, `Rotate` the successor and the write-back of the consumed token by
primary key, `RevokeFamily` the bulk UPDATE after detected reuse or for a
deactivated user (the route commits it before it raises the 401);
`LoadLogout`/`Logout`, `LogoutAll`, `Login`, `Expire`, `Deactivate`,
`DropRequest` are the rest of the routes and the environment.

### RateLimits

One budget of one key. `Enter` is a request up to the name of its key in Redis
(the slot its clock reading falls into), `CountedByRedis` the pipeline of INCR and
EXPIRE with its answer, `Degraded` a pipeline that raises, counted by Redis or
not, and then `HitLocally` (or a refusal, where the setting says so); `Pass` is
the clock, which all processes share. Redis counts requests that it refuses, a
process does not. A process that restarts forgets its counts: it is another
member of `Processes`. `BudgetHolds` bounds what is let in in any period as long
as a window; `forgotten` is its exception, a request that comes to Redis after
the key of its slot has expired and counts from one again.

### MCSharedRecords and MCScheduledWork

These two instantiate the modules of this section for TLC, the first for their
safety and the second for liveness. `focus` names the component a behaviour is
about; the others rest in an initial state. That is a side-by-side of
independent components and composes nothing: AutopilotScheduler, the usage
buffer and the leads share only the kind of session they run in. The real
composition, CampaignRun over MediaJobs, is in the modules. Members of one
symmetric set stand for the sessions of every component.

## 4. Runs

| Run | Instance | What it shows |
|---|---|---|
| `queue_drain` (JobQueueDrain.cfg) | 2 workers, 1 request with every operation, 2 rows, 2 keys (`Focus`), 2 attempts, batch 2, 1 lost cycle | SingleExecutor, RunsOnlyClaimable, RepeatsNeedALostCycle, EnqueueIdempotent, EveryJobSettles |
| `queue_leases` (JobQueueLease.cfg) | 1 worker, 2 jobs (one without a handler), 2 abandoned claims, 1 lost cycle, a manual retry | OrphansRecover, AttemptsBoundStarts, FollowsStateMachine |
| `queue_cancel_race` | 1 worker, 1 cancel request | **violated**: a completed job becomes CANCELLED |
| `queue_key_race` | 2 workers, 1 key | **violated**: the loser of a key race loses its transaction |
| `action_recovery` (ActionFull.cfg) | 2 requests at a time out of 2 approvals, reject, cancel, execute, resolve, legacy; 1 worker, 1 crash, 1 abandoned claim; each initial status | SingleMutator, CompletedMeansApplied, StaleIsRecovered |
| `action_retries` (ActionRetry.cfg) | 3 executes and 2 operator verdicts on a failed action, 1 worker, 1 crash, 1 abandoned claim, 1 misread answer | EffectsAccounted, CompletedIsFinal, FirstDoubtIsChecked |
| `action_two_approvals` | 2 approvals | **violated**: CompletedIsFinal |
| `action_doubtful_retry` | 2 approvals, one after the other | **violated**: NotClaimedInDoubt |
| `shared_records` (SharedRecords.cfg) | see below | OneUseUnlessContested, EndedFamiliesStayEnded; UsageIsAccounted, OverrunIsOverlap; OneLeadPerEvent, LossNeedsAKeyRace, QuietEditsSurvive, CompleteIsComplete; CapHoldsButForOverlap, OppositesAreApart, RejectionsStand; BilledOnce, CancelledIsOver, VideosAreWatched, ReadyMeansSettled; BudgetHolds |
| `scheduled_work` (ScheduledWork.cfg) | see below | EveryPayloadIsAnswered; OverlapNeedsARace, OrgsAreServed, FirstClientsAreServed; RunsFinish |
| `closed_loop_high_risk` | 1 batch over one HIGH-risk pause | **violated**: HighRiskNeedsAPerson |
| `lead_key_race` | 2 servers, payloads that share an event | **violated**: AnsweredIsOnRecord |

Instances of `shared_records`, two sessions each: 4 tokens and 3 requests (a token
refreshed twice and its successor); plan limits 2 and 3, amounts up to 2, 2 calls,
1 object that is made in a request or queued, 2 months, 3 requests or cycles, 1
fault (an overrun with and without overlap, a plan change and a lost flush fit);
payloads `<<e1, e2>>` and `<<e2>>` with 1 duplicate, 1 fault, 1 edit or removal
and 1 backfiller; a HIGH-risk pause and a MEDIUM resume of one campaign, caps of
1, 3 days (`MaxDays` 2: the later action may come on the first day on which the
opposite cooldown is over), 2 sessions or patches, 2 settings, with the cooldowns
of 1 and 2 days of the default settings (an increase of another campaign takes
part only in `closed_loop_high_risk`, and nothing exercises `FewIncreases`, which
is modelled nonetheless); a video with 2 requests, 1 fault and 2 attempts, so that
a generation that raised is retried; 4 requests at 2 processes, a
limit of 1, a window of 2 moments, two windows. Of `scheduled_work`: three
payloads, two of them with two events in opposite orders, and 1 fault; 2 workers,
2 clients of one organisation, 3 windows, 1 switch, 1 fault, 1 retry; a run of an
image and a video, 1 worker, 1 fault, and `GenerationAttempts` 1, so that the one
generation that raises is the last attempt and leaves its medium in progress: with
2 attempts and 2 faults the run does not end in time. `NoRunIsForgotten` is proved
for every number of both. Images only appear here. The run `shared_records` has
about 1.28 million distinct states, `scheduled_work` 53 thousand. Both switch
deadlock checking off: requests, retries and days are finite. Many of these
properties have an exception (`contested`, `blind`, `crossed`, `raced`, `spared`,
...): a history variable that says which overlap of sessions the code does not
exclude. The run then shows that nothing *else* breaks the property; without the
exception each would be violated.

Why these bounds. Every hazard of the queue is between two sessions on one row, or
one session and its own crash; two workers, a request and two rows give each pair
(and a second row to wait behind), two attempts give a retry and the last attempt.
Two keys let two workers insert them in opposite orders and wait for each other.
Together with requests and lost cycles that is more than TLC gets through, so
`queue_drain` has the constraint `Focus`: the second key is used only in behaviours
without a request's operation and without a lost cycle. Nobody is obliged to make
either, nor to choose that key, so that the constraint takes no step away that
fairness asks for, and `EveryJobSettles` still asks whether all sessions can get
stuck on keys; of any number of keys and every order theorem `NothingIsStranded`
says that they cannot. The run has 317,507 distinct states.
Saturating counters (`Cap`) are above every bound a property compares with. For
actions, two requests at a time and one worker give every pair of writers of the
row; the budget lets each operation follow every other. `JobAttempts`, five in the
code, is 2 in `action_retries` (a read that raises and is tried again, and the
last one) and 1 in `action_recovery`, which asks nothing of the job. The action runs switch
deadlock checking off: requests are finite, and a system without requests
legitimately rests. The queue runs check for deadlock: the worker polls for ever.

Fairness. A live worker keeps polling and its handlers return or raise
(`run_forever`, worker.py:157-183), so its steps are weakly fair; a crash is one
lost transaction after which the process is restarted, with a bound on how
often (`MaxAborts`, `MaxCrashes`). A request that has written ends its
transaction. Time passes. Nobody has to send a request, enqueue or crash.
Of `scheduled_work`: a payload's handling goes on, an INSERT that waits is
woken once its key is free (strongly fair, since others may take the key in
between), and Meta redelivers what was not answered with success; workers poll
and windows pass; the queue takes a media job in the end, whatever else is
waiting (strongly fair: its row is locked in between), the counting job is
taken, sessions go on, and deadlines pass.

## 5. Proofs

`JobQueueProofs` is about every number of workers, requests, jobs, keys and
every bound; only what counts requests or sessions takes finitely many of them.

* `TypeCorrect`: `TypeOK` is an invariant. It is proved together with
  `Locking` (theorem `TypeAndLocking`), because a step's effect is only typed
  when a worker's candidates and its current job are rows it has locked.
* `OneExecutorPerJob`: `SingleExecutor`. The inductive invariant is `Locking`:
  a worker's candidates and its current job are locked by that worker. Two
  workers running one job would both hold its lock. The lock is what protects
  a job: the lease never does, since no claim is committed before its job ends.
* `CandidatesStayStartable` and `NoStaleStart` (`RunsOnlyClaimable`), assuming
  `MaxOrphans = 0`, as in the application: what a worker has scanned stays
  committed as waiting and due until its claim, because every writer of a row
  needs the lock that the scan took, and time only makes a row more due.

* `OneJobPerKey`: `EnqueueIdempotent`. Committed rows alone do not carry it, since
  two open sessions could each be about to commit a row with the key. `KeysApart`
  says it of the newest versions, committed or not: a session inserts a key only
  while nobody has it (otherwise it waits for the other's end), and nothing
  changes a key. `Told` adds that a job which a caller was given back is that
  session's own or was committed, and neither is ever taken away again.
* `CommitsFollowArrows`: `FollowsStateMachine`, the refinement of JobLifecycle.
  A commit publishes all that a cycle did to a row, so the invariant
  `Transactions` relates the committed version of a locked row to its holder's:
  not tried yet (the same life, or reaped), tried in this cycle (one attempt
  more), or ended with it; each pair is an arrow of the lifecycle. Every action is
  shown to keep the pair among these, or to make it one arrow of the lifecycle.
* `SuccessIsNotRepeated` (`RepeatsNeedALostCycle`) and `AttemptsLimitStarts`
  (`AttemptsBoundStarts`). Lemma by lemma each step is shown to have one of nine
  effects on each job (`Effect`: nothing, prepared, started, finished, published,
  discarded, abandoned, cancelled, retried). `Recorded` says of every effect that a
  success is on record, in the open cycle, or paid for by a lost one; `Fits` that
  the starts not paid for by a retry or a lost cycle are the attempts recorded.
  The first needs to count only to one; the second takes finitely many requests,
  so that their retries can be counted.

These three have a hypothesis that says what a row lock does not protect:
`ReapsAreFresh`, `Fresh("retry")` and, for the state machine, `Fresh("cancel")` -
when a session writes a row that it loaded earlier without a lock, the row's
status and attempts are still what it loaded. It is needed: two reapers that
both loaded a lapsed row, two retries of one failed job, or a cancel that loaded
a queued one write over what the other has committed (the hazard at queue.py:327
and the first finding). `OneWriterIsFresh` proves it where at most one session
can do such a thing at a time: at most one request retries, and either no claim is
abandoned - the code commits none before its job has ended, so that nothing is
left to reap - or one worker reaps and nobody cancels. `OneWriterRepeatsNothing`,
`OneWriterLimitsStarts` and `OneWriterFollowsArrows` are the three results under
that assumption on constants. Both queue runs that pass are instances of it; with
several retrying requests the results hold for as long as no write is stale.

* `NothingIsStranded`. `EveryJobSettles` and `OrphansRecover` say that a job goes
  on in the end. What they ask of the code, besides a worker that goes on and time
  that passes, is that in no state a job is left to nobody: a job that is
  committed as running has a lease, so that a reaper will find it, and locked rows
  come free. The latter is about keys, since a cycle keeps its row locks while its
  INSERT waits for another session: of any sessions that wait only for each other
  and keep a row locked, one can go on. The invariant `Holding` gives each holder
  something to do next: a worker holds locks and waits for keys in the middle of
  a cycle only, its candidates are still claimable, a request holds the row it has
  inserted until its response goes out. For the rest, finitely many sessions none
  of which can go on would each wait for another, and so contain a circle (lemma
  `SessionsMeet`), which PostgreSQL breaks. An earlier version of the module, in
  which it did not, deadlocks with two keys.

`ActionExecutionProofs` is about every number of requests and workers, every
budget of requests and every bound on crashes and abandoned claims, with no
assumption beyond the named ones on the constants. The inductive invariant
`Inv` (theorem `Invariance`) has three parts, each of which the next needs:

* `TypeOK` (theorem `TypeCorrect`): the merge of a stale object, an outcome, a
  verdict and a recovery all yield a row (lemmas `RowOperations`, `FlushType`,
  `OutcomeType`, `VerdictType`, `ReconciledType`).
* `Owning`: whoever has the mutation in flight holds the row lock. Neither the
  status nor the claim's answer protects the provider: a request that waits for
  the lock claims the action again once it reads FAILED. `OneMutationInFlight`
  (`SingleMutator`) follows, since two holders would be one.
* `Honest`: neither the committed row nor an open transaction's says completed,
  and no session remembers a confirmed or applied mutation, before the provider
  applied one. `SingleMutator` says nothing of what is recorded, and
  `CompletedMeansApplied` alone is not inductive: a reconciler that has read the
  provider, or a draft that is not committed yet, carries the claim from one
  step to the next. `CompletedOnlyIfApplied` follows.

Every step either ends its transaction without the lock (lemma `EndingStep`) or
goes on with the lock it needs (`GoingOnStep`); each action is shown to be one
of the two; time alone (`TickStep`) ages a row and moves no session.

Two more results hold only while no decision is late: `NoLateDecision` says that no
request which has loaded the action to approve, reject or cancel it is still
about to write when the action is completed. The finding `action_two_approvals` is
a late decision, so that the code promises neither without it.

* `CompletionStands` (`CompletedIsFinal`) rests on `Standing`: what a session
  writes without the lock it merges into the committed row, and the merge keeps
  a column the session has not changed. A request that executes has approved the
  action itself, which takes the lock, or has loaded it failed and writes
  "failed" over "failed", which changes nothing; and whoever holds the lock
  stands on a row that is not completed.
* `EffectsAreExplained` (`EffectsAccounted`) adds `Accounts`: every effect of the
  mutation but one is paid for by a crash, an abandoned claim, a doubtful answer
  or a misread verdict, and that one is on record as completed or in the hands of
  a session that is about to record it. The mutation is then never claimed on a
  completed row, so each further effect comes with an explanation of its own.
* `OneDecisionIsInTime`: nobody approves (an action that was approved earlier and
  is executed, retried, reconciled and recovered in every order), or one person
  approves a new action and nobody rejects or cancels it. Then no decision is
  late, by `Undecided`: until the decision is written no execution begins, and
  afterwards there is nothing left to decide. `OneDecisionCompletes` and
  `OneDecisionRepeatsNothing` are the two results under that assumption on
  constants, of which the run `action_retries` is an instance.
* `FirstDoubtIsHeld`, what `FirstDoubtIsChecked` asks of the code: while the action
  is in doubt for the first time and no claim was abandoned, it is committed as
  failed - the only status in which the job does not skip it - and the job is queued
  with attempts left, or has spent them all on reads that raised. The job is
  enqueued in the transaction that records the doubt, and ends in the one that
  settles it, or in the last attempt that raises; `Tended` says so of drafts, of
  what sessions have loaded and of a worker that has read the provider, through lost
  cycles, retries and operators. It holds for every number of attempts. The
  hypothesis `NoStaleVerdict`, that nobody has loaded a doubtful action in order to
  reject or cancel it, is needed: such a request writes over "failed", and the job
  then skips the action (section 6). `FirstDoubtIsHeldWithoutRefusals` is the result
  where nobody rejects or cancels, as in run `action_retries`. `Cap > 1` only lets
  the counter of doubts tell a second one from the first.

`LeadIngestProofs` is about any payloads and every number of requests and
backfillers. Its only assumption beyond the types of the constants is that no
event is called "none" and that requests are finitely many at a time. Every step
either leaves what is committed alone (lemma `ServingStep`), or leaves requests
and leads alone (`FillingStep`), or is the commit (`AnswerStep`). `LeadInv` adds
to the four invariants

* `Exclusive`, the unique key: a drafted event is not on record and in no other
  draft. `LeadOnce` (`OneLeadPerEvent`) follows, since a commit then adds only
  events that had no lead.
* `EventsAccounted`: each event of a payload is still to come, drafted, on record,
  or raced. At the answer nothing is to come, which is `OnlyKeyRacesLose`
  (`LossNeedsAKeyRace`).
* `Remembered`: a field that a backfiller saw filled in is still filled in, and a
  quiet edit of its lead was there when it looked. "Filled in" includes what a
  person has removed since: a retrieval writes only what it saw empty, so it can
  neither replace such an edit (`EditsSurvive`) nor mark a lead COMPLETE for
  details it never had (`MarksAreTrue`). That a removal leaves the mark COMPLETE is
  what the code does, and the property's exception.

`NoRequestWaitsForever` is what `EveryPayloadIsAnswered` asks of the code: of any
requests that wait only for each other, one can go on or is in a circle. Its
invariant is `IdleHoldsNothing`: a request that has answered holds no keys, so that
whoever is waited for is at work. Finitely many requests that all wait then contain
a circle (lemma `WaitersMeet`).

`ClosedLoopProofs` is about every number of evaluators and recommendations, any
policy and any limits; the cooldowns are those of the default settings.

* `RejectionIsFinal`: `RejectionsStand`. A session writes what it loaded earlier,
  so the invariant must say what it can still write. `Dismissed`: of a rejected
  recommendation no session has set a status or inserted an action, and whoever
  has loaded it has loaded a closed status. `SessionsOK` gives it its ground: a
  session has drafts only for what it has loaded, and an idle one has none. Only a
  person's PATCH to an open status ends the claim (`PatchRec` takes the
  recommendation out of `dropped`); expiry does not.
* `NoFlipFlop` (`OppositesAreApart`) and `CapIsMet` (`CapHoldsButForOverlap`) need
  an invariant about all `Versions` of an action, the committed one and the
  drafts, since a check reads some of them and a commit changes which ones are
  visible (`Watchful`). `ActionsOK`: an action has one version, which is of no
  later day. `WellApart`: opposite versions that are completed or may be yet
  (`Effective`: pending, failed or in doubt) are apart or excused, where `missed`
  excuses a pair of which the later check passed the other over as FAILED. So it
  does not matter who completes a failed action, or when.
  `Capped`: among any actions of a day there is one - the one inserted last - that
  met the cap but for those hidden from it. A statement about all of the day's
  actions would not do: a rollback takes some away, and one that is left must
  still answer for the rest. Of a new action lemma `SeenOrUnseen` says that its
  session sees each other version or has noted it in `blind`; every other step
  keeps days and revives nothing that was rejected (`Persists`).

`CampaignRunProofs` is about every number of workers, requests, images and videos,
with all of MediaJobs' actions next to the run's. `RunInv` (theorem
`CampaignInvariance`) says what a session can still commit of a row that it loaded
earlier. Its parts:

* `Sound`: what each kind of session has loaded fits the row's jobs: a session
  that generates has the queued generation job, one that polls the polling job of
  a named video, and what it will write follows from what it saw. `OneOfAKind`:
  one session per job, by the job's row lock. `Undisturbed`: a medium that is not
  in `crossed` has at most one session on it, which saw what is committed.
* `EachMediumIsBilledOnce` (`BilledOnce`) is part of `RowsOK`: an asset is stored
  only with the completion, in one transaction, and a generation that is queued
  has not completed before; a rollback takes both back.
* `CancellationIsFinal` (`CancelledIsOver`) rests on `Gone`: on a withdrawn medium
  there is at most a poll that saw the cancellation, and no rendering.
  `Rendering` gives that its ground: what renders is named in the row, or the
  session that submitted it is still about to name it, and a cancellation has
  stopped it before it commits.
* `VideosStayWatched` (`VideosAreWatched`) is inductive with these parts.
* `ReadyIsSettled` (`ReadyMeansSettled`): a count is stale when it is written, so
  that it must stay true: `Quiet`, settled or never started, is stable, since no
  operation leaves it but a generation after a cancellation (`regenerated`) or a
  session that crossed. `CountsStand` says of each count in a session's hands, of
  each stage and of a promoted run that the media it counted are quiet;
  `Phases` that no medium is started any more once counting begins.
* `NoRunIsForgotten` is what `RunsFinish` asks of the code: while a run generates,
  its counting job is queued, and so is a job for every medium it waits for,
  unless the run is `Stuck` for one of the three reasons the property names: the
  counting job has failed or used up its sixty attempts, a video has lost its poll,
  or the generation job of a medium that is in progress has failed. The number of
  attempts and of handlers that raise is any. `Tended` says what that needs of
  sessions in between: a generation job that is over without an outcome and has not
  failed has named the rendering for its polls, and a medium that was loaded
  waiting is still known as waiting to whoever loaded it.

`LimitProofs` is about UsageMetering, for every number of requests, plans, objects
and amounts, and about RateLimits, for every limit, window and number of requests
and processes. Both modules state their sums as cardinalities of sets of units
(`Pending`, `Admitted`, `HitsIn`), which finite-set theorems can reason about; what
a fold computes is induction over data.

* `UsageIsCountedOnce` (`UsageIsAccounted`) rests on `KeysApart` - a key is in one
  request's buffer or transaction, on record, or lost, and in one place only - and
  on `Numbered`, that a key which was given out is not given out again. A flush and
  the session's own commit then add keys that are nowhere on record, and the commit
  that records a media job's object takes the job out of the backlog.
* `OverrunIsBounded` (`OverrunIsOverlap`) is inductive with `Countable` and with
  `KeysApart`: what is recorded was in flight before, in the hands of one session
  or in the backlog, so that a flush or a commit moves units from one side of the
  sum to the other (`RecordStep`); a unit that is started turns an admitted one
  into a pending one, or is counted in `unasked` (`ConsumeStep`); a new month begins
  with nothing used (`PlanStep`); and an admission adds no more than fits beside
  what is used, while `overlap` records what it did not see - the media jobs that
  are queued included - so that `unasked` may begin again from nothing (`AdmitStep`).
  Nothing bounds `unasked` itself, since the code does not. `UsageTypes` is the type
  invariant.
* `BudgetIsKept` (`BudgetHolds`) rests on two invariants about what was let in.
  `AllCounted`: of each window whose key has not expired, no more than the key's
  count and no more than the limit. `SlidingHolds`: of each process, no more than
  the limit in any period as long as the window; a new hit is within all periods
  that reach from it back to the oldest hit it was compared with, and no hit is of
  a later moment. That such a period meets two fixed windows is lemma `TwoSlots`;
  that the processes' shares add up, by numbering each one's hits, lemma
  `SumBound`. The set of processes may be infinite: those that have counted for
  themselves are finitely many at any time (`Counting`).

`SharedRecordsProofs` is first about refresh tokens, for every number of requests,
tokens and refreshes.

* `TokenInvariance`: `TokenInv`, with `TokenTypeOK` (theorem `TokenTypes`), the
  parts below, and `Existing`: what requests and rows name exists, so that a new
  token is in nobody's hands.
* `OneSuccessor`: `OneUseUnlessContested`. A token's successors are issued by
  requests that loaded it live. The inductive invariant `Lineage` counts them
  together: a token that nobody contested has at most one request refreshing it;
  while one does, it has no successor yet; and whatever has a successor is no
  longer live, so that nobody can load it again. Expiry and logout do not
  disturb this, since no operation ever makes a token live again.
* `EndedStayEnded`: `EndedFamiliesStayEnded`. The bulk UPDATE leaves no live token
  in an ended family, so a live one was issued later, by a refresh that had
  loaded its token before: `Outlived` says that every refresh under way in an
  ended family is of a `spared` token, and nothing else can issue into it.

Then it is about `RecordSpec`, the specification that run `shared_records` checks.
`RecordsAreComponents`: `RecordSpec` implements each component's specification (its
safety part, where it has fairness), since a step of one leaves the variables of
the others alone. So what is proved of a component holds of the composition:
`RecordsAreTyped` is `TypeOK` and `RecordsAreSafe` all the other invariants of
the run, for every value of the constants and whatever the focus is.

`ScheduledWorkProofs` is first about the autopilot, for every number of workers,
clients, organisations and windows. `SecondCycleNeedsARace` (`OverlapNeedsARace`)
rests on `LookStands`: the organisations a tick is about to serve have no cycle in
flight, unless cycles were committed since it looked. A commit then brings in
flight what the tick inserted, one cycle for each organisation (`OneEach`), or is
one of those that are behind. `JobsHeld` - the job of an open cycle is waiting and
only one worker has it - is what keeps a failed handler that puts its job back
from adding one, and what keeps running jobs out of the window that time forgets.

`WorkSteps`, `WorkInvariance`, `WorkIsTyped` (`TypeOK`) and
`WorkOverlapNeedsARace` do for `WorkSpec` and run `scheduled_work` what the
composition theorems above do for `RecordSpec`.

Left to TLC:

* For the queue, what happens with stale writes beyond `OneWriter`: no document
  promises anything there.
* For actions, what happens after a late decision: that is a finding.
* Liveness under fairness and ENABLED, which are out of the prover's reach. The
  theorems `NothingIsStranded`, `FirstDoubtIsHeld`, `NoRunIsForgotten` and
  `NoRequestWaitsForever` prove of the liveness properties what is a matter of
  states: that the job, the message or the session which has to act is there and
  is not kept from it. That it is given its turn, and that finitely many turns
  are enough, TLC checks. Of `StaleIsRecovered`, `OrgsAreServed` and
  `FirstClientsAreServed` nothing of the kind is proved.
* The findings.

## 6. Findings

1. `cancel` may turn a completed job into a cancelled one (queue.py:375-386).
2. The loser of a dedupe race does not read the winner's row: its transaction
   is rolled back (queue.py:122-135); a worker loses its whole cycle.
3. The second of two approvals reopens and re-executes a completed action
   (action_service.py:183).
4. An action in doubt can be claimed for re-execution through approve and
   through execute (idempotency.py:91).
5. In autonomous mode a HIGH-risk pause is created and executed with nobody
   having approved it (closed_loop.py:263).
6. A payload that loses a key race rolls back the events it had stored before,
   and is answered with success (lead_ingest_service.py:296).

Also met, without a promise in the repository to hold them against: a second
ambiguous outcome of an action is never reconciled, because the finished job of the
first one has its dedupe key; nor is a first one whose job has raised five times
(ads_reconciliation.py:180, 255 and 404 are outside any try), so that its
reconciliation stays PENDING until an operator resolves it; a reject or cancel that
loaded the action before it was executed overwrites FAILED with an open
reconciliation, and the job then skips it; the operator's and the reconciler's
compare-and-swap look at the status and not at the reconciliation state their
comments name.

Of the other components: an organisation's second client gets no cycle while the
first one's is in flight at each tick (autopilot_scheduler.py:180), and
organisations beyond the limit per tick are cut off in the order of their ids.
`AutonomyService.get_or_create` adds back every action missing from a restricted
`allowed_actions`, and `_intersect_lists` of disjoint lists is empty, which means
unrestricted. A failed recommendation that is approved again gets the old failed
action back, by its key `opt:{fingerprint}:{action}`. A subscription's expiry found
by a quota check is rolled back with the 402. A PATCH moves a recommendation from
REJECTED back to NEW, and the loop may act on it (intelligence.py:499). A
reconciliation may complete a FAILED action that `evaluate_policy` has passed over
for an opposite one (provider_reconciliation.py:134, policy.py:292), so that a pause
and a resume land together; and since the cooldown counts from `created_at`, an
action that is approved days later may land next to its opposite. POST
/creative/images/generate asks the quota for one image and queues up to five,
create_variations asks for none, and the worker that bills them asks nothing: a
month is overrun with no two requests at once. A person who removes a lead's address
leaves it COMPLETE (lead_repo.py:48), and a later retrieval may fill it in again.
The backfill route's 502 rolls back the FAILED mark, and a finished backfill job's
key blocks later backfills (lead_backfill_service.py:306-323). Cancelling a queued
image or video does not stop its background job, which generates it after all; one
unparsable answer to a poll leaves a video PROCESSING with no poll to come, one
network error fails a video that is still rendered; a run that fails leaves its
queued media rendering. A media job whose third attempt raises (queue.py:284; a
provider's answer that is no JSON, openai_image.py:124, replicate_video.py:125)
leaves its image GENERATING or its video SUBMITTED, and the run that waits for it is
never promoted; the counting jobs give up after sixty attempts, and media that take
longer wait for a reader.

## 7. Not modelled

Most of the repository by size is not control: prompts, scoring and text rules,
HTTP clients, schemas, migrations, scripts, mock data and the web client. What
this project maps is the code that changes shared state, which is a small share
of the lines. Components of `PROJECT.json` give the reason for each part; the
parts with control that are left out are

* `canary.py`, an operator's dry run over the gates, and the rule engine;
* the SEO crawl and its monitoring, analytics upserts: independent of the rest
  and not reached;
* of the rate limits, the choice of a key and Retry-After;
* of the modelled components: `heartbeat()`, which has no caller;
  `UnrecoverableJobError`, which the queue retries like any other exception;
  dispatches of actions other than ads, `rollback()`; the stages of a campaign run
  before its media (one choice of outcome), its start's idempotency key, approval,
  rejection and regeneration; stored files that get lost; the single gates of the
  closed loop other than the switch of automation (one choice); the keys of backfill
  jobs and the routing of pages; cancellation of a subscription and metrics that are
  not counted per period; `purge_expired` and access tokens; what a cycle does to
  its client other than the closed loop.

SQLite (the test database) and isolation levels other than READ COMMITTED are
not modelled.
