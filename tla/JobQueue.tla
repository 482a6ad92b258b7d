------------------------------ MODULE JobQueue ------------------------------
(***************************************************************************)
(* The database-backed job queue (app/jobs/queue.py), the worker cycle     *)
(* that drains it (app/worker.py) and the HTTP routes that administer it   *)
(* (app/api/v1/jobs.py), over PostgreSQL at READ COMMITTED.                *)
(*                                                                         *)
(* Every session is one database transaction.  A worker runs a whole cycle *)
(* (reap, ensure ticks, scan, claim and run a batch) in one transaction    *)
(* that worker.py:117 commits; a request runs in the transaction of        *)
(* get_db.  `row' is what is committed, `lock' who holds the row lock,     *)
(* `draft' the version the lock holder sees and will commit, `wanted' the  *)
(* dedupe key whose INSERT waits for another session's uncommitted row.    *)
(*                                                                         *)
(* Times are relative: run_after and lease_expires_at hold the minutes     *)
(* that remain, 0 once the moment has passed, Null for SQL NULL.           *)
(***************************************************************************)
EXTENDS Integers, FiniteSets

CONSTANTS
    Workers,        \* worker processes (worker_id)
    Requests,       \* HTTP requests; each performs one operation
    Keys,           \* dedupe keys producers use
    NoKey,          \* enqueue without dedupe_key
    Nobody,         \* "no session holds the row lock"
    Null,           \* SQL NULL
    JobSlots,       \* bound: rows the table can hold
    Preloaded,      \* rows 1..Preloaded are queued initially
    Unhandled,      \* jobs whose job_type has no registered handler
    Ops,            \* operations the requests perform
    MaxAttempts,    \* BackgroundJob.max_attempts
    BatchSize,      \* Settings.worker_batch_size
    LeaseMinutes,   \* Settings.worker_lease_seconds, in minutes
    MaxBackoff,     \* MAX_BACKOFF_MINUTES
    MaxAborts,      \* bound: worker cycles lost to a crash or database error
    MaxOrphans,     \* bound: claims committed by a session that then dies
    Cap             \* bound at which the observation counters saturate

Jobs     == 1..JobSlots          \* in created_at order
Sessions == Workers \cup Requests

ASSUME SizesAssumption ==
    /\ JobSlots \in Nat \ {0}
    /\ Preloaded \in 0..JobSlots
    /\ MaxAttempts \in Nat \ {0}
    /\ BatchSize \in Nat \ {0}
    /\ LeaseMinutes \in Nat \ {0}
    /\ MaxBackoff \in Nat \ {0}
    /\ MaxAborts \in Nat
    /\ MaxOrphans \in Nat
    /\ Cap \in Nat \ {0}

ASSUME NamesAssumption ==
    /\ Workers \cap Requests = {}
    /\ Nobody \notin Sessions
    /\ Null \notin Jobs
    /\ Null \notin Nat
    /\ NoKey \notin Keys
    /\ Unhandled \subseteq Jobs
    /\ Ops \subseteq {"enqueue", "cancel", "retry"}

VARIABLES
    row,        \* committed background_jobs rows
    draft,      \* the row lock holder's version of a row
    lock,       \* holder of the row lock
    wanted,     \* key a session's INSERT is waiting for
    pc,         \* worker: where it is in run_once
    expired,    \* worker: jobs loaded by reap_expired_leases
    todo,       \* worker: candidate ids not yet claimed
    current,    \* worker: the job whose handler is running
    req,        \* request: phase, operation, target job, and what it saw:
                \* the row it loaded, or the key it enqueued
    starts,     \* observer: times a job's handler was started
    succeeded,  \* observer: times a job's handler returned normally
    aborts,     \* worker cycles lost to a crash or a database error
    losses,     \* transactions lost in a race for a key
    orphans     \* claims abandoned so far

vars == <<row, draft, lock, wanted, pc, expired, todo, current, req,
          starts, succeeded, aborts, losses, orphans>>

db       == <<row, draft, lock, wanted>>
worker   == <<pc, expired, todo, current>>
observed == <<starts, succeeded, aborts, losses, orphans>>

Waiting  == {"queued", "retrying"}
Terminal == {"completed", "failed", "cancelled"}
Statuses == {"absent", "running"} \cup Waiting \cup Terminal
Moments  == {Null} \cup Nat

Rows == [status : Statuses, attempts : Nat, locked_by : Workers \cup {Null},
         lease : Moments, run_after : Moments, key : Keys \cup {NoKey}]

NewRow(key, delay) ==
    [status |-> "queued", attempts |-> 0, locked_by |-> Null,
     lease |-> Null, run_after |-> delay, key |-> key]

AbsentRow == [NewRow(NoKey, Null) EXCEPT !.status = "absent"]

NoneLoaded == [j \in {} |-> AbsentRow]

NoRequest == [phase |-> "idle", op |-> Null, job |-> Null, seen |-> Null]

-----------------------------------------------------------------------------
(* Transactions.                                                           *)

\* What session s reads: its own uncommitted version, else the committed one.
View(s, j) == IF lock[j] = s THEN draft[j] ELSE row[j]

Bump(n) == IF n < Cap THEN n + 1 ELSE n

\* COMMIT of session s: its versions become the committed ones.
CommitOf(s) ==
    /\ row' = [j \in Jobs |-> View(s, j)]
    /\ lock' = [j \in Jobs |-> IF lock[j] = s THEN Nobody ELSE lock[j]]
    /\ UNCHANGED <<draft, wanted>>

\* ROLLBACK of session s.
RollbackOf(s) ==
    /\ draft' = [j \in Jobs |-> IF lock[j] = s THEN row[j] ELSE draft[j]]
    /\ lock' = [j \in Jobs |-> IF lock[j] = s THEN Nobody ELSE lock[j]]
    /\ wanted' = [wanted EXCEPT ![s] = NoKey]
    /\ row' = row

\* An UPDATE of row j by session s waits for the row lock, then keeps it.
WriteRow(s, j, new) ==
    /\ lock[j] \in {Nobody, s}
    /\ lock' = [lock EXCEPT ![j] = s]
    /\ draft' = [draft EXCEPT ![j] = new]
    /\ wanted' = [wanted EXCEPT ![s] = NoKey]
    /\ row' = row

-----------------------------------------------------------------------------
(* The queue's operations on one row.                                      *)

\* Mutant: the due check is dropped.
Due_Dropped(r) == TRUE

Due(r) == r.run_after = Null \/ r.run_after = 0

\* Mutant: looks for a missing lease instead of a lapsed one.
LeaseLapsed_Null(r) == r.status = "running" /\ r.lease = Null

LeaseLapsed(r) == r.status = "running" /\ r.lease = 0

\* Mutant: jobs between attempts are not picked up.
Claimable_QueuedOnly(r) == (r.status = "queued" /\ Due(r)) \/ LeaseLapsed(r)

\* Mutant: the status guard is dropped.
Claimable_AnyStatus(r) == (r.status # "absent" /\ Due(r)) \/ LeaseLapsed(r)

\* The WHERE clause shared by the candidate scan and the claim.
Claimable(r) == (r.status \in Waiting /\ Due(r)) \/ LeaseLapsed(r)

\* Mutant: the claim does not count the attempt.
Claimed_Uncounted(r, w) ==
    [r EXCEPT !.status = "running", !.locked_by = w, !.lease = LeaseMinutes]

Claimed(r, w) ==
    [r EXCEPT !.status = "running", !.locked_by = w,
              !.lease = LeaseMinutes, !.attempts = @ + 1]

ReleaseLease(r) == [r EXCEPT !.locked_by = Null, !.lease = Null]

Completed(r) == [ReleaseLease(r) EXCEPT !.status = "completed"]

Backoff(attempts) ==
    IF 2^attempts \in 0..MaxBackoff THEN 2^attempts ELSE MaxBackoff

Failed(r, retryable) ==
    IF ~retryable \/ r.attempts >= MaxAttempts
    THEN [ReleaseLease(r) EXCEPT !.status = "failed"]
    ELSE [ReleaseLease(r) EXCEPT !.status = "retrying",
                                 !.run_after = Backoff(r.attempts)]

Reaped(r) ==
    IF r.attempts >= MaxAttempts
    THEN [ReleaseLease(r) EXCEPT !.status = "failed"]
    ELSE [ReleaseLease(r) EXCEPT !.status = "retrying", !.run_after = 0]

\* An ORM write of a row loaded as `seen': the UPDATE names only the columns
\* that differ from what was loaded, and applies them to the current row.
Column(now, seen, new) == IF new = seen THEN now ELSE new

OrmUpdate(now, seen, new) ==
    [now EXCEPT !.status    = Column(@, seen.status, new.status),
                !.attempts  = Column(@, seen.attempts, new.attempts),
                !.locked_by = Column(@, seen.locked_by, new.locked_by),
                !.lease     = Column(@, seen.lease, new.lease),
                !.run_after = Column(@, seen.run_after, new.run_after)]

Cancelled(r) == [ReleaseLease(r) EXCEPT !.status = "cancelled"]

\* Mutant: a manual retry keeps the spent attempts.
Retried_KeepsAttempts(r) ==
    [ReleaseLease(r) EXCEPT !.status = "queued", !.run_after = Null]

Retried(r) ==
    [ReleaseLease(r) EXCEPT !.status = "queued", !.run_after = Null,
                            !.attempts = 0]

\* Rows with the dedupe key that session s can see.
Visible(s, key) ==
    {j \in Jobs : View(s, j).status # "absent" /\ View(s, j).key = key}

\* Mutant: dedupe_key has no unique constraint.
KeyContended_NotUnique(s, key) == FALSE

\* Another session has inserted the key and not committed it yet.
KeyContended(s, key) ==
    \E j \in Jobs : /\ lock[j] \notin {Nobody, s}
                    /\ row[j].status = "absent"
                    /\ draft[j].status # "absent"
                    /\ draft[j].key = key

FreshSlots == {j \in Jobs : row[j].status = "absent" /\ lock[j] = Nobody}

IsOldest(j, S) == j \in S /\ \A k \in S : j <= k

\* enqueue() of session s inserts a fresh row when no row with the key is
\* visible.  While another session holds an uncommitted row with the same key
\* the INSERT waits for that session's transaction to end.
Insert(s, j, key, delay) ==
    /\ IsOldest(j, FreshSlots)
    /\ key # NoKey => Visible(s, key) = {} /\ ~KeyContended(s, key)
    /\ WriteRow(s, j, NewRow(key, delay))

WaitForKey(s, key) ==
    /\ Visible(s, key) = {} /\ KeyContended(s, key)
    /\ wanted' = [wanted EXCEPT ![s] = key]
    /\ UNCHANGED <<row, draft, lock>>

\* The INSERT of session s waits for session t to end.
Waits(s, t) ==
    /\ s # t /\ wanted[s] # NoKey
    /\ \E j \in Jobs : /\ lock[j] = t
                      /\ row[j].status = "absent" /\ draft[j].status # "absent"
                      /\ draft[j].key = wanted[s]

\* Sessions that wait for each other's keys.
InCircle(s) ==
    \E ring \in SUBSET Sessions :
        /\ s \in ring
        /\ \A t \in ring : (\E u \in ring : Waits(t, u)) /\ (\E u \in ring : Waits(u, t))

\* The other session committed: the INSERT fails on the unique constraint.
\* begin_nested() flushes the pending row before it sets its savepoint, so it
\* is the session's own transaction that fails, and the SELECT of the winner's
\* row in the except branch raises: all of the session's work is rolled back.
\* So it is when sessions wait for each other's keys in a circle, which
\* PostgreSQL breaks.
KeyLost(s) ==
    /\ wanted[s] # NoKey
    /\ Visible(s, wanted[s]) # {} \/ InCircle(s)
    /\ RollbackOf(s)
    /\ losses' = Bump(losses)

-----------------------------------------------------------------------------
(* The worker cycle, Worker.run_once.                                      *)

Goto(w, label) == pc' = [pc EXCEPT ![w] = label]

\* reap_expired_leases, the SELECT of lapsed rows.
StartCycle(w) ==
    LET lapsed == {j \in Jobs : LeaseLapsed(row[j])}
    IN  /\ pc[w] = "idle"
        /\ expired' = [expired EXCEPT ![w] = [j \in lapsed |-> row[j]]]
        /\ Goto(w, IF lapsed = {} THEN "prepare" ELSE "reap")
        /\ UNCHANGED <<db, todo, current, req, observed>>

\* reap_expired_leases, the flush: one UPDATE per loaded row, each waiting
\* for its row lock.
Reap(w) ==
    LET lapsed == DOMAIN expired[w]
        new(j) == LET reaped == Reaped(expired[w][j])
                      merged == OrmUpdate(row[j], expired[w][j], reaped)
                  IN  \* run_after = now is never the value that was loaded
                      IF reaped.status = "retrying"
                      THEN [merged EXCEPT !.run_after = 0] ELSE merged
    IN  /\ pc[w] = "reap"
        /\ \A j \in lapsed : lock[j] = Nobody
        /\ lock' = [j \in Jobs |-> IF j \in lapsed THEN w ELSE lock[j]]
        /\ draft' = [j \in Jobs |-> IF j \in lapsed THEN new(j) ELSE draft[j]]
        /\ expired' = [expired EXCEPT ![w] = NoneLoaded]
        /\ Goto(w, "prepare")
        /\ UNCHANGED <<row, wanted, todo, current, req, observed>>

\* The scheduler ticks the cycle ensures before it scans: each enqueues a
\* keyed job that is due at once, and may be run by this very cycle.
EnsureTick(w, key) ==
    /\ pc[w] = "prepare"
    /\ \/ \E j \in Jobs : Insert(w, j, key, 0)
       \/ WaitForKey(w, key)
    /\ UNCHANGED <<worker, req, observed>>

\* _candidate_ids: the oldest due rows, FOR UPDATE SKIP LOCKED.
Scan(w) ==
    LET ready == {j \in Jobs : lock[j] \in {Nobody, w} /\ Claimable(View(w, j))}
        batch == {j \in ready : Cardinality({k \in ready : k < j}) < BatchSize}
    IN  /\ pc[w] = "prepare"
        /\ todo' = [todo EXCEPT ![w] = batch]
        /\ lock' = [j \in Jobs |-> IF j \in batch THEN w ELSE lock[j]]
        /\ Goto(w, "work")
        /\ UNCHANGED <<row, draft, wanted, expired, current, req, observed>>

\* Mutant: the claim is committed at once, so the lease is all that protects it.
Claim_Committed(w) ==
    \E j \in Jobs :
        /\ pc[w] = "work" /\ current[w] = Null
        /\ IsOldest(j, todo[w]) /\ Claimable(draft[j])
        /\ row' = [row EXCEPT ![j] = Claimed(draft[j], w)]
        /\ draft' = [draft EXCEPT ![j] = Claimed(draft[j], w)]
        /\ lock' = [lock EXCEPT ![j] = Nobody]
        /\ todo' = [todo EXCEPT ![w] = @ \ {j}]
        /\ current' = [current EXCEPT ![w] = j]
        /\ starts' = [starts EXCEPT ![j] = Bump(@)]
        /\ UNCHANGED <<wanted, pc, expired, req, succeeded, aborts, losses, orphans>>

\* claim() of the next candidate, and the call of its handler.
Claim(w) ==
    \E j \in Jobs :
        /\ pc[w] = "work" /\ current[w] = Null
        /\ IsOldest(j, todo[w]) /\ Claimable(draft[j])
        /\ WriteRow(w, j, Claimed(draft[j], w))
        /\ todo' = [todo EXCEPT ![w] = @ \ {j}]
        /\ current' = [current EXCEPT ![w] = j]
        /\ starts' = [starts EXCEPT ![j] = Bump(@)]
        /\ UNCHANGED <<pc, expired, req, succeeded, aborts, losses, orphans>>

\* A handler enqueues follow-up work in the worker's transaction.
HandlerEnqueue(w, key, delay) ==
    /\ current[w] \in Jobs \ Unhandled
    /\ \/ \E j \in Jobs : Insert(w, j, key, delay)
       \/ WaitForKey(w, key)
    /\ UNCHANGED <<worker, req, observed>>

\* The session the INSERT waited for rolled back: the row goes in (or nothing
\* does, when JobSlots leaves no row to insert).
KeyWon(w) ==
    /\ wanted[w] # NoKey
    /\ \/ \E j \in Jobs : Insert(w, j, wanted[w], 0)
       \/ /\ FreshSlots = {}
          /\ Visible(w, wanted[w]) = {} /\ ~KeyContended(w, wanted[w])
          /\ wanted' = [wanted EXCEPT ![w] = NoKey]
          /\ UNCHANGED <<row, draft, lock>>
    /\ UNCHANGED <<worker, req, observed>>

Settle(w, new) ==
    /\ WriteRow(w, current[w], new)
    /\ current' = [current EXCEPT ![w] = Null]
    /\ UNCHANGED <<pc, expired, todo, req, starts, aborts, losses, orphans>>

\* The handler returned: _complete.
Complete(w) ==
    LET j == current[w]
    IN  /\ j \in Jobs \ Unhandled
        /\ Settle(w, Completed(draft[j]))
        /\ succeeded' = [succeeded EXCEPT ![j] = Bump(@)]

\* The handler raised, or the job type has none: _fail.
Fail(w) ==
    LET j == current[w]
    IN  /\ j \in Jobs
        /\ Settle(w, Failed(draft[j], j \notin Unhandled))
        /\ UNCHANGED succeeded

\* The batch is done: the cycle's one commit.
Commit(w) ==
    /\ pc[w] = "work" /\ current[w] = Null /\ todo[w] = {}
    /\ CommitOf(w)
    /\ Goto(w, "idle")
    /\ UNCHANGED <<expired, todo, current, req, observed>>

\* What is left of a cycle whose transaction was rolled back.
ResetCycle(w) ==
    /\ Goto(w, "idle")
    /\ expired' = [expired EXCEPT ![w] = NoneLoaded]
    /\ todo' = [todo EXCEPT ![w] = {}]
    /\ current' = [current EXCEPT ![w] = Null]
    /\ UNCHANGED <<req, starts, succeeded, orphans>>

\* The process dies, or the database fails anywhere in the cycle, a handler's
\* own statements included (a deadlock victim is one): the transaction rolls
\* back.  When a handler leaves the transaction aborted, the flush of _fail
\* raises out of process_due and run_once takes the same path.
AbortCycle(w) ==
    /\ pc[w] # "idle"
    /\ aborts < MaxAborts
    /\ aborts' = aborts + 1
    /\ RollbackOf(w)
    /\ ResetCycle(w)
    /\ UNCHANGED losses

\* A tick or a handler enqueued a key another session won.
LoseCycle(w) ==
    /\ KeyLost(w)
    /\ ResetCycle(w)
    /\ UNCHANGED aborts

\* A session that commits its claim and dies before it runs the job.  The
\* worker never commits a claim by itself; the tests of the lease do.
AbandonClaim(w, j) ==
    /\ pc[w] = "idle"
    /\ orphans < MaxOrphans
    /\ lock[j] = Nobody /\ Claimable(row[j])
    /\ row' = [row EXCEPT ![j] = Claimed(row[j], w)]
    /\ draft' = [draft EXCEPT ![j] = Claimed(row[j], w)]
    /\ orphans' = orphans + 1
    /\ UNCHANGED <<lock, wanted, worker, req, starts, succeeded, aborts, losses>>

-----------------------------------------------------------------------------
(* HTTP requests: one operation each, in a transaction of their own.       *)

RequestIs(r, phase) == req[r].phase = phase /\ wanted[r] = NoKey

\* A route enqueues a job; its transaction stays open until the response.
RequestEnqueue(r, key, delay) ==
    /\ req[r].phase = "idle" /\ wanted[r] \in {NoKey, key} /\ "enqueue" \in Ops
    /\ \E j \in Jobs :
          /\ Insert(r, j, key, delay)
          /\ req' = [req EXCEPT ![r] = [phase |-> "enqueued", op |-> "enqueue",
                                        job |-> j, seen |-> key]]
    /\ UNCHANGED <<worker, observed>>

\* The same route when a visible row already has the key.
RequestEnqueueAgain(r, key) ==
    /\ RequestIs(r, "idle") /\ "enqueue" \in Ops
    /\ key # NoKey
    /\ \E j \in Visible(r, key) :
          req' = [req EXCEPT ![r] = [phase |-> "enqueued", op |-> "enqueue",
                                     job |-> j, seen |-> key]]
    /\ UNCHANGED <<db, worker, observed>>

\* ... and when another session is about to insert it.
RequestWait(r, key) ==
    /\ RequestIs(r, "idle") /\ "enqueue" \in Ops
    /\ WaitForKey(r, key)
    /\ UNCHANGED <<worker, req, observed>>

RequestLoses(r) ==
    /\ KeyLost(r)
    /\ req' = [req EXCEPT ![r] = [NoRequest EXCEPT !.phase = "refused"]]
    /\ UNCHANGED <<worker, starts, succeeded, aborts, orphans>>

\* get_db commits after the response ...
RequestCommit(r) ==
    /\ RequestIs(r, "enqueued")
    /\ CommitOf(r)
    /\ req' = [req EXCEPT ![r].phase = "done"]
    /\ UNCHANGED <<worker, observed>>

\* ... and rolls back when the route raised.
RequestRollback(r) ==
    /\ RequestIs(r, "enqueued")
    /\ RollbackOf(r)
    /\ req' = [req EXCEPT ![r].phase = "refused"]
    /\ UNCHANGED <<worker, observed>>

\* cancel_job / retry_job: load the row and check its status.
RequestLoad(r, j, op) ==
    /\ RequestIs(r, "idle") /\ op \in Ops
    /\ \/ op = "cancel" /\ row[j].status \in Waiting
       \/ op = "retry" /\ row[j].status = "failed"
    /\ req' = [req EXCEPT ![r] = [phase |-> "loaded", op |-> op,
                                  job |-> j, seen |-> row[j]]]
    /\ UNCHANGED <<db, worker, observed>>

\* cancel_job / retry_job: the UPDATE by id waits for the row lock, does not
\* look at the status again, and is committed at once.
RequestWrite(r) ==
    LET j    == req[r].job
        seen == req[r].seen
        new  == IF req[r].op = "cancel" THEN Cancelled(seen) ELSE Retried(seen)
    IN  /\ RequestIs(r, "loaded")
        /\ lock[j] = Nobody
        /\ row' = [row EXCEPT ![j] = OrmUpdate(row[j], seen, new)]
        /\ draft' = [draft EXCEPT ![j] = OrmUpdate(row[j], seen, new)]
        /\ req' = [req EXCEPT ![r].phase = "done"]
        /\ UNCHANGED <<lock, wanted, worker, observed>>

-----------------------------------------------------------------------------
(* Time.                                                                   *)

Elapse(m) == IF m \in Nat /\ m > 0 THEN m - 1 ELSE m

ElapseRow(r) == [r EXCEPT !.lease = Elapse(@), !.run_after = Elapse(@)]

Tick ==
    /\ row' = [j \in Jobs |-> ElapseRow(row[j])]
    /\ draft' = [j \in Jobs |-> ElapseRow(draft[j])]
    /\ <<row', draft'>> # <<row, draft>>
    /\ UNCHANGED <<lock, wanted, worker, req, observed>>

-----------------------------------------------------------------------------
Init ==
    /\ row = [j \in Jobs |-> IF j <= Preloaded THEN NewRow(NoKey, Null)
                                               ELSE AbsentRow]
    /\ draft = row
    /\ lock = [j \in Jobs |-> Nobody]
    /\ wanted = [s \in Sessions |-> NoKey]
    /\ pc = [w \in Workers |-> "idle"]
    /\ expired = [w \in Workers |-> NoneLoaded]
    /\ todo = [w \in Workers |-> {}]
    /\ current = [w \in Workers |-> Null]
    /\ req = [r \in Requests |-> NoRequest]
    /\ starts = [j \in Jobs |-> 0]
    /\ succeeded = [j \in Jobs |-> 0]
    /\ aborts = 0
    /\ losses = 0
    /\ orphans = 0

\* The steps a live worker takes; while an INSERT waits it takes no other.
WorkerStep(w) ==
    \/ /\ wanted[w] = NoKey
       /\ \/ StartCycle(w)
          \/ Reap(w)
          \/ Scan(w)
          \/ Claim(w)
          \/ Complete(w)
          \/ Fail(w)
          \/ Commit(w)
    \/ KeyWon(w)
    \/ LoseCycle(w)

WorkerChoice(w) ==
    \/ /\ wanted[w] = NoKey
       /\ \E key \in Keys : EnsureTick(w, key) \/ HandlerEnqueue(w, key, 0)
    \/ AbortCycle(w)
    \/ \E j \in Jobs : AbandonClaim(w, j)

RequestStep(r) ==
    \/ \E key \in Keys \cup {NoKey} : RequestEnqueue(r, key, Null)
    \/ \E key \in Keys : RequestEnqueueAgain(r, key)
    \/ \E key \in Keys : RequestWait(r, key)
    \/ RequestLoses(r)
    \/ RequestRollback(r)
    \/ \E j \in Jobs, op \in {"cancel", "retry"} : RequestLoad(r, j, op)
    \/ RequestWrite(r)

Next ==
    \/ \E w \in Workers : WorkerStep(w) \/ WorkerChoice(w)
    \/ \E r \in Requests : RequestStep(r) \/ RequestCommit(r)
    \/ Tick

Spec == Init /\ [][Next]_vars

\* A worker polls for ever and a handler returns or raises; an HTTP request
\* that has inserted ends; time passes.  Nobody is obliged to send a request,
\* to enqueue or to crash.
Fairness ==
    /\ \A w \in Workers : WF_vars(WorkerStep(w))
    /\ \A r \in Requests : WF_vars(RequestCommit(r))
    /\ WF_vars(Tick)

FairSpec == Spec /\ Fairness

-----------------------------------------------------------------------------
(* Properties.                                                             *)

\* What a request can remember, by phase.
RequestStates ==
    {NoRequest, [NoRequest EXCEPT !.phase = "refused"]}
    \cup [phase : {"enqueued", "done", "refused"}, op : {"enqueue"},
          job : Jobs, seen : Keys \cup {NoKey}]
    \cup [phase : {"loaded", "done"}, op : {"cancel", "retry"},
          job : Jobs, seen : Rows]

\* A running row, committed or not, is a claim: it has a lease that lapses and
\* an attempt that counts, which is all that later bounds its retries.
HasClaim(r) == r.status = "running" => r.lease # Null /\ r.attempts > 0

Typed ==
    /\ row \in [Jobs -> Rows]
    /\ draft \in [Jobs -> Rows]
    /\ lock \in [Jobs -> Sessions \cup {Nobody}]
    /\ wanted \in [Sessions -> Keys \cup {NoKey}]
    /\ pc \in [Workers -> {"idle", "reap", "prepare", "work"}]
    /\ \A w \in Workers : /\ DOMAIN expired[w] \subseteq Jobs
                          /\ \A j \in DOMAIN expired[w] : expired[w][j] \in Rows
    /\ todo \in [Workers -> SUBSET Jobs]
    /\ current \in [Workers -> Jobs \cup {Null}]
    /\ req \in [Requests -> RequestStates]
    /\ starts \in [Jobs -> 0..Cap]
    /\ succeeded \in [Jobs -> 0..Cap]
    /\ aborts \in 0..MaxAborts
    /\ losses \in 0..Cap
    /\ orphans \in 0..MaxOrphans

\* Rows, locks and session states are well typed, and whatever cancels, manual
\* retries and reapers write over a claim, no row is left running without a
\* lease or without an attempt counted (queue.py:202-209).
TypeOK == Typed /\ \A j \in Jobs : HasClaim(row[j]) /\ HasClaim(draft[j])

\* No two workers run the same job at the same time, however long a handler
\* takes and whatever requests do meanwhile (queue.py:6-11).
SingleExecutor ==
    \A v, w \in Workers :
        v # w /\ current[v] # Null => current[v] # current[w]

Startable(r) ==
    \/ r.status \in Waiting /\ r.run_after \in {Null, 0}
    \/ r.status = "running" /\ r.lease = 0
    \/ r.status = "absent"

\* A handler is only ever started for a job that is committed as queued or
\* retrying and due, or for a tick its own cycle inserted: never for a job
\* another session has cancelled, completed or scheduled for later, even when
\* that commit falls between this worker's scan and its claim.
RunsOnlyClaimable ==
    [][\A w \in Workers :
          current'[w] # current[w] /\ current'[w] # Null =>
              Startable(row[current'[w]])]_vars

ManualRetries(j) ==
    Cardinality({r \in Requests : /\ req[r].op = "retry" /\ req[r].job = j
                                  /\ req[r].phase = "done"})

\* A job's handler is started at most max_attempts times, as often again for
\* every manual retry, and once more for every worker cycle that was lost to a
\* crash or to a key race: a lost cycle gives its attempts back, nothing else
\* does.
AttemptsBoundStarts ==
    \A j \in Jobs :
        starts[j] <= MaxAttempts * (1 + ManualRetries(j)) + aborts + losses

\* Without a manual retry, a handler that has succeeded is run again only
\* because the cycle that should have recorded the success was lost.
RepeatsNeedALostCycle ==
    \A j \in Jobs : succeeded[j] <= 1 + aborts + losses

\* What the API promises: only queued or retrying jobs can be cancelled, so no
\* commit turns a job that has completed or failed into a cancelled one
\* (api/v1/jobs.py:131).
CancelStopsOnlyWaiting ==
    [][\A j \in Jobs :
          row'[j].status = "cancelled" /\ row[j].status # "cancelled" =>
              row[j].status \in Waiting]_vars

\* enqueue with a dedupe_key is idempotent: no two committed jobs share a
\* key, and a caller that was told about a job finds it committed under the
\* key it asked for (queue.py:101-104).
EnqueueIdempotent ==
    /\ \A i, j \in Jobs :
          row[i].key # NoKey /\ row[i].key = row[j].key => i = j
    /\ \A r \in Requests :
          req[r].op = "enqueue" /\ req[r].phase = "done" =>
              /\ row[req[r].job].status # "absent"
              /\ row[req[r].job].key = req[r].seen

\* What enqueue promises to the loser of a race for a key: it reads the
\* winner's row, so no transaction fails because two callers enqueue the same
\* key (queue.py:103-104).
LoserReadsWinner == losses = 0

\* Every committed job is eventually completed, failed or cancelled, although
\* workers crash a bounded number of times and share the queue.
EveryJobSettles ==
    \A j \in Jobs :
        row[j].status \in Waiting ~> row[j].status \in Terminal

\* A claim left behind by a dead session is given to another worker once its
\* lease lapses, and its job still reaches a terminal status.
OrphansRecover ==
    \A j \in Jobs :
        row[j].status = "running" ~> row[j].status \in Terminal

\* The abstract lifecycle, over the committed rows.
Lifecycle ==
    INSTANCE JobLifecycle
        WITH life <- [j \in Jobs |-> [status   |-> row[j].status,
                                      attempts |-> row[j].attempts]]

\* Every commit takes each job along the arrows of the state machine drawn in
\* queue.py:25-34, several at a time and through RUNNING in one go.
FollowsStateMachine == Lifecycle!Spec
=============================================================================
