---------------------------- MODULE ActionExecution ----------------------------
(***************************************************************************)
(* The life of one AI action: the decisions of app/services/               *)
(* action_service.py, the execution engine and its claim (app/automation/  *)
(* execution.py, idempotency.py), the ads provider it mutates, and the     *)
(* three ways an action whose fate is unknown is recovered: the provider   *)
(* reconciliation job, the operator (manual_reconciliation.py,             *)
(* legacy_executing.py) and the reaper of stale executions.                *)
(*                                                                         *)
(* Every operation names its action by id, so one row is enough.  A        *)
(* session is one transaction at READ COMMITTED: `row' is what is          *)
(* committed, `lock' who holds the row lock and `draft' that session's     *)
(* version.  Requests commit when they return, workers once per cycle.     *)
(*                                                                         *)
(* The tenant, target, autonomy and safety checks of execute() are one     *)
(* choice, CheckFails.  An expired action is refused by approve() and its  *)
(* EXPIRED status rolled back with the 400, so expiry changes nothing.     *)
(***************************************************************************)
EXTENDS Integers

CONSTANTS
    Callers,        \* HTTP requests in flight
    Workers,        \* worker processes
    Nobody,         \* "no session holds the row lock"
    Null,           \* SQL NULL; nothing observed
    InitialStatus,  \* statuses the action may start in
    Budget,         \* bound: requests of each operation
    NeedsApproval,  \* AIAction.requires_approval
    Limited,        \* the action creates something or updates a budget
    MaxRetries,     \* retries execute() allows a limited action
    ChecksMayFail,  \* can the checks of execute() fail?
    JobAttempts,    \* max_attempts of the provider.reconcile job
    StaleAfter,     \* autonomous_execution_stale_timeout_minutes, in ticks
    MaxCrashes,     \* bound: transactions lost to a crash
    MaxOrphans,     \* bound: claims committed by a session that then dies
    MaxMisreads,    \* bound: successes whose answer cannot be read
    Cap             \* bound at which the counters saturate

Sessions == Callers \cup Workers
Ops      == {"approve", "reject", "cancel", "execute", "resolve", "legacy"}
Open     == {"PENDING", "UNKNOWN"}
Recons   == {"none", "CONFIRMED_SUCCESS", "CONFIRMED_NOT_APPLIED"} \cup Open
Statuses == {"pending", "approved", "rejected", "executing",
             "completed", "failed", "cancelled"}

ASSUME SizesAssumption ==
    /\ Budget \in [Ops -> Nat]
    /\ MaxRetries \in Nat /\ StaleAfter \in Nat \ {0}
    /\ JobAttempts \in Nat \ {0}
    /\ MaxCrashes \in Nat /\ MaxOrphans \in Nat /\ MaxMisreads \in Nat
    /\ Cap \in Nat \ {0} /\ MaxRetries < Cap

ASSUME NamesAssumption ==
    /\ Callers \cap Workers = {}
    /\ Nobody \notin Sessions
    /\ Null \notin Nat \cup {"applied", "not_applied", "unknown", "raised",
                             "confirmed", "refused", "ambiguous"}
    /\ InitialStatus \subseteq {"pending", "failed", "executing"}
    /\ NeedsApproval \in BOOLEAN /\ Limited \in BOOLEAN
    /\ ChecksMayFail \in BOOLEAN

VARIABLES
    row,        \* the committed ai_actions row
    draft,      \* the row lock holder's version of it
    lock,       \* holder of the row lock
    job,        \* the row of the action's provider.reconcile job; one that is
                \* between two attempts counts as queued
    pc,         \* session: what it does next
    op,         \* session: its operation; "reconcile" for a worker that has the job
    seen,       \* session: the row as it loaded it
    out,        \* session: what the provider answered, or the operator saw there
    left,       \* requests of each operation still to come
    applied,    \* provider: times the mutation took effect
    doubts,     \* ambiguous outcomes recorded so far
    crashes,    \* transactions lost so far
    orphans,    \* claims abandoned so far
    misreads    \* mutations that took effect and were recorded as refused

vars == <<row, draft, lock, job, pc, op, seen, out, left,
          applied, doubts, crashes, orphans, misreads>>

db      == <<row, draft, lock>>
counted == <<applied, doubts, crashes, orphans, misreads>>

\* executing_at is the ticks since the claim, up to StaleAfter.
Rows == [status : Statuses, recon : Recons, retry_count : 0..Cap,
         executing_at : {Null} \cup 0..StaleAfter]

NewRow(status) == [status |-> status, recon |-> "none",
                   retry_count |-> 0, executing_at |-> Null]

NotLoaded == NewRow("pending")

NoJob  == [status |-> "none", attempts |-> 0]
NewJob == [status |-> "queued", attempts |-> 0]

Bump(n) == IF n < Cap THEN n + 1 ELSE n

-----------------------------------------------------------------------------
(* Transactions and the ORM.                                               *)

View(s) == IF lock = s THEN draft ELSE row

\* An UPDATE of session s, its transaction still open.
Hold(s, new) ==
    /\ lock \in {Nobody, s}
    /\ lock' = s
    /\ draft' = new
    /\ row' = row

\* Mutant: the session ends without its COMMIT.
Save_NoCommit(s, new) ==
    /\ lock \in {Nobody, s}
    /\ lock' = s
    /\ draft' = new
    /\ row' = row

\* An UPDATE of session s and its COMMIT.
Save(s, new) ==
    /\ lock \in {Nobody, s}
    /\ lock' = Nobody
    /\ draft' = new
    /\ row' = new

\* ROLLBACK of session s.
Discard(s) ==
    /\ draft' = IF lock = s THEN row ELSE draft
    /\ lock' = IF lock = s THEN Nobody ELSE lock
    /\ row' = row

\* Flushing a loaded object updates, by primary key alone, the columns whose
\* value is not the one that was loaded.
Flush(now, was, new) ==
    [field \in DOMAIN now |->
        IF new[field] = was[field] THEN now[field] ELSE new[field]]

Goto(s, label) == pc' = [pc EXCEPT ![s] = label]

\* The transaction of session s has ended.
Done(s) ==
    /\ pc' = [pc EXCEPT ![s] = "idle"]
    /\ op' = [op EXCEPT ![s] = "none"]
    /\ seen' = [seen EXCEPT ![s] = NotLoaded]
    /\ out' = [out EXCEPT ![s] = Null]

-----------------------------------------------------------------------------
(* Requests.                                                               *)

BlocksRetry(r) == r.recon \in Open

\* The status checks each operation makes on the row it has loaded.
Admits(o, r) ==
    \/ o = "approve" /\ r.status \in {"pending", "failed"}
    \/ o = "reject" /\ r.status = "pending"
    \/ o = "cancel" /\ r.status \in {"pending", "approved"}
    \/ /\ o = "execute" /\ r.status \in {"approved", "failed"}
       /\ Limited => r.retry_count < MaxRetries
    \/ o = "resolve" /\ r.status = "failed" /\ r.recon = "UNKNOWN"
    \/ o = "legacy" /\ r.status = "executing" /\ r.executing_at = Null

\* What the provider shows to whoever looks.
Truth == IF applied > 0 THEN "applied" ELSE "not_applied"

\* A request loads the action; an operator who resolves a case has looked at
\* the provider.
Load(c, o) ==
    /\ pc[c] = "idle" /\ left[o] > 0
    /\ Admits(o, row)
    /\ Goto(c, IF o = "execute" THEN "ready" ELSE "loaded")
    /\ op' = [op EXCEPT ![c] = o]
    /\ seen' = [seen EXCEPT ![c] = row]
    /\ out' = [out EXCEPT ![c] = IF o = "resolve" THEN Truth ELSE Null]
    /\ left' = [left EXCEPT ![o] = @ - 1]
    /\ UNCHANGED <<db, job, counted>>

\* reject and cancel.
Decide(c) ==
    LET verdict == IF op[c] = "reject" THEN "rejected" ELSE "cancelled"
    IN  /\ pc[c] = "loaded" /\ op[c] \in {"reject", "cancel"}
        /\ lock = Nobody
        /\ Save(c, Flush(row, seen[c], [seen[c] EXCEPT !.status = verdict]))
        /\ Done(c)
        /\ UNCHANGED <<job, left, counted>>

\* approve, up to the call of execute().
Approve(c) ==
    LET approved == [seen[c] EXCEPT !.status = "approved"]
    IN  /\ pc[c] = "loaded" /\ op[c] = "approve"
        /\ Hold(c, Flush(row, seen[c], approved))
        /\ seen' = [seen EXCEPT ![c] = approved]
        /\ Goto(c, "ready")
        /\ UNCHANGED <<op, out, job, left, counted>>

\* _fail: the action is marked failed, whatever has happened to it meanwhile.
MarkFailed(c, loaded) ==
    /\ Save(c, Flush(View(c), loaded, [loaded EXCEPT !.status = "failed",
                                                     !.executing_at = Null]))
    /\ Done(c)
    /\ UNCHANGED <<job, left, counted>>

CheckFails(c) ==
    /\ pc[c] = "ready" /\ ChecksMayFail
    /\ MarkFailed(c, seen[c])

Forced(c) == op[c] = "execute"

Claimable(c) ==
    {"approved", "failed"}
        \cup (IF ~NeedsApproval \/ Forced(c) THEN {"pending"} ELSE {})

\* Mutant: the claim does not look at the status.
Claim_Blind(c) ==
    /\ pc[c] = "ready"
    /\ Hold(c, [View(c) EXCEPT !.status = "executing", !.executing_at = 0])
    /\ Goto(c, "calling")
    /\ UNCHANGED <<op, seen, out, job, left, counted>>

\* Mutant: the claim is committed before the provider is called.
Claim_Committed(c) ==
    /\ pc[c] = "ready" /\ View(c).status \in Claimable(c)
    /\ Save(c, [View(c) EXCEPT !.status = "executing", !.executing_at = 0])
    /\ Goto(c, "calling")
    /\ UNCHANGED <<op, seen, out, job, left, counted>>

RefusesRetry(c) == seen[c].status = "failed" /\ BlocksRetry(seen[c]) /\ ~Forced(c)

\* try_claim_action_for_execution, "claimed": the conditional UPDATE waits for
\* the row lock and then looks at the status that is committed.
Claim(c) ==
    /\ pc[c] = "ready" /\ ~RefusesRetry(c)
    /\ View(c).status \in Claimable(c)
    /\ Hold(c, [View(c) EXCEPT !.status = "executing", !.executing_at = 0])
    /\ Goto(c, "calling")
    /\ UNCHANGED <<op, seen, out, job, left, counted>>

\* ... "completed" and "executing": another caller did it, or is doing it.
ClaimFinished(c) ==
    /\ pc[c] = "ready" /\ lock = Nobody
    /\ row.status \in {"completed", "executing"}
    /\ Done(c)
    /\ UNCHANGED <<db, job, left, counted>>

\* ... "blocked": INVALID_STATUS.
ClaimBlocked(c) ==
    /\ pc[c] = "ready"
    /\ RefusesRetry(c) \/ View(c).status \notin Claimable(c)
    /\ View(c).status \notin {"completed", "executing"}
    /\ MarkFailed(c, View(c))

\* The provider confirms the mutation, refuses it, or leaves us in doubt.  Any
\* exception counts as a refusal, an answer that cannot be parsed included.
Call(c) ==
    /\ pc[c] = "calling"
    /\ \E answer \in {"confirmed", "refused", "ambiguous"}, took \in BOOLEAN :
          /\ answer = "confirmed" => took
          /\ answer = "refused" /\ took => misreads < MaxMisreads
          /\ misreads' = misreads + (IF answer = "refused" /\ took THEN 1 ELSE 0)
          /\ out' = [out EXCEPT ![c] = answer]
          /\ applied' = IF took THEN Bump(applied) ELSE applied
    /\ Goto(c, "called")
    /\ UNCHANGED <<db, job, op, seen, left, doubts, crashes, orphans>>

\* Mutant: anything but a refusal counts as success.
Outcome_Optimist(r, c) ==
    [r EXCEPT !.status = IF out[c] = "refused" THEN "failed" ELSE "completed",
              !.executing_at = Null]

\* What execute() records; a failure keeps the result of earlier attempts.
Outcome(r, c) ==
    LET ended == [r EXCEPT !.executing_at = Null, !.status = "failed"]
    IN  IF out[c] = "confirmed"
        THEN [ended EXCEPT !.status = "completed", !.recon = "none"]
        ELSE IF out[c] = "refused"
        THEN [ended EXCEPT !.retry_count = Bump(seen[c].retry_count)]
        ELSE [ended EXCEPT !.recon = "PENDING"]

\* The outcome is written and the request commits.  A doubtful one enqueues
\* the reconciliation job, unless a job with the action's dedupe key exists.
Record(c) ==
    /\ pc[c] = "called"
    /\ Save(c, Outcome(draft, c))
    /\ job' = IF out[c] = "ambiguous" /\ job = NoJob THEN NewJob ELSE job
    /\ doubts' = IF out[c] = "ambiguous" THEN Bump(doubts) ELSE doubts
    /\ Done(c)
    /\ UNCHANGED <<left, applied, crashes, orphans, misreads>>

\* What the reconciler and the operator write on a case, as far as the guards
\* of later operations can tell.
Confirmed(r)    == [r EXCEPT !.status = "completed", !.executing_at = Null,
                             !.recon = "CONFIRMED_SUCCESS"]
NotApplied(r)   == [r EXCEPT !.executing_at = Null,
                             !.recon = "CONFIRMED_NOT_APPLIED"]
StillUnknown(r) == [r EXCEPT !.recon = "UNKNOWN"]

Resolved(r, verdict) ==
    IF verdict = "KEEP_UNKNOWN" THEN StillUnknown(r)
    ELSE IF verdict = "CONFIRM_SUCCESS" THEN Confirmed(r) ELSE NotApplied(r)

Verdicts(evidence) ==
    {"KEEP_UNKNOWN",
     IF evidence = "applied" THEN "CONFIRM_SUCCESS" ELSE "CONFIRM_NOT_APPLIED"}

\* Mutant: the CAS of the operator's resolution is dropped.
Resolve_NoCAS(c) ==
    /\ pc[c] = "loaded" /\ op[c] = "resolve"
    /\ \E verdict \in Verdicts(out[c]) :
          Save(c, [Resolved(row, verdict) EXCEPT !.status =
                     IF verdict = "CONFIRM_SUCCESS" THEN "completed" ELSE "failed"])
    /\ Done(c)
    /\ UNCHANGED <<job, left, counted>>

\* manually_resolve_reconciliation; its CAS compares the status only.
Resolve(c) ==
    /\ pc[c] = "loaded" /\ op[c] = "resolve"
    /\ row.status = "failed"
    /\ \E verdict \in Verdicts(out[c]) : Save(c, Resolved(row, verdict))
    /\ Done(c)
    /\ UNCHANGED <<job, left, counted>>

\* recover_legacy_executing, for rows claimed before executing_at existed.
RecoverLegacy(c) ==
    /\ pc[c] = "loaded" /\ op[c] = "legacy"
    /\ row.status = "executing" /\ row.executing_at = Null
    /\ \E recon \in {seen[c].recon, "UNKNOWN"} :
          Save(c, [row EXCEPT !.status = "failed", !.recon = recon])
    /\ Done(c)
    /\ UNCHANGED <<job, left, counted>>

\* The CAS of either found another status: 409, rolled back.
Conflict(c) ==
    /\ pc[c] = "loaded" /\ lock = Nobody
    /\ \/ op[c] = "resolve" /\ row.status # "failed"
       \/ op[c] = "legacy" /\ row.status # "executing"
    /\ Done(c)
    /\ UNCHANGED <<db, job, left, counted>>

\* The process dies or the database fails before the commit.
Crash(c) ==
    /\ pc[c] # "idle" /\ crashes < MaxCrashes
    /\ crashes' = crashes + 1
    /\ Discard(c)
    /\ Done(c)
    /\ UNCHANGED <<job, left, applied, doubts, orphans, misreads>>

\* A session that commits its claim and dies before it records the outcome.
\* No code path commits there; the tests of the reaper and older rows do.
AbandonClaim(c) ==
    /\ pc[c] \in {"calling", "called"} /\ orphans < MaxOrphans
    /\ orphans' = orphans + 1
    /\ Save(c, draft)
    /\ Done(c)
    /\ UNCHANGED <<job, left, applied, doubts, crashes, misreads>>

-----------------------------------------------------------------------------
(* The worker cycle, as far as it concerns actions.                        *)

Stale(r) == r.status = "executing" /\ r.executing_at = StaleAfter

\* Mutant: only the job's own rows are reaped.
Reap_Never(w) == FALSE

\* reap_stale_executing_actions, FOR UPDATE SKIP LOCKED.
Reap(w) ==
    /\ pc[w] = "idle" /\ lock = Nobody
    /\ Stale(row)
    /\ Hold(w, [row EXCEPT !.status = "failed", !.executing_at = Null,
                           !.retry_count = Bump(@)])
    /\ Goto(w, "cycle")
    /\ UNCHANGED <<op, seen, out, job, left, counted>>

\* Mutant: a job that is taken is never given back.
TakeJob_Lost(w) ==
    /\ pc[w] \in {"idle", "cycle"} /\ op[w] = "none"
    /\ job.status = "queued"
    /\ job' = [job EXCEPT !.status = "done"]
    /\ op' = [op EXCEPT ![w] = "reconcile"]
    /\ seen' = [seen EXCEPT ![w] = View(w)]
    /\ Goto(w, IF View(w).status = "failed" /\ BlocksRetry(View(w))
               THEN "reading" ELSE "cycle")
    /\ UNCHANGED <<db, out, left, counted>>

\* The worker runs the provider.reconcile job; its claim locks the job's row.
\* An action that is not in doubt is skipped.
TakeJob(w) ==
    /\ pc[w] \in {"idle", "cycle"} /\ op[w] = "none"
    /\ job.status = "queued" /\ \A v \in Workers : op[v] = "none"
    /\ op' = [op EXCEPT ![w] = "reconcile"]
    /\ seen' = [seen EXCEPT ![w] = View(w)]
    /\ Goto(w, IF View(w).status = "failed" /\ BlocksRetry(View(w))
               THEN "reading" ELSE "cycle")
    /\ UNCHANGED <<db, out, job, left, counted>>

\* AdsReconciler.reconcile: a read-only look; UNKNOWN and UNSUPPORTED alike
\* leave the case open ...
ReadProvider(w) ==
    /\ pc[w] = "reading"
    /\ \E answer \in {Truth, "unknown"} : out' = [out EXCEPT ![w] = answer]
    /\ Goto(w, "applying")
    /\ UNCHANGED <<db, job, op, seen, left, counted>>

\* ... and an answer that is no JSON, or a budget that is no number, raises out
\* of the handler.
ReadRaises(w) ==
    /\ pc[w] = "reading"
    /\ out' = [out EXCEPT ![w] = "raised"]
    /\ Goto(w, "cycle")
    /\ UNCHANGED <<db, job, op, seen, left, counted>>

Reconciled(r, answer) ==
    IF answer = "unknown" THEN StillUnknown(r)
    ELSE IF answer = "applied" THEN Confirmed(r) ELSE NotApplied(r)

\* apply_reconciliation_outcome: the UPDATE waits for the row lock; its CAS
\* compares the status only.
Apply(w) ==
    /\ pc[w] = "applying"
    /\ \/ /\ View(w).status = "failed"
          /\ Hold(w, Reconciled(View(w), out[w]))
       \/ /\ View(w).status # "failed"
          /\ UNCHANGED db
    /\ Goto(w, "cycle")
    /\ UNCHANGED <<op, seen, out, job, left, counted>>

\* _complete and _fail: a job whose handler raised is tried again until its
\* attempts are spent.
Attempted(j, raised) ==
    [status   |-> IF ~raised THEN "done"
                  ELSE IF j.attempts + 1 < JobAttempts THEN "queued" ELSE "failed",
     attempts |-> j.attempts + 1]

\* The cycle's commit, with the attempt at the job it ran.
EndCycle(w) ==
    /\ pc[w] = "cycle"
    /\ IF lock = w THEN Save(w, draft) ELSE UNCHANGED db
    /\ job' = IF op[w] = "reconcile" THEN Attempted(job, out[w] = "raised") ELSE job
    /\ Done(w)
    /\ UNCHANGED <<left, counted>>

\* The cycle is lost; the job is still queued.
CrashCycle(w) == Crash(w)

-----------------------------------------------------------------------------
Older(r) ==
    IF r.executing_at \in 0..(StaleAfter - 1)
    THEN [r EXCEPT !.executing_at = @ + 1] ELSE r

Tick ==
    /\ row' = Older(row) /\ draft' = Older(draft)
    /\ <<row', draft'>> # <<row, draft>>
    /\ UNCHANGED <<lock, job, pc, op, seen, out, left, counted>>

Init ==
    /\ \E status \in InitialStatus : row = NewRow(status)
    /\ draft = row
    /\ lock = Nobody
    /\ job = NoJob
    /\ pc = [s \in Sessions |-> "idle"]
    /\ op = [s \in Sessions |-> "none"]
    /\ seen = [s \in Sessions |-> NotLoaded]
    /\ out = [s \in Sessions |-> Null]
    /\ left = Budget
    /\ applied = 0 /\ doubts = 0 /\ crashes = 0 /\ orphans = 0 /\ misreads = 0

CallerStep(c) ==
    \/ Decide(c)
    \/ Approve(c)
    \/ Claim(c)
    \/ ClaimFinished(c)
    \/ ClaimBlocked(c)
    \/ Call(c)
    \/ Record(c)
    \/ Resolve(c)
    \/ RecoverLegacy(c)
    \/ Conflict(c)

CallerChoice(c) ==
    \/ \E o \in Ops : Load(c, o)
    \/ CheckFails(c)
    \/ Crash(c)
    \/ AbandonClaim(c)

WorkerStep(w) ==
    \/ Reap(w)
    \/ TakeJob(w)
    \/ ReadProvider(w)
    \/ ReadRaises(w)
    \/ Apply(w)
    \/ EndCycle(w)

Next ==
    \/ \E c \in Callers : CallerStep(c) \/ CallerChoice(c)
    \/ \E w \in Workers : WorkerStep(w) \/ CrashCycle(w)
    \/ Tick

Spec == Init /\ [][Next]_vars

\* A request that has loaded the action goes on, the worker polls for ever,
\* time passes.  Nobody is obliged to make a request or to crash.
Fairness ==
    /\ \A c \in Callers : WF_vars(CallerStep(c))
    /\ \A w \in Workers : WF_vars(WorkerStep(w))
    /\ WF_vars(Tick)

FairSpec == Spec /\ Fairness

-----------------------------------------------------------------------------
(* Properties.                                                             *)

Outcomes == {Null, "confirmed", "refused", "ambiguous",
             "applied", "not_applied", "unknown", "raised"}

\* A job that waits has attempts left, one that has failed has none.
JobRows ==
    {j \in [status : {"none", "queued", "done", "failed"}, attempts : Nat] :
        /\ j.status = "queued" => j.attempts < JobAttempts
        /\ j.status = "failed" => j.attempts >= JobAttempts}

\* The row keeps its columns' types through every merge of a stale object,
\* sessions only ever remember rows and provider answers, and the row lock
\* belongs to a session in the middle of a transaction.
TypeOK ==
    /\ row \in Rows /\ draft \in Rows
    /\ lock \in Sessions \cup {Nobody}
    /\ lock # Nobody => pc[lock] \notin {"idle", "loaded"}
    /\ job \in JobRows
    /\ pc \in [Sessions -> {"idle", "loaded", "ready", "calling", "called",
                            "cycle", "reading", "applying"}]
    /\ op \in [Sessions -> Ops \cup {"none", "reconcile"}]
    /\ seen \in [Sessions -> Rows]
    /\ out \in [Sessions -> Outcomes]
    /\ left \in [Ops -> Nat]
    /\ applied \in 0..Cap /\ doubts \in 0..Cap
    /\ crashes \in 0..MaxCrashes /\ orphans \in 0..MaxOrphans
    /\ misreads \in 0..MaxMisreads

Mutating(c) == pc[c] \in {"calling", "called"}

\* Two requests never have the provider mutation in flight at the same time,
\* although approve, execute and the claim race on a row two of them update
\* without looking at its status (idempotency.py:75 "this caller owns
\* execution").
SingleMutator ==
    \A c, d \in Callers : Mutating(c) /\ Mutating(d) => c = d

\* An action is committed as completed only if the provider has applied it,
\* whichever of a confirmed call, the reconciler and an operator says so.
CompletedMeansApplied == row.status = "completed" => applied > 0

\* Unless a reject or cancel that loaded the action earlier overwrites its
\* status, or an abandoned claim hides the case while the job runs, the first
\* doubtful outcome is looked at: through crashes of the worker and concurrent
\* retries, the job leaves the case closed or known to be unknown, or has spent
\* all its attempts on reads that raised (provider_reconciliation.py:60-67).
FirstDoubtIsChecked ==
    row.recon = "PENDING" /\ doubts = 1 /\ orphans = 0 ~>
        row.recon # "PENDING" \/ doubts > 1 \/ orphans > 0 \/ job.status = "failed"

\* An execution whose claim was committed and whose session died does not stay
\* EXECUTING.
StaleIsRecovered ==
    row.status = "executing" /\ row.executing_at # Null ~> row.status # "executing"

\* A completed action stays completed: it is not failed, approved or executed
\* again by a request that loaded it before it completed.
CompletedIsFinal ==
    [][row.status = "completed" => row'.status = "completed"]_vars

\* When nobody approves again, the mutation takes effect once, plus once for
\* every transaction that was lost, every claim that was abandoned, every
\* outcome that was in doubt and every success that was taken for a refusal:
\* concurrent retries alone never repeat it.
EffectsAccounted == applied <= 1 + crashes + orphans + doubts + misreads

\* What reconciliation_blocks_retry says: an action in doubt is not claimed
\* for re-execution (provider_errors.py:177).
NotClaimedInDoubt ==
    [][\A c \in Callers :
          pc[c] = "ready" /\ pc'[c] = "calling" =>
              ~(row.status = "failed" /\ BlocksRetry(row))]_vars
=============================================================================
