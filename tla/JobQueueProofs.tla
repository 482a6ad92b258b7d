--------------------------- MODULE JobQueueProofs ---------------------------
(***************************************************************************)
(* Theorems about JobQueue, for any number of workers, requests, rows and  *)
(* keys.  The inductive invariant is Typed plus Locking: who holds a row  *)
(* lock determines who may run the row's job.  On it rest, in this order:  *)
(* who may start a job, that keys stay apart, what a transaction may do to *)
(* a row, the refinement of JobLifecycle, and the counts of starts and     *)
(* successes.  The last two hold while what sessions load stays fresh; the *)
(* last section says when that is certain.                                 *)
(***************************************************************************)
EXTENDS JobQueue, FiniteSetTheorems, NaturalsInduction, WellFoundedInduction, TLAPS

\* Every operation on a row yields a row.
LEMMA RowOperations ==
    ASSUME NEW r \in Rows
    PROVE  /\ ReleaseLease(r) \in Rows
           /\ Completed(r) \in Rows
           /\ \A retryable \in BOOLEAN : Failed(r, retryable) \in Rows
           /\ Reaped(r) \in Rows
           /\ Cancelled(r) \in Rows
           /\ Retried(r) \in Rows
           /\ ElapseRow(r) \in Rows
           /\ \A w \in Workers : Claimed(r, w) \in Rows
<1> DEFINE q == ReleaseLease(r)
<1>1. q \in Rows /\ q.attempts = r.attempts
  BY DEF ReleaseLease, Rows, Moments
<1>2. \A a : Backoff(a) \in Nat
  BY SizesAssumption DEF Backoff, SizesAssumption
<1> HIDE DEF q
<1>3. /\ [q EXCEPT !.status = "completed"] \in Rows
      /\ [q EXCEPT !.status = "cancelled"] \in Rows
      /\ [q EXCEPT !.status = "failed"] \in Rows
  BY <1>1 DEF Rows, Statuses, Terminal
<1>4. \A m \in Moments : [q EXCEPT !.status = "retrying", !.run_after = m] \in Rows
  BY <1>1 DEF Rows, Statuses, Waiting
<1>5. [q EXCEPT !.status = "queued", !.run_after = Null, !.attempts = 0] \in Rows
  BY <1>1 DEF Rows, Statuses, Waiting, Moments
<1>6. ASSUME NEW retryable \in BOOLEAN PROVE Failed(r, retryable) \in Rows
  BY <1>2, <1>3, <1>4 DEF Failed, Moments, q
<1>7. Reaped(r) \in Rows
  BY <1>3, <1>4 DEF Reaped, Moments, q
<1>8. ElapseRow(r) \in Rows
  <2>1. \A m \in Moments : Elapse(m) \in Moments
    BY DEF Elapse, Moments
  <2> QED BY <2>1 DEF ElapseRow, Rows
<1>9. ASSUME NEW w \in Workers PROVE Claimed(r, w) \in Rows
  <2>1. LeaseMinutes \in Moments
    BY SizesAssumption DEF Moments, SizesAssumption
  <2>2. r.attempts + 1 \in Nat
    BY DEF Rows
  <2> QED BY <2>1, <2>2 DEF Claimed, Rows, Statuses
<1> QED BY <1>1, <1>3, <1>5, <1>6, <1>7, <1>8, <1>9
        DEF q, Completed, Cancelled, Retried

\* Merging an ORM write into the current row yields a row.
LEMMA OrmUpdateType ==
    ASSUME NEW now \in Rows, NEW seen \in Rows, NEW new \in Rows
    PROVE  OrmUpdate(now, seen, new) \in Rows
<1>1. \A column \in {"status", "attempts", "locked_by", "lease", "run_after"} :
         Column(now[column], seen[column], new[column]) \in {now[column], new[column]}
  BY DEF Column
<1> QED BY <1>1 DEF OrmUpdate, Rows

\* A row that enqueue() inserts is well typed.
LEMMA NewRowType ==
    ASSUME NEW key \in Keys \cup {NoKey}, NEW delay \in Moments
    PROVE  NewRow(key, delay) \in Rows
BY DEF NewRow, Rows, Moments, Statuses, Waiting

-----------------------------------------------------------------------------
(* Type correctness and locking.                                           *)

\* Who may touch a row: an unlocked row has no uncommitted version, and the
\* job a worker runs and the candidates it has left are rows it has locked.
\* A worker waits for a key only inside a cycle.
Locking ==
    /\ \A j \in Jobs : lock[j] = Nobody => draft[j] = row[j]
    /\ \A w \in Workers : current[w] # Null =>
          lock[current[w]] = w /\ pc[w] = "work"
    /\ \A w \in Workers : \A j \in todo[w] : lock[j] = w /\ pc[w] = "work"
    /\ \A w \in Workers : wanted[w] # NoKey => pc[w] # "idle"

Inv == Typed /\ Locking

\* The invariant holds before any session has started.
LEMMA InitInv == Init => Inv
<1> SUFFICES ASSUME Init PROVE Inv
  OBVIOUS
<1> USE DEF Init
<1>1. Null \in Moments
  BY DEF Moments
<1>2. NewRow(NoKey, Null) \in Rows /\ AbsentRow \in Rows
  BY <1>1, NewRowType DEF AbsentRow, NewRow, Rows, Statuses
<1>3. row \in [Jobs -> Rows] /\ draft \in [Jobs -> Rows]
  BY <1>2
<1>4. \A w \in Workers : DOMAIN expired[w] = {}
  BY DEF NoneLoaded
<1>5. Typed
  <2>1. 0 \in 0..Cap /\ 0 \in 0..MaxAborts /\ 0 \in 0..MaxOrphans
    BY SizesAssumption DEF SizesAssumption
  <2>2. req \in [Requests -> RequestStates]
    BY DEF RequestStates
  <2> QED BY <1>3, <1>4, <2>1, <2>2 DEF Typed
<1>6. Locking
  BY DEF Locking, Sessions
<1> QED BY <1>5, <1>6 DEF Inv

\* What the transaction primitives do to the database.
LEMMA WriteRowInv ==
    ASSUME Inv, NEW s \in Sessions, NEW j \in Jobs, NEW new \in Rows,
           WriteRow(s, j, new)
    PROVE  /\ row' = row
           /\ draft' \in [Jobs -> Rows] /\ lock' \in [Jobs -> Sessions \cup {Nobody}]
           /\ wanted' \in [Sessions -> Keys \cup {NoKey}]
           /\ \A t \in Sessions : wanted'[t] \in {NoKey, wanted[t]}
           /\ \A k \in Jobs : lock'[k] = Nobody => draft'[k] = row'[k]
           /\ \A k \in Jobs : lock[k] = s => lock'[k] = s
           /\ \A k \in Jobs : lock[k] # Nobody => lock'[k] = lock[k]
           /\ lock'[j] = s
BY NamesAssumption DEF WriteRow, Inv, Typed, Locking, NamesAssumption

\* COMMIT publishes the session's versions and gives up its locks only.
LEMMA CommitInv ==
    ASSUME Inv, NEW s \in Sessions, CommitOf(s)
    PROVE  /\ row' \in [Jobs -> Rows] /\ draft' \in [Jobs -> Rows]
           /\ lock' \in [Jobs -> Sessions \cup {Nobody}]
           /\ wanted' = wanted
           /\ \A k \in Jobs : lock'[k] = Nobody => draft'[k] = row'[k]
           /\ \A k \in Jobs : lock[k] # s => lock'[k] = lock[k] /\ row'[k] = row[k]
BY NamesAssumption DEF CommitOf, View, Inv, Typed, Locking, NamesAssumption

\* ROLLBACK discards the session's versions and leaves committed rows alone.
LEMMA RollbackInv ==
    ASSUME Inv, NEW s \in Sessions, RollbackOf(s)
    PROVE  /\ row' = row /\ draft' \in [Jobs -> Rows]
           /\ lock' \in [Jobs -> Sessions \cup {Nobody}]
           /\ wanted' \in [Sessions -> Keys \cup {NoKey}] /\ wanted'[s] = NoKey
           /\ \A t \in Sessions : wanted'[t] \in {NoKey, wanted[t]}
           /\ \A k \in Jobs : lock'[k] = Nobody => draft'[k] = row'[k]
           /\ \A k \in Jobs : lock[k] # s => lock'[k] = lock[k]
BY NamesAssumption DEF RollbackOf, Inv, Typed, Locking, NamesAssumption

\* The saturating observation counters stay within their bound.
LEMMA BumpType == \A n \in 0..Cap : Bump(n) \in 0..Cap
BY SizesAssumption DEF Bump, SizesAssumption

\* Every step of a worker preserves the invariant.
LEMMA WorkerInv ==
    ASSUME Inv, NEW w \in Workers, WorkerStep(w) \/ WorkerChoice(w)
    PROVE  Inv'
<1> w \in Sessions /\ Workers \subseteq Sessions
  BY DEF Sessions
<1>a. \A v \in Workers : v # Nobody
  BY NamesAssumption DEF NamesAssumption, Sessions
<1>b. /\ \A v \in Workers : current[v] # Null => current[v] \in Jobs
      /\ \A v \in Workers : \A j \in todo[v] : j \in Jobs
      /\ Null \notin Jobs
  BY NamesAssumption DEF Inv, Typed, NamesAssumption
<1> USE DEF Inv
<1>1. CASE StartCycle(w)
  <2> DEFINE lapsed == {j \in Jobs : LeaseLapsed(row[j])}
  <2>1. [j \in lapsed |-> row[j]] \in [lapsed -> Rows]
    BY DEF Typed
  <2>2. Typed'
    BY <1>1, <2>1 DEF StartCycle, Goto, db, observed, Typed
  <2>3. Locking'
    BY <1>1 DEF StartCycle, Goto, db, observed, Typed, Locking
  <2> QED BY <2>2, <2>3
<1>2. CASE Reap(w)
  <2> DEFINE lapsed == DOMAIN expired[w]
             merged(j) == OrmUpdate(row[j], expired[w][j], Reaped(expired[w][j]))
  <2>1. \A j \in lapsed : /\ merged(j) \in Rows
                          /\ [merged(j) EXCEPT !.run_after = 0] \in Rows
    <3> SUFFICES ASSUME NEW j \in lapsed
                 PROVE  merged(j) \in Rows /\ [merged(j) EXCEPT !.run_after = 0] \in Rows
      OBVIOUS
    <3>1. merged(j) \in Rows
      BY RowOperations, OrmUpdateType DEF Typed
    <3> HIDE DEF merged
    <3> QED BY <3>1 DEF Rows, Moments
  <2> HIDE DEF merged
  <2>2. Typed'
    BY <1>2, <2>1 DEF Reap, Goto, observed, Typed, NoneLoaded, Sessions, merged
  <2>3. Locking'
    BY <1>2, <1>a, <1>b DEF Reap, Goto, observed, Typed, Locking
  <2> QED BY <2>2, <2>3
<1>3. CASE Scan(w)
  <2>1. Typed'
    BY <1>3 DEF Scan, Goto, observed, Typed
  <2>2. Locking'
    BY <1>3, <1>a, <1>b DEF Scan, Goto, observed, Typed, Locking, View
  <2> QED BY <2>1, <2>2
<1>4. CASE Claim(w)
  <2>1. PICK j \in Jobs : Claim(w)!(j)
    BY <1>4 DEF Claim
  <2>2. Claimed(draft[j], w) \in Rows
    BY RowOperations DEF Typed
  <2>3. Typed'
    BY <2>1, <2>2, WriteRowInv, BumpType DEF Typed
  <2>4. Locking'
    BY <2>1, <2>2, <1>a, <1>b, WriteRowInv DEF Typed, Locking, IsOldest
  <2> QED BY <2>3, <2>4
<1>5. ASSUME NEW new \in Rows, Settle(w, new), current[w] \in Jobs,
             succeeded' \in [Jobs -> 0..Cap]
      PROVE  Inv'
  <2>1. Typed'
    BY <1>5, WriteRowInv DEF Settle, Typed
  <2>2. Locking'
    BY <1>5, <1>a, <1>b, WriteRowInv DEF Settle, Typed, Locking
  <2> QED BY <2>1, <2>2
<1>6. CASE Complete(w)
  <2>1. current[w] \in Jobs /\ Completed(draft[current[w]]) \in Rows
    BY <1>6, RowOperations DEF Complete, Typed
  <2>2. succeeded' \in [Jobs -> 0..Cap]
    BY <1>6, BumpType DEF Complete, Typed
  <2> QED BY <1>5, <1>6, <2>1, <2>2 DEF Complete
<1>7. CASE Fail(w)
  <2>1. /\ current[w] \in Jobs
        /\ Failed(draft[current[w]], current[w] \notin Unhandled) \in Rows
    BY <1>7, RowOperations DEF Fail, Typed
  <2>2. succeeded' \in [Jobs -> 0..Cap]
    BY <1>7 DEF Fail, Typed
  <2> QED BY <1>5, <1>7, <2>1, <2>2 DEF Fail
<1>8. CASE Commit(w) /\ wanted[w] = NoKey
  <2>1. Typed'
    BY <1>8, CommitInv DEF Commit, Goto, observed, Typed
  <2>2. Locking'
    BY <1>8, CommitInv DEF Commit, Goto, observed, Typed, Locking
  <2> QED BY <2>1, <2>2
<1>9. ASSUME NEW j \in Jobs, NEW key \in Keys, Insert(w, j, key, 0),
             UNCHANGED <<worker, req, observed>>
      PROVE  Inv'
  <2>1. NewRow(key, 0) \in Rows
    BY NewRowType DEF Moments
  <2>2. Typed'
    BY <1>9, <2>1, WriteRowInv DEF Insert, worker, observed, Typed
  <2>3. Locking'
    BY <1>9, <2>1, <1>a, <1>b, WriteRowInv
       DEF Insert, worker, observed, Typed, Locking
  <2> QED BY <2>2, <2>3
<1>9a. ASSUME UNCHANGED <<row, draft, lock, worker, req, observed>>,
              wanted' \in [Sessions -> Keys \cup {NoKey}],
              \A v \in Workers : wanted'[v] # NoKey => pc[v] # "idle"
       PROVE  Inv'
  BY <1>9a DEF worker, observed, Typed, Locking
<1>10. CASE \E key \in Keys : EnsureTick(w, key) \/ HandlerEnqueue(w, key, 0)
  <2>1. PICK key \in Keys : EnsureTick(w, key) \/ HandlerEnqueue(w, key, 0)
    BY <1>10
  <2>2. CASE \E j \in Jobs : Insert(w, j, key, 0)
    BY <1>9, <2>1, <2>2 DEF EnsureTick, HandlerEnqueue
  <2>3. CASE WaitForKey(w, key)
    BY <1>9a, <2>1, <2>3, <1>b DEF EnsureTick, HandlerEnqueue, WaitForKey, Typed, Locking
  <2> QED BY <2>1, <2>2, <2>3 DEF EnsureTick, HandlerEnqueue
<1>13. CASE KeyWon(w)
  <2>1. wanted[w] \in Keys
    BY <1>13 DEF KeyWon, Typed
  <2>2. CASE \E j \in Jobs : Insert(w, j, wanted[w], 0)
    BY <1>9, <1>13, <2>1, <2>2 DEF KeyWon
  <2>3. CASE wanted' = [wanted EXCEPT ![w] = NoKey] /\ UNCHANGED <<row, draft, lock>>
    BY <1>9a, <1>13, <2>3 DEF KeyWon, Typed, Locking
  <2> QED BY <1>13, <2>2, <2>3 DEF KeyWon
<1>11. ASSUME RollbackOf(w), ResetCycle(w), aborts' \in 0..MaxAborts, losses' \in 0..Cap
       PROVE  Inv'
  <2>1. Typed'
    BY <1>11, RollbackInv DEF ResetCycle, Goto, Typed, NoneLoaded
  <2>2. Locking'
    BY <1>11, RollbackInv DEF ResetCycle, Goto, Typed, Locking
  <2> QED BY <2>1, <2>2
<1>14. CASE AbortCycle(w) \/ LoseCycle(w)
  <2>1. aborts' \in 0..MaxAborts /\ losses' \in 0..Cap
    BY <1>14, BumpType, SizesAssumption
       DEF AbortCycle, LoseCycle, KeyLost, Typed, SizesAssumption
  <2> QED BY <1>11, <1>14, <2>1 DEF AbortCycle, LoseCycle, KeyLost
<1>12. ASSUME NEW j \in Jobs, AbandonClaim(w, j) PROVE Inv'
  <2>1. Claimed(row[j], w) \in Rows
    BY RowOperations DEF Typed
  <2>2. Typed'
    BY <1>12, <2>1, SizesAssumption DEF AbandonClaim, worker, Typed, SizesAssumption
  <2>3. Locking'
    BY <1>12 DEF AbandonClaim, worker, Typed, Locking
  <2> QED BY <2>2, <2>3
<1> QED
  BY <1>1, <1>2, <1>3, <1>4, <1>6, <1>7, <1>8, <1>10, <1>12, <1>13, <1>14
     DEF WorkerStep, WorkerChoice

\* Every step of a request preserves the invariant.
LEMMA RequestInv ==
    ASSUME Inv, NEW r \in Requests, RequestStep(r) \/ RequestCommit(r)
    PROVE  Inv'
<1> r \in Sessions /\ Workers \subseteq Sessions
  BY DEF Sessions
<1>a. \A v \in Workers : v # Nobody /\ v # r
  BY NamesAssumption DEF NamesAssumption, Sessions
<1>b. /\ \A v \in Workers : current[v] # Null => current[v] \in Jobs
      /\ \A v \in Workers : \A j \in todo[v] : j \in Jobs
      /\ Null \notin Jobs
  BY NamesAssumption DEF Inv, Typed, NamesAssumption
<1> USE DEF Inv
<1>1. ASSUME NEW key \in Keys \cup {NoKey}, RequestEnqueue(r, key, Null)
      PROVE  Inv'
  <2>1. PICK j \in Jobs :
          /\ WriteRow(r, j, NewRow(key, Null))
          /\ req' = [req EXCEPT ![r] = [phase |-> "enqueued", op |-> "enqueue",
                                        job |-> j, seen |-> key]]
    BY <1>1 DEF RequestEnqueue, Insert
  <2>2. NewRow(key, Null) \in Rows
    BY NewRowType DEF Moments
  <2>3. req' \in [Requests -> RequestStates]
    BY <2>1 DEF Typed, RequestStates
  <2>4. UNCHANGED <<worker, observed>>
    BY <1>1 DEF RequestEnqueue
  <2>5. Typed'
    BY <2>1, <2>2, <2>3, <2>4, WriteRowInv DEF worker, observed, Typed
  <2>6. Locking'
    BY <2>1, <2>2, <2>4, <1>a, <1>b, WriteRowInv DEF worker, observed, Typed, Locking
  <2> QED BY <2>5, <2>6
<1>2. ASSUME NEW key \in Keys, RequestEnqueueAgain(r, key) PROVE Inv'
  <2>1. req' \in [Requests -> RequestStates]
    BY <1>2 DEF RequestEnqueueAgain, Visible, Typed, RequestStates
  <2> QED BY <1>2, <2>1 DEF RequestEnqueueAgain, db, worker, observed, Typed, Locking
<1>3. ASSUME NEW phase \in {"done", "refused"}, RequestIs(r, "enqueued"),
             req' = [req EXCEPT ![r].phase = phase]
      PROVE  req' \in [Requests -> RequestStates]
  <2>1. req[r] \in [phase : {"enqueued", "done", "refused"}, op : {"enqueue"},
                    job : Jobs, seen : Keys \cup {NoKey}]
    BY <1>3 DEF RequestIs, Typed, RequestStates, NoRequest
  <2>2. [req[r] EXCEPT !.phase = phase] \in RequestStates
    BY <2>1 DEF RequestStates
  <2> QED BY <1>3, <2>2 DEF Typed
<1>4. CASE RequestCommit(r)
  <2>1. Typed'
    BY <1>4, <1>3, CommitInv DEF RequestCommit, worker, observed, Typed
  <2>2. Locking'
    BY <1>4, <1>a, <1>b, CommitInv DEF RequestCommit, worker, observed, Typed, Locking
  <2> QED BY <2>1, <2>2
<1>5. CASE RequestRollback(r)
  <2>1. Typed'
    BY <1>5, <1>3, RollbackInv DEF RequestRollback, worker, observed, Typed
  <2>2. Locking'
    BY <1>5, <1>a, <1>b, RollbackInv DEF RequestRollback, worker, observed, Typed, Locking
  <2> QED BY <2>1, <2>2
<1>6. ASSUME NEW j \in Jobs, NEW op \in {"cancel", "retry"}, RequestLoad(r, j, op)
      PROVE  Inv'
  <2>1. req' \in [Requests -> RequestStates]
    BY <1>6 DEF RequestLoad, Typed, RequestStates
  <2> QED BY <1>6, <2>1 DEF RequestLoad, db, worker, observed, Typed, Locking
<1>7. CASE RequestWrite(r)
  <2> DEFINE j    == req[r].job
             seen == req[r].seen
             new  == IF req[r].op = "cancel" THEN Cancelled(seen) ELSE Retried(seen)
             out  == OrmUpdate(row[j], seen, new)
  <2>1. req[r] \in [phase : {"loaded", "done"}, op : {"cancel", "retry"},
                    job : Jobs, seen : Rows]
    BY <1>7 DEF RequestWrite, RequestIs, Typed, RequestStates, NoRequest
  <2>2. j \in Jobs /\ seen \in Rows
    BY <2>1
  <2>3. out \in Rows
    <3>1. new \in Rows /\ row[j] \in Rows
      BY <2>2, RowOperations DEF Typed
    <3> QED BY <2>2, <3>1, OrmUpdateType
  <2>4. [req[r] EXCEPT !.phase = "done"] \in RequestStates
    BY <2>1 DEF RequestStates
  <2>5. /\ lock[j] = Nobody /\ lock' = lock
        /\ row' = [row EXCEPT ![j] = out] /\ draft' = [draft EXCEPT ![j] = out]
        /\ req' = [req EXCEPT ![r].phase = "done"]
        /\ UNCHANGED <<wanted, worker, observed>>
    BY <1>7 DEF RequestWrite
  <2> HIDE DEF j, out
  <2>6. Typed'
    BY <2>2, <2>3, <2>4, <2>5 DEF worker, observed, Typed
  <2>7. Locking'
    BY <2>2, <2>5 DEF worker, observed, Typed, Locking
  <2> QED BY <2>6, <2>7
<1>8. ASSUME NEW key \in Keys, RequestWait(r, key) PROVE Inv'
  <2>1. wanted' = [wanted EXCEPT ![r] = key]
    BY <1>8 DEF RequestWait, WaitForKey
  <2>2. UNCHANGED <<row, draft, lock, worker, req, observed>>
    BY <1>8 DEF RequestWait, WaitForKey
  <2>3. Typed'
    BY <2>1, <2>2 DEF worker, observed, Typed
  <2>4. Locking'
    BY <2>1, <2>2, <1>a DEF worker, Typed, Locking
  <2> QED BY <2>3, <2>4
<1>9. CASE RequestLoses(r)
  <2>1. [NoRequest EXCEPT !.phase = "refused"] \in RequestStates
    BY DEF RequestStates
  <2>2. Typed'
    BY <1>9, <2>1, RollbackInv, BumpType DEF RequestLoses, KeyLost, worker, Typed
  <2>3. Locking'
    BY <1>9, <1>a, <1>b, RollbackInv DEF RequestLoses, KeyLost, worker, Typed, Locking
  <2> QED BY <2>2, <2>3
<1> QED
  BY <1>1, <1>2, <1>4, <1>5, <1>6, <1>7, <1>8, <1>9 DEF RequestStep

\* The passing of time preserves the invariant.
LEMMA TickInv == ASSUME Inv, Tick PROVE Inv'
<1> USE DEF Inv
<1>1. Typed'
  BY RowOperations DEF Tick, worker, observed, Typed
<1>2. Locking'
  BY DEF Tick, worker, observed, Typed, Locking
<1> QED BY <1>1, <1>2

\* Every step, and a stutter, preserves the invariant.
LEMMA NextInv == Inv /\ [Next]_vars => Inv'
<1> SUFFICES ASSUME Inv, [Next]_vars PROVE Inv'
  OBVIOUS
<1>1. CASE UNCHANGED vars
  BY <1>1 DEF vars, Inv, Typed, Locking
<1> QED BY <1>1, WorkerInv, RequestInv, TickInv DEF Next

\* The state stays within its types, and row locks tell who runs what.
THEOREM TypeAndLocking == Spec => []Inv
<1> QED BY InitInv, NextInv, PTL DEF Spec

\* No two workers ever run the same job at the same time: a running job's row
\* is locked by its worker, and a row has one lock.
THEOREM OneExecutorPerJob == Spec => []SingleExecutor
<1>1. Inv => SingleExecutor
  BY DEF Inv, Typed, Locking, SingleExecutor
<1> QED BY <1>1, TypeAndLocking, PTL

-----------------------------------------------------------------------------
(* A deployment in which no session commits a claim and dies: worker.py    *)
(* never does.  RUNNING is then never committed, and a candidate stays     *)
(* startable until its worker reaches it.                                  *)

Unclaimed ==
    /\ \A j \in Jobs : row[j].status # "running"
    /\ \A j \in Jobs : draft[j].status = "running" =>
          \E w \in Workers : current[w] = j
    /\ \A w \in Workers : pc[w] # "reap"
    /\ \A w \in Workers, j \in Jobs : lock[j] = w =>
          /\ pc[w] # "idle"
          /\ pc[w] = "prepare" => row[j].status = "absent"
    /\ \A w \in Workers : \A j \in todo[w] : Startable(row[j])
    /\ \A w \in Workers : current[w] # Null => draft[current[w]].status = "running"

\* No request ever writes a running row, and a run never stays running.
LEMMA WriteStatus ==
    ASSUME NEW r \in Rows, NEW seen \in Rows
    PROVE  /\ \A retryable \in BOOLEAN : Failed(r, retryable).status # "running"
           /\ Completed(r).status # "running"
           /\ seen.status \in Waiting =>
                OrmUpdate(r, seen, Cancelled(seen)).status = "cancelled"
           /\ seen.status = "failed" =>
                OrmUpdate(r, seen, Retried(seen)).status = "queued"
           /\ ElapseRow(r).status = r.status
           /\ Startable(r) => Startable(ElapseRow(r))
           /\ \A w \in Workers : Claimed(r, w).status = "running"
           /\ \A key, delay : NewRow(key, delay).status = "queued"
<1>1. \A retryable \in BOOLEAN : Failed(r, retryable).status # "running"
  BY DEF Failed, ReleaseLease, Rows
<1>2. Completed(r).status # "running"
  BY DEF Completed, ReleaseLease, Rows
<1>3. seen.status \in Waiting =>
        OrmUpdate(r, seen, Cancelled(seen)).status = "cancelled"
  BY DEF OrmUpdate, Column, Cancelled, ReleaseLease, Rows, Waiting
<1>4. seen.status = "failed" =>
        OrmUpdate(r, seen, Retried(seen)).status = "queued"
  BY DEF OrmUpdate, Column, Retried, ReleaseLease, Rows
<1>5. ElapseRow(r).status = r.status
  BY DEF ElapseRow, Rows
<1>6. Startable(r) => Startable(ElapseRow(r))
  BY NamesAssumption DEF Startable, ElapseRow, Elapse, Rows, Waiting, NamesAssumption
<1>7. \A w \in Workers : Claimed(r, w).status = "running"
  BY DEF Claimed, Rows
<1>8. \A key, delay : NewRow(key, delay).status = "queued"
  BY DEF NewRow
<1> QED BY <1>1, <1>2, <1>3, <1>4, <1>5, <1>6, <1>7, <1>8

\* The row a request has loaded has the status its operation checked.
LoadedStatus ==
    \A r \in Requests : req[r].phase = "loaded" =>
        \/ req[r].op = "cancel" /\ req[r].seen.status \in Waiting
        \/ req[r].op = "retry" /\ req[r].seen.status = "failed"

\* Nothing is claimed and no request has loaded a row initially.
LEMMA InitUnclaimed == Init => Unclaimed /\ LoadedStatus
BY NamesAssumption, WriteStatus
   DEF Init, Unclaimed, LoadedStatus, NoRequest, NewRow, AbsentRow, NamesAssumption, Sessions

\* Only RequestLoad creates a loaded request, and it checks the status.
LEMMA LoadedKept == Inv /\ LoadedStatus /\ Next => LoadedStatus'
<1> SUFFICES ASSUME Inv, LoadedStatus, Next PROVE LoadedStatus'
  OBVIOUS
<1>1. CASE req' = req
  BY <1>1 DEF LoadedStatus
<1>2. ASSUME NEW r \in Requests, RequestStep(r) \/ RequestCommit(r) PROVE LoadedStatus'
  <2>1. CASE \E j \in Jobs, op \in {"cancel", "retry"} : RequestLoad(r, j, op)
    BY <2>1 DEF RequestLoad, LoadedStatus, Inv, Typed
  <2>2. CASE RequestWrite(r) \/ RequestCommit(r) \/ RequestRollback(r)
    <3>1. PICK p \in {"done", "refused"} : req' = [req EXCEPT ![r].phase = p]
      BY <2>2 DEF RequestWrite, RequestCommit, RequestRollback
    <3>2. [req[r] EXCEPT !.phase = p].phase = p
      BY DEF Inv, Typed, RequestStates, NoRequest
    <3>3. /\ req'[r].phase # "loaded"
          /\ \A q \in Requests : q # r => req'[q] = req[q]
      BY <3>1, <3>2 DEF Inv, Typed
    <3> QED BY <3>3 DEF LoadedStatus
  <2>3. CASE \/ \E key \in Keys \cup {NoKey} : RequestEnqueue(r, key, Null)
             \/ \E key \in Keys : RequestEnqueueAgain(r, key)
    BY <2>3 DEF RequestEnqueue, RequestEnqueueAgain, LoadedStatus, Inv, Typed
  <2>4. CASE RequestLoses(r)
    <3>1. req' = [req EXCEPT ![r] = [NoRequest EXCEPT !.phase = "refused"]]
      BY <2>4 DEF RequestLoses
    <3>2. req'[r].phase = "refused" /\ \A q \in Requests : q # r => req'[q] = req[q]
      BY <3>1 DEF NoRequest, Inv, Typed
    <3> QED BY <3>2 DEF LoadedStatus
  <2>5. CASE \E key \in Keys : RequestWait(r, key)
    BY <2>5, <1>1 DEF RequestWait
  <2> QED BY <1>2, <2>1, <2>2, <2>3, <2>4, <2>5 DEF RequestStep
<1>3. ASSUME NEW w \in Workers, WorkerStep(w) \/ WorkerChoice(w) PROVE req' = req
  BY <1>3 DEF WorkerStep, WorkerChoice, StartCycle, Reap, Scan, Claim, Complete, Fail,
              Settle, Commit, EnsureTick, HandlerEnqueue, KeyWon, AbortCycle, LoseCycle,
              ResetCycle, AbandonClaim
<1>4. Tick => req' = req
  BY DEF Tick
<1> QED BY <1>1, <1>2, <1>3, <1>4 DEF Next

\* A worker that commits no claim never publishes RUNNING, and its candidates
\* stay startable while it holds their locks.
LEMMA WorkerUnclaimed ==
    ASSUME MaxOrphans = 0, Inv, Inv', Unclaimed, NEW w \in Workers,
           WorkerStep(w) \/ WorkerChoice(w)
    PROVE  Unclaimed'
<1> w \in Sessions /\ Workers \subseteq Sessions
  BY DEF Sessions
<1>a. \A v \in Workers : v # Nobody
  BY NamesAssumption DEF NamesAssumption, Sessions
<1>b. /\ \A v \in Workers : current[v] # Null => current[v] \in Jobs
      /\ \A v \in Workers : \A j \in todo[v] : j \in Jobs
      /\ Null \notin Jobs
  BY NamesAssumption DEF Inv, Typed, NamesAssumption
<1>c. \A j \in Jobs : row[j] \in Rows /\ draft[j] \in Rows
  BY DEF Inv, Typed
<1> USE DEF Inv
<1>1. CASE StartCycle(w)
  BY <1>1 DEF StartCycle, Goto, db, observed, Typed, Unclaimed, LeaseLapsed
<1>2. CASE Reap(w)
  BY <1>2 DEF Reap, Unclaimed
<1>3. CASE Scan(w)
  <2>1. \A j \in todo'[w] : Startable(row[j])
    BY <1>3, <1>a, <1>c DEF Scan, Typed, Unclaimed, Claimable, LeaseLapsed, Due, View,
                          Startable, Waiting
  <2> QED BY <1>3, <2>1, <1>a, <1>b DEF Scan, Goto, observed, Typed, Unclaimed
<1>4. CASE Claim(w)
  <2>1. PICK j \in Jobs : Claim(w)!(j)
    BY <1>4 DEF Claim
  <2>2. Claimed(draft[j], w) \in Rows /\ Claimed(draft[j], w).status = "running"
    BY <1>c, RowOperations, WriteStatus
  <2> QED BY <2>1, <2>2, <1>a, <1>b DEF WriteRow, Typed, Locking, Unclaimed, IsOldest
<1>5. ASSUME NEW new \in Rows, Settle(w, new), current[w] \in Jobs,
             new.status # "running"
      PROVE  Unclaimed'
  BY <1>5, <1>a, <1>b DEF Settle, WriteRow, Typed, Locking, Unclaimed
<1>6. CASE Complete(w) \/ Fail(w)
  <2>1. current[w] \in Jobs
    BY <1>6 DEF Complete, Fail
  <2> DEFINE r == draft[current[w]]
  <2>2. r \in Rows
    BY <2>1, <1>c
  <2>3. CASE Complete(w)
    <3>1. Completed(r) \in Rows /\ Completed(r).status # "running"
      BY <2>2, RowOperations, WriteStatus
    <3> QED BY <1>5, <2>1, <2>3, <3>1 DEF Complete
  <2>4. CASE Fail(w)
    <3> DEFINE new == Failed(r, current[w] \notin Unhandled)
    <3>1. new \in Rows /\ new.status # "running"
      BY <2>2, RowOperations, WriteStatus
    <3>2. Settle(w, new)
      BY <2>4 DEF Fail
    <3> QED BY <1>5, <2>1, <3>1, <3>2
  <2> QED BY <1>6, <2>3, <2>4
<1>7. CASE Commit(w)
  <2>1. \A j \in Jobs : lock[j] = w => draft[j].status # "running"
    BY <1>7, <1>b DEF Commit, Typed, Locking, Unclaimed
  <2> QED BY <1>7, <2>1, <1>a, <1>b
          DEF Commit, CommitOf, View, Goto, observed, Typed, Locking, Unclaimed
<1>8. ASSUME NEW j \in Jobs, NEW key \in Keys, Insert(w, j, key, 0),
             UNCHANGED <<worker, req, observed>>, pc[w] # "idle"
      PROVE  Unclaimed'
  <2>1. NewRow(key, 0) \in Rows /\ NewRow(key, 0).status = "queued"
    BY NewRowType, <1>c, WriteStatus DEF Moments
  <2>2. row[j].status = "absent" /\ lock[j] = Nobody
    BY <1>8 DEF Insert, IsOldest, FreshSlots
  <2> QED BY <1>8, <2>1, <2>2, <1>a, <1>b
          DEF Insert, WriteRow, worker, observed, Typed, Locking, Unclaimed
<1>9. CASE \E key \in Keys : EnsureTick(w, key) \/ HandlerEnqueue(w, key, 0)
  <2>1. PICK key \in Keys : EnsureTick(w, key) \/ HandlerEnqueue(w, key, 0)
    BY <1>9
  <2>2. pc[w] # "idle" /\ UNCHANGED <<worker, req, observed>>
    BY <2>1, <1>b DEF EnsureTick, HandlerEnqueue, Locking
  <2>3. CASE \E j \in Jobs : Insert(w, j, key, 0)
    BY <1>8, <2>2, <2>3
  <2>4. CASE UNCHANGED <<row, draft, lock, worker>>
    BY <2>4 DEF worker, Unclaimed
  <2> QED BY <2>1, <2>2, <2>3, <2>4 DEF EnsureTick, HandlerEnqueue, WaitForKey
<1>12. CASE KeyWon(w)
  <2>1. wanted[w] \in Keys /\ pc[w] # "idle"
    BY <1>12 DEF KeyWon, Typed, Locking
  <2>2. CASE \E j \in Jobs : Insert(w, j, wanted[w], 0)
    BY <1>8, <1>12, <2>1, <2>2 DEF KeyWon
  <2>3. CASE UNCHANGED <<row, draft, lock, worker>>
    BY <2>3 DEF worker, Unclaimed
  <2> QED BY <1>12, <2>2, <2>3 DEF KeyWon
<1>10. CASE AbortCycle(w) \/ LoseCycle(w)
  <2>1. RollbackOf(w) /\ ResetCycle(w)
    BY <1>10 DEF AbortCycle, LoseCycle, KeyLost
  <2> QED BY <2>1, <1>a, <1>b DEF ResetCycle, RollbackOf, Goto, Typed, Locking, Unclaimed
<1>11. ~ \E j \in Jobs : AbandonClaim(w, j)
  BY DEF AbandonClaim, Typed
<1> QED
  BY <1>1, <1>2, <1>3, <1>4, <1>6, <1>7, <1>9, <1>10, <1>11, <1>12 DEF WorkerStep, WorkerChoice

\* No request publishes RUNNING or touches a row a worker has locked.
LEMMA RequestUnclaimed ==
    ASSUME Inv, Unclaimed, LoadedStatus, NEW r \in Requests,
           RequestStep(r) \/ RequestCommit(r)
    PROVE  Unclaimed'
<1> r \in Sessions /\ Workers \subseteq Sessions
  BY DEF Sessions
<1>a. \A v \in Workers : v # Nobody /\ v # r
  BY NamesAssumption DEF NamesAssumption, Sessions
<1>b. /\ \A v \in Workers : current[v] # Null => current[v] \in Jobs
      /\ \A v \in Workers : \A j \in todo[v] : j \in Jobs
      /\ Null \notin Jobs
  BY NamesAssumption DEF Inv, Typed, NamesAssumption
<1>c. \A j \in Jobs : row[j] \in Rows /\ draft[j] \in Rows
  BY DEF Inv, Typed
<1> USE DEF Inv
<1>1. ASSUME NEW key \in Keys \cup {NoKey}, RequestEnqueue(r, key, Null)
      PROVE  Unclaimed'
  <2>1. PICK j \in Jobs : WriteRow(r, j, NewRow(key, Null)) /\ lock[j] = Nobody
    BY <1>1 DEF RequestEnqueue, Insert, IsOldest, FreshSlots
  <2>2. NewRow(key, Null).status = "queued"
    BY <1>c, WriteStatus
  <2>3. UNCHANGED worker
    BY <1>1 DEF RequestEnqueue
  <2> QED BY <2>1, <2>2, <2>3, <1>a, <1>b DEF WriteRow, worker, Typed, Locking, Unclaimed
<1>2. CASE RequestCommit(r)
  BY <1>2, <1>a, <1>b
     DEF RequestCommit, CommitOf, View, worker, Typed, Locking, Unclaimed
<1>3. CASE RequestRollback(r)
  BY <1>3, <1>a, <1>b
     DEF RequestRollback, RollbackOf, worker, Typed, Locking, Unclaimed
<1>4. CASE RequestWrite(r)
  <2> DEFINE j    == req[r].job
             seen == req[r].seen
             new  == IF req[r].op = "cancel" THEN Cancelled(seen) ELSE Retried(seen)
             out  == OrmUpdate(row[j], seen, new)
  <2>1. req[r] \in [phase : {"loaded", "done"}, op : {"cancel", "retry"},
                    job : Jobs, seen : Rows]
    BY <1>4 DEF RequestWrite, RequestIs, Typed, RequestStates, NoRequest
  <2>2. j \in Jobs /\ seen \in Rows /\ row[j] \in Rows
    BY <2>1, <1>c
  <2>3. out.status # "running"
    <3>1. CASE req[r].op = "cancel" /\ seen.status \in Waiting
      BY <3>1, <2>2, WriteStatus
    <3>2. CASE req[r].op = "retry" /\ seen.status = "failed"
      BY <3>2, <2>2, WriteStatus
    <3> QED BY <3>1, <3>2, <1>4 DEF LoadedStatus, RequestWrite, RequestIs
  <2>4. /\ lock[j] = Nobody /\ lock' = lock
        /\ row' = [row EXCEPT ![j] = out] /\ draft' = [draft EXCEPT ![j] = out]
        /\ UNCHANGED worker
    BY <1>4 DEF RequestWrite
  <2> HIDE DEF j, out
  <2> QED BY <2>2, <2>3, <2>4, <1>a, <1>b DEF worker, Typed, Locking, Unclaimed
<1>5. CASE UNCHANGED <<db, worker>>
  BY <1>5 DEF db, worker, Unclaimed
<1>6. CASE RequestLoses(r)
  BY <1>6, <1>a, <1>b
     DEF RequestLoses, KeyLost, RollbackOf, worker, Typed, Locking, Unclaimed
<1>7. CASE \E key \in Keys : RequestWait(r, key)
  BY <1>7 DEF RequestWait, WaitForKey, worker, Unclaimed
<1> QED
  BY <1>1, <1>2, <1>3, <1>4, <1>5, <1>6, <1>7
     DEF RequestStep, RequestEnqueueAgain, RequestLoad

\* Time only brings run_after nearer, so candidates stay startable.
LEMMA TickUnclaimed == ASSUME Inv, Unclaimed, Tick PROVE Unclaimed'
<1>1. \A j \in Jobs : /\ row'[j].status = row[j].status
                      /\ draft'[j].status = draft[j].status
                      /\ Startable(row[j]) => Startable(row'[j])
  BY WriteStatus DEF Tick, Inv, Typed
<1>2. UNCHANGED <<lock, worker>>
  BY DEF Tick
<1>3. \A v \in Workers : /\ current[v] # Null => current[v] \in Jobs
                         /\ \A j \in todo[v] : j \in Jobs
  BY DEF Inv, Typed
<1> QED BY <1>1, <1>2, <1>3 DEF worker, Unclaimed

\* While no claim is abandoned, RUNNING is never committed and every candidate
\* stays startable.
THEOREM CandidatesStayStartable ==
    ASSUME MaxOrphans = 0
    PROVE  Spec => [](Inv /\ Unclaimed /\ LoadedStatus)
<1>1. Init => Inv /\ Unclaimed /\ LoadedStatus
  BY InitInv, InitUnclaimed
<1>2. Inv /\ Unclaimed /\ LoadedStatus /\ [Next]_vars => (Inv /\ Unclaimed /\ LoadedStatus)'
  <2> SUFFICES ASSUME Inv, Unclaimed, LoadedStatus, [Next]_vars
               PROVE  (Inv /\ Unclaimed /\ LoadedStatus)'
    OBVIOUS
  <2>1. Inv'
    BY NextInv
  <2>2. CASE UNCHANGED vars
    BY <2>1, <2>2 DEF vars, Unclaimed, LoadedStatus
  <2>3. CASE Next
    BY <2>1, <2>3, LoadedKept, WorkerUnclaimed, RequestUnclaimed, TickUnclaimed DEF Next
  <2> QED BY <2>2, <2>3
<1> QED BY <1>1, <1>2, PTL DEF Spec

\* A handler is only ever started for a job that is committed as runnable now.
THEOREM NoStaleStart ==
    ASSUME MaxOrphans = 0
    PROVE  Spec => RunsOnlyClaimable
<1> DEFINE Start == \A w \in Workers :
                      current'[w] # current[w] /\ current'[w] # Null =>
                          Startable(row[current'[w]])
<1>1. Inv /\ Unclaimed /\ [Next]_vars => [Start]_vars
  <2> SUFFICES ASSUME Inv, Unclaimed, Next, NEW w \in Workers,
                      current'[w] # current[w], current'[w] # Null
               PROVE  Startable(row[current'[w]])
    BY DEF vars
  <2>1. PICK v \in Workers : WorkerStep(v) \/ WorkerChoice(v)
    BY DEF Next, RequestStep, RequestEnqueue, RequestEnqueueAgain, RequestCommit,
           RequestRollback, RequestWait, RequestLoses, RequestLoad, RequestWrite,
           Tick, worker
  <2>2. Claim(v)
    BY <2>1 DEF WorkerStep, WorkerChoice, StartCycle, Reap, Scan, Complete, Fail, Settle,
                Commit, EnsureTick, HandlerEnqueue, KeyWon, AbortCycle, LoseCycle,
                ResetCycle, AbandonClaim, worker,
                Inv, Typed
  <2>3. w = v /\ current'[w] \in todo[w]
    BY <2>2 DEF Claim, IsOldest, Inv, Typed
  <2> QED BY <2>3 DEF Unclaimed
<1> QED BY <1>1, CandidatesStayStartable, PTL DEF Spec, RunsOnlyClaimable

-----------------------------------------------------------------------------
(* Deduplication: one job per key.  The newest version of every row, which *)
(* is draft, committed or not, decides who else may insert the key.        *)

Present(r) == r.status # "absent"

\* Rows never lose their key or their existence, not even in a draft, and no two
\* newest versions share a key.
KeysApart ==
    /\ \A j \in Jobs : ~ Present(draft[j]) => draft[j].key = NoKey
    /\ \A j \in Jobs : ~ Present(row[j]) => row[j].key = NoKey
    /\ \A j \in Jobs : Present(row[j]) => Present(draft[j]) /\ draft[j].key = row[j].key
    /\ \A i, j \in Jobs : draft[i].key # NoKey /\ draft[i].key = draft[j].key => i = j

\* The job a caller was told about carries the caller's key: in the caller's
\* transaction, and for everybody once that has committed.
ToldTo(r) ==
    req[r].op = "enqueue" =>
        /\ req[r].phase = "enqueued" =>
             Present(View(r, req[r].job)) /\ View(r, req[r].job).key = req[r].seen
        /\ req[r].phase = "done" =>
             Present(row[req[r].job]) /\ row[req[r].job].key = req[r].seen

Told == \A r \in Requests : ToldTo(r)

\* new is a later version of the row old.
Later(old, new) == new.key = old.key /\ (Present(old) => Present(new))

\* Nothing that was there is gone.
Kept(old, new) == Present(old) => Present(new) /\ new.key = old.key

\* Every operation on a row yields a later version of it.
LEMMA LaterVersions ==
    ASSUME NEW r \in Rows, NEW seen \in Rows
    PROVE  /\ Later(r, Completed(r))
           /\ \A retryable \in BOOLEAN : Later(r, Failed(r, retryable))
           /\ Later(r, ElapseRow(r))
           /\ \A w \in Workers : Later(r, Claimed(r, w))
           /\ \A new \in Rows : Present(new) => Later(r, OrmUpdate(r, seen, new))
           /\ \A m \in Moments : \A q \in Rows : Later(r, q) => Later(r, [q EXCEPT !.run_after = m])
           /\ Present(Reaped(seen)) /\ Present(Cancelled(seen)) /\ Present(Retried(seen))
<1> USE DEF Later, Present
<1>1. Later(r, Completed(r)) /\ \A retryable \in BOOLEAN : Later(r, Failed(r, retryable))
  BY DEF Completed, Failed, ReleaseLease, Rows
<1>2. Later(r, ElapseRow(r)) /\ \A w \in Workers : Later(r, Claimed(r, w))
  BY DEF ElapseRow, Claimed, Rows
<1>3. \A new \in Rows : Present(new) => Later(r, OrmUpdate(r, seen, new))
  BY DEF OrmUpdate, Column, Rows
<1>4. \A m \in Moments : \A q \in Rows : Later(r, q) => Later(r, [q EXCEPT !.run_after = m])
  BY DEF Rows
<1>5. Present(Reaped(seen)) /\ Present(Cancelled(seen)) /\ Present(Retried(seen))
  BY DEF Reaped, Cancelled, Retried, ReleaseLease, Rows
<1> QED BY <1>1, <1>2, <1>3, <1>4, <1>5

\* Keys stay apart when drafts are replaced by later ones or by the committed
\* row, and committed rows by the newest version.
LEMMA KeysCarry ==
    ASSUME KeysApart,
           \/ \A j \in Jobs : /\ row'[j] = row[j]
                              /\ Later(draft[j], draft'[j]) \/ draft'[j] = row[j]
           \/ \A j \in Jobs : draft'[j] = draft[j] /\ row'[j] \in {row[j], draft[j]}
           \/ \A j \in Jobs : /\ Later(row[j], row'[j]) /\ Later(draft[j], draft'[j])
                              /\ row[j] = draft[j] => row'[j] = draft'[j]
                              /\ row[j] = draft[j] \/ (Present(row'[j]) => Present(row[j]))
    PROVE  KeysApart'
BY DEF KeysApart, Later, Present

\* What a caller was told stays true as long as rows only get later versions.
LEMMA ToldCarries ==
    ASSUME Inv, NEW r \in Requests, ToldTo(r), req'[r] = req[r],
           \A j \in Jobs : Kept(row[j], row'[j]),
           \A j \in Jobs : Kept(View(r, j), View(r, j)')
    PROVE  ToldTo(r)'
<1>1. req[r].op = "enqueue" /\ req[r].phase \in {"enqueued", "done"} => req[r].job \in Jobs
  BY DEF Inv, Typed, RequestStates, NoRequest
<1> QED BY <1>1 DEF ToldTo, Kept

\* An INSERT adds a key that no newest version has.
LEMMA InsertKeys ==
    ASSUME Inv, KeysApart, NEW s \in Sessions, NEW j \in Jobs, NEW key \in Keys \cup {NoKey},
           NEW delay \in Moments, Insert(s, j, key, delay)
    PROVE  /\ KeysApart'
           /\ row' = row
           /\ \A k \in Jobs : k # j => draft'[k] = draft[k] /\ lock'[k] = lock[k]
           /\ ~ Present(row[j]) /\ lock[j] = Nobody /\ lock'[j] = s
           /\ Present(draft'[j]) /\ draft'[j].key = key
<1>1. /\ row' = row
      /\ \A k \in Jobs : k # j => draft'[k] = draft[k] /\ lock'[k] = lock[k]
      /\ draft'[j] = NewRow(key, delay) /\ lock'[j] = s
      /\ ~ Present(row[j]) /\ lock[j] = Nobody
  BY DEF Insert, WriteRow, IsOldest, FreshSlots, Inv, Typed, Present
<1>2. Present(draft'[j]) /\ draft'[j].key = key
  BY <1>1 DEF NewRow, Present
<1>3. ASSUME key # NoKey, NEW k \in Jobs, k # j, draft[k].key = key
      PROVE  FALSE
  <2>1. Present(draft[k])
    BY <1>3 DEF KeysApart
  <2>2. Visible(s, key) = {} /\ ~ KeyContended(s, key)
    BY <1>3 DEF Insert
  <2>3. View(s, k).key # key \/ ~ Present(View(s, k))
    BY <2>2 DEF Visible, Present
  <2>4. CASE lock[k] \in {Nobody, s}
    <3>1. View(s, k) = draft[k]
      BY <2>4 DEF View, Inv, Locking
    <3> QED BY <1>3, <2>1, <2>3, <3>1
  <2>5. CASE lock[k] \notin {Nobody, s}
    <3>1. Present(row[k])
      BY <1>3, <2>1, <2>2, <2>5 DEF KeyContended, Present
    <3>2. View(s, k) = row[k]
      BY <2>5 DEF View
    <3> QED BY <1>3, <2>3, <3>1, <3>2 DEF KeysApart
  <2> QED BY <2>4, <2>5
<1> QED BY <1>1, <1>2, <1>3 DEF KeysApart

\* The steps of a worker, whose row locks are never those of a request.
LEMMA WorkerKeys ==
    ASSUME Inv, KeysApart, Told, NEW w \in Workers, WorkerStep(w) \/ WorkerChoice(w)
    PROVE  KeysApart' /\ Told'
<1> w \in Sessions /\ Workers \subseteq Sessions
  BY DEF Sessions
<1>a. \A r \in Requests : r # w /\ r # Nobody
  BY NamesAssumption DEF NamesAssumption, Sessions
<1>b. \A j \in Jobs : /\ row[j] \in Rows /\ draft[j] \in Rows
                      /\ lock[j] = Nobody => draft[j] = row[j]
  BY DEF Inv, Typed, Locking
<1>1. ASSUME UNCHANGED <<row, draft, req>>, \A j \in Jobs : lock'[j] = lock[j] \/ (lock'[j] = w /\ lock[j] = Nobody)
      PROVE  KeysApart' /\ Told'
  <2>1. \A r \in Requests, j \in Jobs : View(r, j)' = View(r, j)
    BY <1>1, <1>a DEF View
  <2> QED BY <1>1, <2>1, KeysCarry, ToldCarries DEF Told, Later, Kept
<1>2. ASSUME UNCHANGED <<row, req>>,
             \A j \in Jobs : \/ lock'[j] = w /\ lock[j] \in {Nobody, w} /\ Later(draft[j], draft'[j])
                             \/ lock'[j] = lock[j] /\ draft'[j] = draft[j]
      PROVE  KeysApart' /\ Told'
  <2>1. \A j \in Jobs : Later(draft[j], draft'[j])
    BY <1>2 DEF Later
  <2>2. \A r \in Requests, j \in Jobs : View(r, j)' = View(r, j)
    BY <1>2, <1>a DEF View
  <2> QED BY <1>2, <2>1, <2>2, KeysCarry, ToldCarries DEF Told, Later, Kept
<1>3. ASSUME NEW j \in Jobs, NEW key \in Keys, Insert(w, j, key, 0), UNCHANGED req
      PROVE  KeysApart' /\ Told'
  <2>1. /\ KeysApart' /\ row' = row
        /\ \A k \in Jobs : k # j => draft'[k] = draft[k] /\ lock'[k] = lock[k]
        /\ lock[j] = Nobody /\ lock'[j] = w
    BY <1>3, InsertKeys DEF Moments
  <2>2. \A r \in Requests, k \in Jobs : View(r, k)' = View(r, k)
    BY <2>1, <1>a DEF View
  <2> QED BY <1>3, <2>1, <2>2, ToldCarries DEF Told, Kept
<1>4. CASE Reap(w)
  <2>1. ASSUME NEW j \in DOMAIN expired[w]
        PROVE  Later(draft[j], draft'[j]) /\ lock'[j] = w /\ lock[j] = Nobody
    <3> DEFINE seen == expired[w][j]
               reaped == Reaped(seen)
               merged == OrmUpdate(row[j], seen, reaped)
    <3>1. j \in Jobs /\ seen \in Rows /\ lock[j] = Nobody /\ lock'[j] = w
      BY <1>4 DEF Reap, Inv, Typed
    <3>2. reaped \in Rows /\ Present(reaped)
      BY <3>1, RowOperations, LaterVersions
    <3>3. merged \in Rows /\ Later(row[j], merged)
      BY <3>1, <3>2, <1>b, OrmUpdateType, LaterVersions
    <3>4. draft'[j] = IF reaped.status = "retrying" THEN [merged EXCEPT !.run_after = 0] ELSE merged
      BY <1>4, <3>1 DEF Reap
    <3> HIDE DEF merged
    <3>5. Later(row[j], [merged EXCEPT !.run_after = 0])
      BY <3>1, <3>3, <1>b, LaterVersions DEF Moments
    <3> QED BY <3>1, <3>3, <3>4, <3>5, <1>b
  <2>2. \A j \in Jobs \ DOMAIN expired[w] : lock'[j] = lock[j] /\ draft'[j] = draft[j]
    BY <1>4 DEF Reap
  <2> QED BY <1>2, <1>4, <2>1, <2>2 DEF Reap
<1>5. ASSUME NEW j \in Jobs, NEW new, WriteRow(w, j, new), Later(draft[j], new), UNCHANGED req
      PROVE  KeysApart' /\ Told'
  BY <1>2, <1>5 DEF WriteRow, Inv, Typed
<1>6. CASE Claim(w)
  BY <1>5, <1>6, <1>b, LaterVersions DEF Claim
<1>7. CASE Complete(w) \/ Fail(w)
  <2>1. current[w] \in Jobs /\ draft[current[w]] \in Rows /\ UNCHANGED req
    BY <1>7, <1>b DEF Complete, Fail, Settle
  <2>2. PICK new \in {Completed(draft[current[w]]), Failed(draft[current[w]], current[w] \notin Unhandled)} :
          WriteRow(w, current[w], new)
    BY <1>7 DEF Complete, Fail, Settle
  <2>3. Later(draft[current[w]], new)
    BY <2>1, LaterVersions
  <2> QED BY <1>5, <2>1, <2>2, <2>3
<1>8. CASE Commit(w)
  <2>1. \A j \in Jobs : draft'[j] = draft[j] /\ row'[j] \in {row[j], draft[j]}
    BY <1>8 DEF Commit, CommitOf, View
  <2>2. \A j \in Jobs : Kept(row[j], row'[j])
    BY <1>8, <2>1 DEF KeysApart, Kept, Present
  <2>3. \A r \in Requests, j \in Jobs : Kept(View(r, j), View(r, j)')
    BY <1>8, <1>a, <2>2 DEF Commit, CommitOf, View, Kept
  <2>4. KeysApart'
    BY <2>1, KeysCarry
  <2>5. req' = req
    BY <1>8 DEF Commit
  <2> QED BY <2>2, <2>3, <2>4, <2>5, ToldCarries DEF Told
<1>9. CASE AbortCycle(w) \/ LoseCycle(w)
  <2>1. RollbackOf(w) /\ UNCHANGED req
    BY <1>9 DEF AbortCycle, LoseCycle, KeyLost, ResetCycle
  <2>2. \A j \in Jobs : row'[j] = row[j] /\ (Later(draft[j], draft'[j]) \/ draft'[j] = row[j])
    BY <2>1 DEF RollbackOf, Later
  <2>3. \A r \in Requests, j \in Jobs : View(r, j)' = View(r, j)
    BY <2>1, <1>a DEF RollbackOf, View
  <2> QED BY <2>1, <2>2, <2>3, KeysCarry, ToldCarries DEF Told, Later, Kept
<1>10. ASSUME NEW j \in Jobs, AbandonClaim(w, j)
       PROVE  KeysApart' /\ Told'
  <2>1. /\ lock[j] = Nobody /\ lock' = lock /\ row[j] = draft[j]
        /\ row'[j] = Claimed(row[j], w) /\ draft'[j] = Claimed(row[j], w)
        /\ \A k \in Jobs : k # j => row'[k] = row[k] /\ draft'[k] = draft[k]
        /\ req' = req
        /\ Present(row[j])
    BY <1>10, <1>b DEF AbandonClaim, Inv, Typed, Claimable, LeaseLapsed, Waiting, Present
  <2>2. \A k \in Jobs : Later(row[k], row'[k]) /\ Later(draft[k], draft'[k])
    BY <2>1, <1>b, LaterVersions DEF Later
  <2>3. KeysApart'
    <3>1. \A k \in Jobs : row[k] = draft[k] \/ (Present(row'[k]) => Present(row[k]))
      BY <2>1
    <3>2. \A k \in Jobs : row[k] = draft[k] => row'[k] = draft'[k]
      BY <2>1
    <3> QED BY <2>2, <3>1, <3>2, KeysCarry
  <2>4. \A r \in Requests, k \in Jobs : Later(View(r, k), View(r, k)')
    BY <2>1, <2>2 DEF View
  <2> QED BY <2>1, <2>2, <2>3, <2>4, ToldCarries DEF Told, Later, Kept
<1>11. CASE StartCycle(w) \/ Scan(w)
  <2>1. \A j \in Jobs : lock'[j] = lock[j] \/ (lock'[j] = w /\ lock[j] = Nobody)
    <3>1. CASE StartCycle(w)
      BY <3>1 DEF StartCycle, db
    <3>2. CASE Scan(w)
      BY <3>2 DEF Scan
    <3> QED BY <1>11, <3>1, <3>2
  <2>2. UNCHANGED <<row, draft, req>>
    BY <1>11 DEF StartCycle, Scan, db
  <2> QED BY <1>1, <2>1, <2>2
<1>12. ASSUME NEW key \in Keys, EnsureTick(w, key) \/ HandlerEnqueue(w, key, 0)
       PROVE  KeysApart' /\ Told'
  <2>1. CASE \E j \in Jobs : Insert(w, j, key, 0)
    BY <1>3, <1>12, <2>1 DEF EnsureTick, HandlerEnqueue
  <2>2. CASE WaitForKey(w, key)
    <3>1. UNCHANGED <<row, draft, lock, req>>
      BY <1>12, <2>2 DEF EnsureTick, HandlerEnqueue, WaitForKey
    <3> QED BY <1>1, <3>1
  <2> QED BY <1>12, <2>1, <2>2 DEF EnsureTick, HandlerEnqueue
<1>13. CASE KeyWon(w)
  <2>1. CASE \E j \in Jobs : Insert(w, j, wanted[w], 0)
    <3>1. wanted[w] \in Keys /\ UNCHANGED req
      BY <1>13 DEF KeyWon, Inv, Typed
    <3> QED BY <1>3, <2>1, <3>1
  <2>2. CASE UNCHANGED <<row, draft, lock, req>>
    BY <1>1, <2>2
  <2> QED BY <1>13, <2>1, <2>2 DEF KeyWon
<1> QED BY <1>4, <1>6, <1>7, <1>8, <1>9, <1>10, <1>11, <1>12, <1>13 DEF WorkerStep, WorkerChoice

\* The steps of a request: what it is told, it finds.
LEMMA RequestKeys ==
    ASSUME Inv, KeysApart, Told, LoadedStatus, NEW r \in Requests,
           RequestStep(r) \/ RequestCommit(r)
    PROVE  KeysApart' /\ Told'
<1> r \in Sessions
  BY DEF Sessions
<1>a. \A q \in Requests : q # Nobody
  BY NamesAssumption DEF NamesAssumption, Sessions
<1>b. \A j \in Jobs : /\ row[j] \in Rows /\ draft[j] \in Rows
                      /\ lock[j] = Nobody => draft[j] = row[j]
  BY DEF Inv, Typed, Locking
<1>c. req \in [Requests -> RequestStates]
  BY DEF Inv, Typed
<1>1. ASSUME NEW key \in Keys \cup {NoKey}, RequestEnqueue(r, key, Null)
      PROVE  KeysApart' /\ Told'
  <2>1. PICK j \in Jobs :
          /\ Insert(r, j, key, Null)
          /\ req' = [req EXCEPT ![r] = [phase |-> "enqueued", op |-> "enqueue",
                                        job |-> j, seen |-> key]]
    BY <1>1 DEF RequestEnqueue
  <2>2. /\ KeysApart' /\ row' = row
        /\ \A k \in Jobs : k # j => draft'[k] = draft[k] /\ lock'[k] = lock[k]
        /\ lock[j] = Nobody /\ lock'[j] = r
        /\ Present(draft'[j]) /\ draft'[j].key = key
    BY <2>1, InsertKeys DEF Moments
  <2>3. ToldTo(r)'
    BY <2>1, <2>2, <1>c DEF ToldTo, View
  <2>4. ASSUME NEW q \in Requests, q # r PROVE ToldTo(q)'
    <3>1. \A k \in Jobs : View(q, k)' = View(q, k)
      BY <2>2, <2>4, <1>a DEF View
    <3>2. req'[q] = req[q]
      BY <2>1, <2>4, <1>c
    <3> QED BY <2>2, <3>1, <3>2, ToldCarries DEF Told, Kept
  <2> QED BY <2>2, <2>3, <2>4 DEF Told
<1>2. ASSUME UNCHANGED <<row, draft, lock>>, ToldTo(r)',
             \A q \in Requests : q # r => req'[q] = req[q]
      PROVE  KeysApart' /\ Told'
  <2>1. \A q \in Requests, k \in Jobs : View(q, k)' = View(q, k)
    BY <1>2 DEF View
  <2> QED BY <1>2, <2>1, KeysCarry, ToldCarries DEF Told, Later, Kept
<1>3. ASSUME NEW key \in Keys, RequestEnqueueAgain(r, key)
      PROVE  KeysApart' /\ Told'
  <2>1. PICK j \in Visible(r, key) :
          req' = [req EXCEPT ![r] = [phase |-> "enqueued", op |-> "enqueue",
                                     job |-> j, seen |-> key]]
    BY <1>3 DEF RequestEnqueueAgain
  <2>2. UNCHANGED <<row, draft, lock>>
    BY <1>3 DEF RequestEnqueueAgain, db
  <2>3. ToldTo(r)'
    BY <2>1, <2>2, <1>c DEF ToldTo, View, Visible, Present
  <2> QED BY <1>2, <2>1, <2>2, <2>3, <1>c
<1>4. ASSUME NEW key \in Keys, RequestWait(r, key)
      PROVE  KeysApart' /\ Told'
  <2>1. UNCHANGED <<row, draft, lock, req>>
    BY <1>4 DEF RequestWait, WaitForKey
  <2> QED BY <1>2, <2>1 DEF Told, ToldTo, View
<1>5. ASSUME RollbackOf(r), req'[r].phase = "refused",
             \A q \in Requests : q # r => req'[q] = req[q]
      PROVE  KeysApart' /\ Told'
  <2>1. \A j \in Jobs : row'[j] = row[j] /\ (Later(draft[j], draft'[j]) \/ draft'[j] = row[j])
    BY <1>5 DEF RollbackOf, Later
  <2>2. ToldTo(r)'
    BY <1>5 DEF ToldTo
  <2>3. ASSUME NEW q \in Requests, q # r PROVE ToldTo(q)'
    <3>1. \A k \in Jobs : View(q, k)' = View(q, k)
      BY <1>5, <2>3, <1>a DEF RollbackOf, View
    <3> QED BY <1>5, <2>1, <2>3, <3>1, ToldCarries DEF Told, Kept
  <2> QED BY <2>1, <2>2, <2>3, KeysCarry DEF Told
<1>6. CASE RequestRollback(r) \/ RequestLoses(r)
  <2>1. RollbackOf(r)
    BY <1>6 DEF RequestRollback, RequestLoses, KeyLost
  <2>2. req'[r].phase = "refused" /\ \A q \in Requests : q # r => req'[q] = req[q]
    <3>1. CASE RequestRollback(r)
      <4>1. req[r] \in [phase : {"enqueued", "done", "refused"}, op : {"enqueue"},
                       job : Jobs, seen : Keys \cup {NoKey}]
        BY <3>1, <1>c DEF RequestRollback, RequestIs, RequestStates, NoRequest
      <4> QED BY <3>1, <4>1, <1>c DEF RequestRollback
    <3>2. CASE RequestLoses(r)
      BY <3>2, <1>c DEF RequestLoses, NoRequest
    <3> QED BY <1>6, <3>1, <3>2
  <2> QED BY <1>5, <2>1, <2>2
<1>7. CASE RequestCommit(r)
  <2>1. /\ req[r].phase = "enqueued"
        /\ req[r] \in [phase : {"enqueued", "done", "refused"}, op : {"enqueue"},
                       job : Jobs, seen : Keys \cup {NoKey}]
    BY <1>7, <1>c DEF RequestCommit, RequestIs, RequestStates, NoRequest
  <2>2. /\ req'[r] = [req[r] EXCEPT !.phase = "done"]
        /\ \A q \in Requests : q # r => req'[q] = req[q]
        /\ row' = [j \in Jobs |-> View(r, j)]
        /\ lock' = [j \in Jobs |-> IF lock[j] = r THEN Nobody ELSE lock[j]]
        /\ draft' = draft
    BY <1>7, <1>c DEF RequestCommit, CommitOf
  <2>3. \A j \in Jobs : draft'[j] = draft[j] /\ row'[j] \in {row[j], draft[j]}
    BY <2>2 DEF View
  <2>4. \A j \in Jobs : Kept(row[j], row'[j])
    BY <2>3 DEF KeysApart, Kept, Present
  <2>5. ToldTo(r)'
    BY <2>1, <2>2 DEF Told, ToldTo
  <2>6. ASSUME NEW q \in Requests, q # r PROVE ToldTo(q)'
    <3>1. \A k \in Jobs : Kept(View(q, k), View(q, k)')
      BY <2>2, <2>4, <2>6, <1>a DEF View, Kept
    <3> QED BY <2>2, <2>4, <2>6, <3>1, ToldCarries DEF Told
  <2> QED BY <2>3, <2>5, <2>6, KeysCarry DEF Told
<1>8. ASSUME NEW j \in Jobs, NEW op \in {"cancel", "retry"}, RequestLoad(r, j, op)
      PROVE  KeysApart' /\ Told'
  <2>1. UNCHANGED <<row, draft, lock>> /\ req'[r].op = op /\ \A q \in Requests : q # r => req'[q] = req[q]
    BY <1>8, <1>c DEF RequestLoad, db
  <2> QED BY <1>2, <2>1 DEF ToldTo
<1>9. CASE RequestWrite(r)
  <2> DEFINE j    == req[r].job
             seen == req[r].seen
             new  == IF req[r].op = "cancel" THEN Cancelled(seen) ELSE Retried(seen)
             out  == OrmUpdate(row[j], seen, new)
  <2>1. req[r] \in [phase : {"loaded", "done"}, op : {"cancel", "retry"},
                    job : Jobs, seen : Rows]
    BY <1>9, <1>c DEF RequestWrite, RequestIs, RequestStates, NoRequest
  <2>2. j \in Jobs /\ seen \in Rows /\ row[j] \in Rows
    BY <2>1, <1>b
  <2>3. Later(row[j], out)
    <3>1. new \in Rows /\ Present(new)
      BY <2>2, RowOperations, LaterVersions
    <3> QED BY <2>2, <3>1, LaterVersions
  <2>4. /\ lock[j] = Nobody /\ lock' = lock /\ row[j] = draft[j]
        /\ row'[j] = out /\ draft'[j] = out
        /\ \A k \in Jobs : k # j => row'[k] = row[k] /\ draft'[k] = draft[k]
    BY <1>9, <2>2, <1>b DEF RequestWrite, Inv, Typed
  <2>5. req'[r].op = req[r].op /\ \A q \in Requests : q # r => req'[q] = req[q]
    BY <1>9, <1>c, <2>1 DEF RequestWrite
  <2> HIDE DEF j, out
  <2>6. \A k \in Jobs : Later(row[k], row'[k]) /\ Later(draft[k], draft'[k])
    BY <2>3, <2>4 DEF Later
  <2>7. KeysApart'
    <3>1. \A k \in Jobs : row[k] = draft[k] \/ (Present(row'[k]) => Present(row[k]))
      BY <2>4
    <3>2. \A k \in Jobs : row[k] = draft[k] => row'[k] = draft'[k]
      BY <2>4
    <3> QED BY <2>6, <3>1, <3>2, KeysCarry
  <2>8. ToldTo(r)'
    BY <2>1, <2>5 DEF ToldTo
  <2>9. ASSUME NEW q \in Requests, q # r PROVE ToldTo(q)'
    <3>1. \A k \in Jobs : Kept(View(q, k), View(q, k)') /\ Kept(row[k], row'[k])
      BY <2>4, <2>6 DEF View, Later, Kept
    <3> QED BY <2>5, <2>9, <3>1, ToldCarries DEF Told
  <2> QED BY <2>7, <2>8, <2>9 DEF Told
<1> QED BY <1>1, <1>3, <1>4, <1>6, <1>7, <1>8, <1>9 DEF RequestStep

\* Time changes neither keys nor what exists.
LEMMA TickKeys == ASSUME Inv, KeysApart, Told, Tick PROVE KeysApart' /\ Told'
<1>1. \A j \in Jobs : Later(row[j], row'[j]) /\ Later(draft[j], draft'[j])
  BY LaterVersions DEF Tick, Inv, Typed
<1>2. \A j \in Jobs : row'[j] = ElapseRow(row[j]) /\ draft'[j] = ElapseRow(draft[j])
  BY DEF Tick
<1>3. \A j \in Jobs : Present(row'[j]) => Present(row[j])
  BY <1>2, WriteStatus DEF Present, Inv, Typed
<1>4. KeysApart'
  BY <1>1, <1>2, <1>3, KeysCarry
<1>5. lock' = lock /\ req' = req
  BY DEF Tick
<1>6. \A r \in Requests, k \in Jobs : Kept(View(r, k), View(r, k)') /\ Kept(row[k], row'[k])
  BY <1>1, <1>5 DEF View, Later, Kept
<1> QED BY <1>4, <1>5, <1>6, ToldCarries DEF Told

\* No two committed jobs share a key, and a caller that was told about a job
\* finds it committed under the key it asked for.
THEOREM OneJobPerKey == Spec => []EnqueueIdempotent
<1>1. Init => Inv /\ LoadedStatus /\ KeysApart /\ Told
  <2>1. Init => KeysApart /\ Told
    BY NamesAssumption DEF Init, KeysApart, Told, ToldTo, NoRequest, NewRow, AbsentRow, NamesAssumption
  <2> QED BY <2>1, InitInv, InitUnclaimed
<1>2. Inv /\ LoadedStatus /\ KeysApart /\ Told /\ [Next]_vars => (Inv /\ LoadedStatus /\ KeysApart /\ Told)'
  <2> SUFFICES ASSUME Inv, LoadedStatus, KeysApart, Told, [Next]_vars
               PROVE  (Inv /\ LoadedStatus /\ KeysApart /\ Told)'
    OBVIOUS
  <2>1. CASE UNCHANGED vars
    BY <2>1, NextInv DEF vars, LoadedStatus, KeysApart, Told, ToldTo, View
  <2>2. CASE Next
    BY <2>2, NextInv, LoadedKept, WorkerKeys, RequestKeys, TickKeys DEF Next
  <2> QED BY <2>1, <2>2
<1>3. Inv /\ KeysApart /\ Told => EnqueueIdempotent
  BY DEF KeysApart, Told, ToldTo, Present, EnqueueIdempotent
<1> QED BY <1>1, <1>2, <1>3, PTL DEF Spec

-----------------------------------------------------------------------------
(* What a transaction has made of a row it has locked.  This is what takes *)
(* committed rows along the state machine, and what limits how often a     *)
(* handler is started - unless a session writes a row that has changed     *)
(* since it loaded it: a request that cancels or retries, or one of two    *)
(* workers that reap the same row.                                         *)

SameLife(a, b) == a.status = b.status /\ a.attempts = b.attempts

\* What a session has loaded without a lock is still what is committed: the
\* lapsed rows a worker is about to reap, the row a request is about to retry
\* or to cancel.
ReapsAreFresh ==
    \A w \in Workers : \A j \in DOMAIN expired[w] : SameLife(row[j], expired[w][j])

Fresh(op) ==
    \A r \in Requests :
        req[r].phase = "loaded" /\ req[r].op = op => SameLife(row[req[r].job], req[r].seen)

AfterAttempt(attempts) == IF attempts < MaxAttempts THEN "retrying" ELSE "failed"

\* a is committed, b the version of the lock holder: not claimed in this cycle ...
Untried(a, b) ==
    \/ SameLife(a, b)
    \/ a.status = "absent" /\ b.status = "queued" /\ b.attempts = a.attempts
    \/ a.status = "running" /\ b.status = AfterAttempt(a.attempts) /\ b.attempts = a.attempts

Tried(a, b) ==
    a.status \in {"absent", "running"} \cup Waiting /\ b.attempts = a.attempts + 1

\* ... claimed, and its handler has returned or raised.
Ended(j, a, b) ==
    /\ Tried(a, b)
    /\ b.status \in IF j \in Unhandled THEN {"failed"} ELSE {"completed", AfterAttempt(b.attempts)}

\* The rows a worker has locked, and the one whose handler runs.
OfWorker(w) ==
    /\ \A j \in Jobs : lock[j] = w =>
         \/ Untried(row[j], draft[j])
         \/ pc[w] = "work" /\ j \notin todo[w] /\ current[w] # j /\ Ended(j, row[j], draft[j])
         \/ pc[w] = "work" /\ j \notin todo[w] /\ current[w] = j
    /\ current[w] # Null =>
         /\ current[w] \notin todo[w]
         /\ draft[current[w]].status = "running" /\ Tried(row[current[w]], draft[current[w]])

Transactions ==
    /\ \A j \in Jobs : (row[j].status = "absent" => row[j].attempts = 0)
    /\ \A j \in Jobs : (draft[j].status = "absent" => draft[j].attempts = 0)
    /\ \A r \in Requests, j \in Jobs : lock[j] = r => Untried(row[j], draft[j])
    /\ \A w \in Workers : OfWorker(w)
    /\ DOMAIN expired = Workers
    /\ \A w \in Workers : \A j \in DOMAIN expired[w] : expired[w][j].status = "running"

\* What the operations on a row make of its status and its attempts.
LEMMA RowLives ==
    ASSUME NEW r \in Rows, NEW seen \in Rows
    PROVE  /\ r.attempts \in Nat
           /\ Completed(r).status = "completed" /\ Completed(r).attempts = r.attempts
           /\ Failed(r, TRUE).status = AfterAttempt(r.attempts) /\ Failed(r, TRUE).attempts = r.attempts
           /\ Failed(r, FALSE).status = "failed" /\ Failed(r, FALSE).attempts = r.attempts
           /\ SameLife(ElapseRow(r), r)
           /\ \A w \in Workers : Claimed(r, w).status = "running" /\ Claimed(r, w).attempts = r.attempts + 1
           /\ SameLife(r, seen) /\ seen.status = "running" =>
                /\ OrmUpdate(r, seen, Reaped(seen)).status = AfterAttempt(r.attempts)
                /\ OrmUpdate(r, seen, Reaped(seen)).attempts = r.attempts
           /\ SameLife(r, seen) /\ seen.status \in Waiting =>
                /\ OrmUpdate(r, seen, Cancelled(seen)).status = "cancelled"
                /\ OrmUpdate(r, seen, Cancelled(seen)).attempts = r.attempts
           /\ SameLife(r, seen) /\ seen.status = "failed" =>
                /\ OrmUpdate(r, seen, Retried(seen)).status = "queued"
                /\ OrmUpdate(r, seen, Retried(seen)).attempts = 0
<1> USE DEF AfterAttempt, SameLife, ReleaseLease
<1>0. r.attempts \in Nat /\ MaxAttempts \in Nat
  BY SizesAssumption DEF Rows, SizesAssumption
<1>1. /\ Completed(r).status = "completed" /\ Completed(r).attempts = r.attempts
      /\ Failed(r, TRUE).status = AfterAttempt(r.attempts) /\ Failed(r, TRUE).attempts = r.attempts
      /\ Failed(r, FALSE).status = "failed" /\ Failed(r, FALSE).attempts = r.attempts
  BY <1>0 DEF Completed, Failed, Rows
<1>2. SameLife(ElapseRow(r), r)
  BY DEF ElapseRow, Rows
<1>3. \A w \in Workers : Claimed(r, w).status = "running" /\ Claimed(r, w).attempts = r.attempts + 1
  BY DEF Claimed, Rows
<1>4. SameLife(r, seen) /\ seen.status = "running" =>
        /\ OrmUpdate(r, seen, Reaped(seen)).status = AfterAttempt(r.attempts)
        /\ OrmUpdate(r, seen, Reaped(seen)).attempts = r.attempts
  BY <1>0 DEF OrmUpdate, Column, Reaped, Rows
<1>5. SameLife(r, seen) /\ seen.status \in Waiting =>
        /\ OrmUpdate(r, seen, Cancelled(seen)).status = "cancelled"
        /\ OrmUpdate(r, seen, Cancelled(seen)).attempts = r.attempts
  BY DEF OrmUpdate, Column, Cancelled, Rows, Waiting
<1>6. SameLife(r, seen) /\ seen.status = "failed" =>
        /\ OrmUpdate(r, seen, Retried(seen)).status = "queued"
        /\ OrmUpdate(r, seen, Retried(seen)).attempts = 0
  BY DEF OrmUpdate, Column, Retried, Rows
<1> QED BY <1>0, <1>1, <1>2, <1>3, <1>4, <1>5, <1>6

\* Nothing is locked and nothing loaded initially.
LEMMA InitTransactions == Init => Transactions
<1> SUFFICES ASSUME Init PROVE Transactions
  OBVIOUS
<1>1. \A w \in Workers : w # Nobody
  BY NamesAssumption DEF NamesAssumption, Sessions
<1>2. \A r \in Requests : r # Nobody
  BY NamesAssumption DEF NamesAssumption, Sessions
<1> QED BY <1>1, <1>2 DEF Init, Transactions, OfWorker, NewRow, AbsentRow, NoneLoaded

\* The row locks of a session, and what it has made of those rows, are nothing
\* that the steps of other sessions touch.
Untouched(s) ==
    \A j \in Jobs :
        /\ lock'[j] = s <=> lock[j] = s
        /\ lock[j] = s => row'[j] = row[j] /\ draft'[j] = draft[j]

\* A step that does not touch a worker's rows leaves them as its cycle made them.
LEMMA OthersTransactions ==
    ASSUME Inv, NEW w \in Workers, OfWorker(w), Untouched(w),
           todo'[w] = todo[w], current'[w] = current[w], pc'[w] = pc[w]
    PROVE  OfWorker(w)'
<1>1. current[w] # Null => current[w] \in Jobs /\ lock[current[w]] = w
  BY DEF Inv, Typed, Locking
<1> QED BY <1>1 DEF OfWorker, Untouched, Untried, SameLife, Tried, Ended

\* A worker's step touches no row that another session has locked, and no
\* other worker's cycle.
LEMMA WorkerFrame ==
    ASSUME Inv, DOMAIN expired = Workers, NEW w \in Workers, WorkerStep(w) \/ WorkerChoice(w)
    PROVE  /\ \A s \in Sessions : s # w => Untouched(s)
           /\ \A v \in Workers : v # w =>
                 pc'[v] = pc[v] /\ todo'[v] = todo[v] /\ current'[v] = current[v] /\ expired'[v] = expired[v]
<1>a. Nobody \notin Sessions /\ w \in Sessions
  BY NamesAssumption DEF NamesAssumption, Sessions
<1>b. /\ DOMAIN lock = Jobs /\ DOMAIN row = Jobs /\ DOMAIN draft = Jobs
      /\ DOMAIN pc = Workers /\ DOMAIN todo = Workers /\ DOMAIN current = Workers
  BY DEF Inv, Typed
<1> USE DEF Untouched
<1>1. CASE StartCycle(w)
  BY <1>1, <1>b DEF StartCycle, Goto, db
<1>2. CASE Reap(w)
  BY <1>2, <1>a, <1>b DEF Reap, Goto
<1>3. CASE Scan(w)
  BY <1>3, <1>a, <1>b DEF Scan, Goto
<1>4. CASE Claim(w)
  BY <1>4, <1>a, <1>b DEF Claim, WriteRow
<1>5. CASE Complete(w) \/ Fail(w)
  BY <1>5, <1>a, <1>b DEF Complete, Fail, Settle, WriteRow
<1>6. CASE Commit(w)
  BY <1>6, <1>a, <1>b DEF Commit, CommitOf, View, Goto
<1>7. CASE AbortCycle(w) \/ LoseCycle(w)
  BY <1>7, <1>a, <1>b DEF AbortCycle, LoseCycle, KeyLost, RollbackOf, ResetCycle, Goto
<1>8. CASE KeyWon(w) \/ \E key \in Keys : EnsureTick(w, key) \/ HandlerEnqueue(w, key, 0)
  <2>1. UNCHANGED <<pc, todo, current, expired>>
    BY <1>8 DEF KeyWon, EnsureTick, HandlerEnqueue, worker
  <2>2. CASE \E j \in Jobs, key \in Keys \cup {NoKey} : WriteRow(w, j, NewRow(key, 0))
    BY <2>1, <2>2, <1>a, <1>b DEF WriteRow
  <2>3. CASE UNCHANGED <<row, draft, lock>>
    BY <2>1, <2>3
  <2>4. wanted[w] \in Keys \cup {NoKey}
    BY <1>a DEF Inv, Typed
  <2> QED BY <1>8, <2>2, <2>3, <2>4 DEF KeyWon, EnsureTick, HandlerEnqueue, Insert, WaitForKey
<1>9. ASSUME NEW j \in Jobs, AbandonClaim(w, j)
      PROVE  /\ \A s \in Sessions : s # w => Untouched(s)
             /\ UNCHANGED <<pc, todo, current, expired>>
  BY <1>9, <1>a, <1>b DEF AbandonClaim, worker
<1> QED BY <1>1, <1>2, <1>3, <1>4, <1>5, <1>6, <1>7, <1>8, <1>9 DEF WorkerStep, WorkerChoice

\* The rows a worker locks follow the rules of Transactions, step by step.
LEMMA WorkerTransactions ==
    ASSUME Inv, Inv', Transactions, ReapsAreFresh, NEW w \in Workers, WorkerStep(w) \/ WorkerChoice(w)
    PROVE  Transactions'
<1>a. /\ Nobody \notin Sessions /\ w \in Sessions /\ Workers \subseteq Sessions
      /\ \A r \in Requests : r \in Sessions /\ r # w
      /\ Null \notin Jobs
  BY NamesAssumption DEF NamesAssumption, Sessions
<1>b. \A j \in Jobs : /\ row[j] \in Rows /\ draft[j] \in Rows
                      /\ lock[j] = Nobody => draft[j] = row[j]
  BY DEF Inv, Typed, Locking
<1>c. /\ current[w] # Null => current[w] \in Jobs /\ lock[current[w]] = w /\ pc[w] = "work"
      /\ \A j \in todo[w] : j \in Jobs /\ lock[j] = w /\ pc[w] = "work"
      /\ current[w] \in Jobs \cup {Null}
  BY DEF Inv, Typed, Locking
<1>d. /\ DOMAIN lock = Jobs /\ DOMAIN row = Jobs /\ DOMAIN draft = Jobs
      /\ DOMAIN pc = Workers /\ DOMAIN todo = Workers /\ DOMAIN current = Workers
      /\ DOMAIN expired = Workers
  BY DEF Inv, Typed, Transactions
<1>e. OfWorker(w)
  BY DEF Transactions
<1>f. /\ \A v \in Workers : v # w => OfWorker(v)'
      /\ \A r \in Requests, j \in Jobs : lock'[j] = r => Untried(row'[j], draft'[j])
      /\ \A v \in Workers : v # w => \A j \in DOMAIN expired'[v] : expired'[v][j].status = "running"
  <2>1. \A v \in Workers : v # w => OfWorker(v)'
    BY WorkerFrame, OthersTransactions, <1>a DEF Transactions
  <2> QED BY <2>1, WorkerFrame, <1>a DEF Transactions, Untouched, Untried, SameLife
<1>g. ASSUME OfWorker(w)', DOMAIN expired' = Workers,
             \A j \in Jobs : (row'[j].status = "absent" => row'[j].attempts = 0),
             \A j \in Jobs : (draft'[j].status = "absent" => draft'[j].attempts = 0),
             \A j \in DOMAIN expired'[w] : expired'[w][j].status = "running"
      PROVE  Transactions'
  BY <1>f, <1>g DEF Transactions
<1>h. /\ \A j \in Jobs : (row[j].status = "absent" => row[j].attempts = 0)
      /\ \A j \in Jobs : (draft[j].status = "absent" => draft[j].attempts = 0)
      /\ \A j \in DOMAIN expired[w] : expired[w][j].status = "running"
  BY DEF Transactions
<1>1. CASE StartCycle(w)
  <2>1. /\ pc[w] = "idle" /\ current[w] = Null
        /\ UNCHANGED <<row, draft, lock, todo, current>>
    BY <1>1, <1>c DEF StartCycle, db
  <2>2. OfWorker(w)'
    BY <2>1, <1>e DEF OfWorker, Untried, SameLife
  <2>3. DOMAIN expired' = Workers /\ \A j \in DOMAIN expired'[w] : expired'[w][j].status = "running"
    BY <1>1, <1>d DEF StartCycle, LeaseLapsed
  <2> QED BY <2>1, <2>2, <2>3, <1>g, <1>h
<1>2. CASE Reap(w)
  <2>1. ASSUME NEW j \in DOMAIN expired[w]
        PROVE  /\ j \in Jobs /\ row[j].status = "running"
               /\ draft'[j].status = AfterAttempt(row[j].attempts)
               /\ draft'[j].attempts = row[j].attempts
    <3> DEFINE seen   == expired[w][j]
               reaped == Reaped(seen)
               merged == OrmUpdate(row[j], seen, reaped)
    <3>1. j \in Jobs /\ seen \in Rows /\ SameLife(row[j], seen) /\ seen.status = "running"
      BY <1>h DEF ReapsAreFresh, Inv, Typed
    <3>2. merged.status = AfterAttempt(row[j].attempts) /\ merged.attempts = row[j].attempts
      BY <3>1, <1>b, RowLives
    <3>3. draft'[j] = IF reaped.status = "retrying" THEN [merged EXCEPT !.run_after = 0] ELSE merged
      BY <1>2, <3>1 DEF Reap
    <3>4. merged \in Rows
      BY <3>1, <1>b, RowOperations, OrmUpdateType
    <3> HIDE DEF merged
    <3>5. /\ [merged EXCEPT !.run_after = 0].status = merged.status
          /\ [merged EXCEPT !.run_after = 0].attempts = merged.attempts
      BY <3>4 DEF Rows
    <3> QED BY <3>1, <3>2, <3>3, <3>5 DEF SameLife
  <2>2. /\ pc[w] = "reap" /\ current[w] = Null /\ UNCHANGED <<row, todo, current>>
        /\ \A j \in Jobs \ DOMAIN expired[w] : lock'[j] = lock[j] /\ draft'[j] = draft[j]
        /\ expired' = [expired EXCEPT ![w] = NoneLoaded]
    BY <1>2, <1>c DEF Reap
  <2>3. OfWorker(w)'
    <3>1. \A j \in Jobs : lock'[j] = w => Untried(row[j], draft'[j])
      BY <2>1, <2>2, <1>e DEF OfWorker, Untried
    <3> QED BY <2>2, <3>1 DEF OfWorker
  <2>4. \A j \in Jobs : (draft'[j].status = "absent" => draft'[j].attempts = 0)
    BY <2>1, <2>2, <1>h DEF AfterAttempt
  <2>5. DOMAIN expired' = Workers /\ DOMAIN expired'[w] = {}
    BY <2>2, <1>d DEF NoneLoaded
  <2> QED BY <2>2, <2>3, <2>4, <2>5, <1>g, <1>h
<1>3. CASE Scan(w)
  <2>1. /\ pc[w] = "prepare" /\ current[w] = Null /\ UNCHANGED <<row, draft, current, expired>>
        /\ \A j \in Jobs : lock'[j] = w => lock[j] \in {Nobody, w}
    BY <1>3, <1>c DEF Scan
  <2>2. \A j \in Jobs : lock'[j] = w => Untried(row[j], draft[j])
    BY <2>1, <1>b, <1>e DEF OfWorker, Untried, SameLife
  <2>3. OfWorker(w)'
    BY <2>1, <2>2 DEF OfWorker
  <2> QED BY <2>1, <2>3, <1>d, <1>g, <1>h
<1>4. CASE Claim(w)
  <2>1. PICK j \in Jobs : Claim(w)!(j)
    BY <1>4 DEF Claim
  <2>2. /\ j \in todo[w] /\ lock[j] = w /\ current[w] = Null /\ pc[w] = "work"
        /\ draft[j].status \in {"running"} \cup Waiting
    BY <2>1, <1>c DEF IsOldest, Claimable, LeaseLapsed
  <2>3. Untried(row[j], draft[j])
    BY <2>2, <1>e DEF OfWorker
  <2>4. Claimed(draft[j], w).status = "running" /\ Claimed(draft[j], w).attempts = draft[j].attempts + 1
    BY <1>b, RowLives
  <2>5. /\ UNCHANGED <<row, pc, expired>>
        /\ current'[w] = j /\ todo'[w] = todo[w] \ {j}
        /\ draft'[j] = Claimed(draft[j], w)
        /\ \A k \in Jobs : k # j => draft'[k] = draft[k] /\ lock'[k] = lock[k]
    BY <2>1, <1>d DEF WriteRow
  <2>6. Tried(row[j], draft'[j])
    BY <2>2, <2>3, <2>4, <2>5 DEF Tried, Untried, SameLife, Waiting
  <2>7. OfWorker(w)'
    <3>1. ASSUME NEW k \in Jobs, lock'[k] = w
          PROVE  \/ Untried(row'[k], draft'[k])
                 \/ pc'[w] = "work" /\ k \notin todo'[w] /\ current'[w] # k /\ Ended(k, row'[k], draft'[k])
                 \/ pc'[w] = "work" /\ k \notin todo'[w] /\ current'[w] = k
      <4>1. CASE k = j
        BY <4>1, <2>2, <2>5
      <4>2. CASE k # j
        <5>1. lock[k] = w /\ row'[k] = row[k] /\ draft'[k] = draft[k] /\ current[w] # k
          BY <4>2, <2>2, <2>5, <3>1, <1>a
        <5>2. Untried(row[k], draft[k]) \/ (k \notin todo[w] /\ Ended(k, row[k], draft[k]))
          BY <5>1, <1>e DEF OfWorker
        <5> QED BY <5>1, <5>2, <4>2, <2>2, <2>5
      <4> QED BY <4>1, <4>2
    <3>2. draft'[j].status = "running" /\ Tried(row'[j], draft'[j])
      BY <2>4, <2>5, <2>6
    <3> HIDE DEF Untried, Tried, Ended
    <3>3. j \notin todo'[w]
      BY <2>5
    <3> QED BY <3>1, <3>2, <3>3, <2>5 DEF OfWorker
  <2>8. \A k \in Jobs : (draft'[k].status = "absent" => draft'[k].attempts = 0)
    BY <2>4, <2>5, <1>h
  <2> QED BY <2>5, <2>7, <2>8, <1>d, <1>g, <1>h
<1>5. ASSUME NEW j \in Jobs, j = current[w], NEW new, Settle(w, new), Ended(j, row[j], new)
      PROVE  Transactions'
  <2>1. /\ lock[j] = w /\ j \notin todo[w] /\ pc[w] = "work"
        /\ UNCHANGED <<row, pc, expired, todo>> /\ current'[w] = Null
        /\ draft'[j] = new
        /\ \A k \in Jobs : k # j => draft'[k] = draft[k] /\ lock'[k] = lock[k]
    BY <1>5, <1>a, <1>c, <1>d, <1>e DEF Settle, WriteRow, OfWorker
  <2>2. ASSUME NEW k \in Jobs, lock'[k] = w
        PROVE  \/ Untried(row'[k], draft'[k])
               \/ pc'[w] = "work" /\ k \notin todo'[w] /\ current'[w] # k /\ Ended(k, row'[k], draft'[k])
    <3>1. CASE k = j
      BY <3>1, <2>1, <1>5, <1>a
    <3>2. CASE k # j
      BY <3>2, <2>1, <2>2, <1>5, <1>a, <1>e DEF OfWorker
    <3> QED BY <3>1, <3>2
  <2>3. OfWorker(w)'
    BY <2>1, <2>2 DEF OfWorker
  <2>4. \A k \in Jobs : (draft'[k].status = "absent" => draft'[k].attempts = 0)
    BY <2>1, <1>5, <1>h DEF Ended, AfterAttempt
  <2> QED BY <2>1, <2>3, <2>4, <1>d, <1>g, <1>h
<1>6. CASE Complete(w) \/ Fail(w)
  <2> DEFINE j == current[w]
  <2>1. j \in Jobs /\ Tried(row[j], draft[j]) /\ draft[j] \in Rows
    BY <1>6, <1>a, <1>b, <1>e DEF Complete, Fail, OfWorker
  <2>2. CASE Complete(w)
    <3>1. Settle(w, Completed(draft[j])) /\ j \notin Unhandled
      BY <2>2 DEF Complete
    <3>2. Ended(j, row[j], Completed(draft[j]))
      BY <2>1, <3>1, RowLives DEF Ended, Tried
    <3> QED BY <2>1, <3>1, <3>2, <1>5
  <2>3. CASE Fail(w)
    <3>1. Settle(w, Failed(draft[j], j \notin Unhandled))
      BY <2>3 DEF Fail
    <3>2. CASE j \in Unhandled
      <4>1. Ended(j, row[j], Failed(draft[j], FALSE))
        BY <2>1, <3>2, RowLives DEF Ended, Tried
      <4>2. Settle(w, Failed(draft[j], FALSE))
        BY <3>1, <3>2
      <4> QED BY <2>1, <4>1, <4>2, <1>5
    <3>3. CASE j \notin Unhandled
      <4>1. Ended(j, row[j], Failed(draft[j], TRUE))
        BY <2>1, <3>3, RowLives DEF Ended, Tried
      <4>2. Settle(w, Failed(draft[j], TRUE))
        BY <3>1, <3>3
      <4> QED BY <2>1, <4>1, <4>2, <1>5
    <3> QED BY <3>2, <3>3
  <2> QED BY <1>6, <2>2, <2>3
<1>7. CASE Commit(w) \/ AbortCycle(w) \/ LoseCycle(w)
  <2>1. /\ \A j \in Jobs : lock'[j] # w
        /\ current'[w] = Null
        /\ \A j \in Jobs : row'[j] \in {row[j], draft[j]} /\ draft'[j] \in {row[j], draft[j]}
        /\ DOMAIN expired' = Workers
        /\ expired'[w] = expired[w] \/ DOMAIN expired'[w] = {}
    BY <1>7, <1>a, <1>d DEF Commit, CommitOf, View, AbortCycle, LoseCycle, KeyLost, RollbackOf,
                            ResetCycle, NoneLoaded
  <2>2. OfWorker(w)'
    BY <2>1 DEF OfWorker
  <2> QED BY <2>1, <2>2, <1>g, <1>h
<1>8. ASSUME NEW j \in Jobs, NEW key \in Keys, Insert(w, j, key, 0), UNCHANGED worker
      PROVE  Transactions'
  <2>1. /\ row' = row /\ row[j].status = "absent" /\ lock[j] = Nobody
        /\ draft'[j].status = "queued" /\ draft'[j].attempts = 0
        /\ \A k \in Jobs : k # j => draft'[k] = draft[k] /\ lock'[k] = lock[k]
    BY <1>8, <1>d DEF Insert, IsOldest, FreshSlots, WriteRow, NewRow
  <2>2. UNCHANGED <<pc, todo, current, expired>>
    BY <1>8 DEF worker
  <2>3. Untried(row[j], draft'[j])
    BY <2>1, <1>h DEF Untried
  <2>4. current[w] # j
    BY <2>1, <1>a, <1>c
  <2>5. OfWorker(w)'
    <3>1. ASSUME NEW k \in Jobs, lock'[k] = w
          PROVE  \/ Untried(row[k], draft'[k])
                 \/ pc[w] = "work" /\ k \notin todo[w] /\ current[w] # k /\ Ended(k, row[k], draft'[k])
                 \/ pc[w] = "work" /\ k \notin todo[w] /\ current[w] = k
      <4>1. CASE k = j
        BY <4>1, <2>3
      <4>2. CASE k # j
        BY <4>2, <3>1, <2>1, <1>e DEF OfWorker
      <4> QED BY <4>1, <4>2
    <3>2. current[w] # Null => draft'[current[w]] = draft[current[w]]
      BY <2>1, <2>4, <1>c
    <3> QED BY <3>1, <3>2, <2>1, <2>2, <1>e DEF OfWorker
  <2>6. \A k \in Jobs : (draft'[k].status = "absent" => draft'[k].attempts = 0)
    BY <2>1, <1>h
  <2> QED BY <2>1, <2>2, <2>5, <2>6, <1>d, <1>g, <1>h
<1>9. ASSUME UNCHANGED <<row, draft, lock, pc, todo, current, expired>> PROVE Transactions'
  <2>1. OfWorker(w)'
    BY <1>9, <1>e, OthersTransactions DEF Untouched
  <2> QED BY <1>9, <2>1, <1>d, <1>g, <1>h
<1>10. CASE KeyWon(w) \/ \E key \in Keys : EnsureTick(w, key) \/ HandlerEnqueue(w, key, 0)
  <2>1. UNCHANGED worker
    BY <1>10 DEF KeyWon, EnsureTick, HandlerEnqueue
  <2>2. CASE \E j \in Jobs, key \in Keys : Insert(w, j, key, 0)
    BY <2>1, <2>2, <1>8
  <2>3. CASE UNCHANGED <<row, draft, lock>>
    BY <2>1, <2>3, <1>9 DEF worker
  <2>4. wanted[w] \in Keys \cup {NoKey}
    BY <1>a DEF Inv, Typed
  <2> QED BY <1>10, <2>2, <2>3, <2>4 DEF KeyWon, EnsureTick, HandlerEnqueue, WaitForKey
<1>11. ASSUME NEW j \in Jobs, AbandonClaim(w, j) PROVE Transactions'
  <2>1. /\ UNCHANGED <<lock, pc, todo, current, expired>> /\ lock[j] = Nobody
        /\ row'[j] = Claimed(row[j], w) /\ draft'[j] = Claimed(row[j], w)
        /\ \A k \in Jobs : k # j => row'[k] = row[k] /\ draft'[k] = draft[k]
    BY <1>11, <1>d DEF AbandonClaim, worker
  <2>2. Claimed(row[j], w).status = "running"
    BY <1>b, RowLives
  <2>3. Untouched(w)
    BY <2>1, <1>a DEF Untouched
  <2>4. OfWorker(w)'
    BY <2>1, <2>3, <1>e, OthersTransactions
  <2> QED BY <2>1, <2>2, <2>4, <1>d, <1>g, <1>h
<1> QED
  BY <1>1, <1>2, <1>3, <1>4, <1>6, <1>7, <1>10, <1>11 DEF WorkerStep, WorkerChoice

\* A request's step touches no row that another session has locked.
LEMMA RequestFrame ==
    ASSUME Inv, NEW r \in Requests, RequestStep(r) \/ RequestCommit(r)
    PROVE  /\ \A s \in Sessions : s # r => Untouched(s)
           /\ UNCHANGED worker
<1>a. Nobody \notin Sessions /\ r \in Sessions
  BY NamesAssumption DEF NamesAssumption, Sessions
<1>b. DOMAIN lock = Jobs /\ DOMAIN row = Jobs /\ DOMAIN draft = Jobs
  BY DEF Inv, Typed
<1> USE DEF Untouched
<1>1. ASSUME NEW key \in Keys \cup {NoKey}, RequestEnqueue(r, key, Null)
      PROVE  \A s \in Sessions : s # r => Untouched(s)
  <2>1. PICK j \in Jobs : WriteRow(r, j, NewRow(key, Null)) /\ lock[j] = Nobody
    BY <1>1 DEF RequestEnqueue, Insert, IsOldest, FreshSlots
  <2> QED BY <2>1, <1>a, <1>b DEF WriteRow
<1>2. CASE RequestCommit(r)
  BY <1>2, <1>a, <1>b DEF RequestCommit, CommitOf, View
<1>3. CASE RequestRollback(r) \/ RequestLoses(r)
  BY <1>3, <1>a, <1>b DEF RequestRollback, RequestLoses, KeyLost, RollbackOf
<1>4. CASE RequestWrite(r)
  BY <1>4, <1>a, <1>b DEF RequestWrite
<1>5. ASSUME UNCHANGED <<row, draft, lock>> PROVE \A s \in Sessions : s # r => Untouched(s)
  BY <1>5
<1>6. UNCHANGED worker
  BY DEF RequestStep, RequestEnqueue, RequestEnqueueAgain, RequestCommit, RequestRollback,
         RequestWait, RequestLoses, RequestLoad, RequestWrite
<1> QED
  BY <1>1, <1>2, <1>3, <1>4, <1>5, <1>6
     DEF RequestStep, RequestEnqueueAgain, RequestWait, WaitForKey, RequestLoad, db

\* A request's own rows are rows it has inserted, or that it commits at once.
LEMMA RequestTransactions ==
    ASSUME Inv, Transactions, LoadedStatus, NEW r \in Requests, RequestStep(r) \/ RequestCommit(r)
    PROVE  Transactions'
<1>a. /\ Nobody \notin Sessions /\ r \in Sessions /\ Workers \subseteq Sessions
      /\ Requests \subseteq Sessions /\ \A w \in Workers : w # r
  BY NamesAssumption DEF NamesAssumption, Sessions
<1>b. \A j \in Jobs : /\ row[j] \in Rows /\ draft[j] \in Rows
                      /\ lock[j] = Nobody => draft[j] = row[j]
  BY DEF Inv, Typed, Locking
<1>c. /\ \A w \in Workers : OfWorker(w)'
      /\ \A q \in Requests, j \in Jobs : q # r /\ lock'[j] = q => Untried(row'[j], draft'[j])
      /\ DOMAIN expired' = Workers
      /\ \A w \in Workers : \A j \in DOMAIN expired'[w] : expired'[w][j].status = "running"
  <2>1. UNCHANGED <<pc, expired, todo, current>> /\ \A s \in Sessions : s # r => Untouched(s)
    BY RequestFrame DEF worker
  <2>2. \A w \in Workers : OfWorker(w)'
    BY <2>1, <1>a, OthersTransactions DEF Transactions
  <2> QED BY <2>1, <2>2, <1>a DEF Transactions, Untouched, Untried, SameLife
<1>d. ASSUME \A j \in Jobs : (row'[j].status = "absent" => row'[j].attempts = 0),
             \A j \in Jobs : (draft'[j].status = "absent" => draft'[j].attempts = 0),
             \A j \in Jobs : lock'[j] = r => Untried(row'[j], draft'[j])
      PROVE  Transactions'
  BY <1>c, <1>d DEF Transactions
<1>e. /\ \A j \in Jobs : (row[j].status = "absent" => row[j].attempts = 0)
      /\ \A j \in Jobs : (draft[j].status = "absent" => draft[j].attempts = 0)
      /\ \A j \in Jobs : lock[j] = r => Untried(row[j], draft[j])
  BY DEF Transactions
<1>1. ASSUME NEW key \in Keys \cup {NoKey}, RequestEnqueue(r, key, Null)
      PROVE  Transactions'
  <2>1. PICK j \in Jobs : Insert(r, j, key, Null)
    BY <1>1 DEF RequestEnqueue
  <2>2. /\ row' = row /\ row[j].status = "absent"
        /\ draft'[j].status = "queued" /\ draft'[j].attempts = 0
        /\ \A k \in Jobs : k # j => draft'[k] = draft[k] /\ lock'[k] = lock[k]
    BY <2>1 DEF Insert, IsOldest, FreshSlots, WriteRow, NewRow, Inv, Typed
  <2>3. \A k \in Jobs : lock'[k] = r => Untried(row'[k], draft'[k])
    BY <2>2, <1>e DEF Untried, SameLife
  <2> QED BY <2>2, <2>3, <1>d, <1>e
<1>2. CASE RequestCommit(r) \/ RequestRollback(r) \/ RequestLoses(r)
  <2>1. /\ \A j \in Jobs : lock'[j] # r
        /\ \A j \in Jobs : row'[j] \in {row[j], draft[j]} /\ draft'[j] \in {row[j], draft[j]}
    BY <1>2, <1>a DEF RequestCommit, CommitOf, View, RequestRollback, RequestLoses, KeyLost, RollbackOf
  <2> QED BY <2>1, <1>d, <1>e
<1>3. CASE RequestWrite(r)
  <2> DEFINE j    == req[r].job
             seen == req[r].seen
             new  == IF req[r].op = "cancel" THEN Cancelled(seen) ELSE Retried(seen)
             out  == OrmUpdate(row[j], seen, new)
  <2>1. req[r] \in [phase : {"loaded", "done"}, op : {"cancel", "retry"},
                    job : Jobs, seen : Rows]
    BY <1>3 DEF RequestWrite, RequestIs, Inv, Typed, RequestStates, NoRequest
  <2>2. j \in Jobs /\ seen \in Rows /\ row[j] \in Rows
    BY <2>1, <1>b
  <2>3. out.status # "absent"
    <3>1. CASE req[r].op = "cancel" /\ seen.status \in Waiting
      BY <3>1, <2>2, WriteStatus
    <3>2. CASE req[r].op = "retry" /\ seen.status = "failed"
      BY <3>2, <2>2, WriteStatus
    <3> QED BY <3>1, <3>2, <1>3 DEF LoadedStatus, RequestWrite, RequestIs
  <2>4. /\ lock[j] = Nobody /\ lock' = lock
        /\ row' = [row EXCEPT ![j] = out] /\ draft' = [draft EXCEPT ![j] = out]
    BY <1>3 DEF RequestWrite
  <2> HIDE DEF j, out
  <2>5. /\ row'[j] = out /\ draft'[j] = out
        /\ \A k \in Jobs : k # j => row'[k] = row[k] /\ draft'[k] = draft[k]
    BY <2>2, <2>4 DEF Inv, Typed
  <2> QED BY <2>2, <2>3, <2>4, <2>5, <1>a, <1>d, <1>e DEF Untried, SameLife
<1>4. CASE UNCHANGED <<row, draft, lock>>
  BY <1>4, <1>d, <1>e DEF Untried, SameLife
<1> QED
  BY <1>1, <1>2, <1>3, <1>4
     DEF RequestStep, RequestEnqueueAgain, RequestWait, WaitForKey, RequestLoad, db

\* Time changes no row's status or attempts.
LEMMA TickLives ==
    ASSUME Inv, Tick
    PROVE  /\ \A j \in Jobs : SameLife(row'[j], row[j]) /\ SameLife(draft'[j], draft[j])
           /\ UNCHANGED <<lock, wanted, worker, req, observed>>
BY RowLives DEF Tick, Inv, Typed

\* Time leaves every transaction as it is.
LEMMA TickTransactions == ASSUME Inv, Transactions, Tick PROVE Transactions'
<1>1. UNCHANGED <<lock, pc, expired, todo, current>>
  BY TickLives DEF worker
<1>2. \A j \in Jobs : /\ row'[j].status = row[j].status /\ row'[j].attempts = row[j].attempts
                      /\ draft'[j].status = draft[j].status /\ draft'[j].attempts = draft[j].attempts
  BY TickLives DEF SameLife
<1>3. \A j \in Jobs : /\ Untried(row[j], draft[j]) => Untried(row'[j], draft'[j])
                      /\ Ended(j, row[j], draft[j]) => Ended(j, row'[j], draft'[j])
                      /\ Tried(row[j], draft[j]) => Tried(row'[j], draft'[j])
  BY <1>2 DEF Untried, Tried, Ended, SameLife
<1>4. \A w \in Workers : OfWorker(w)'
  <2> SUFFICES ASSUME NEW w \in Workers PROVE OfWorker(w)'
    OBVIOUS
  <2>1. OfWorker(w) /\ (current[w] # Null => current[w] \in Jobs)
    BY DEF Transactions, Inv, Typed
  <2> HIDE DEF Untried, Tried, Ended
  <2> QED BY <2>1, <1>1, <1>2, <1>3 DEF OfWorker
<1> QED BY <1>1, <1>2, <1>3, <1>4 DEF Transactions

\* Every transaction stays within the rules while what is reaped is fresh.
LEMMA NextTransactions ==
    Inv /\ LoadedStatus /\ Transactions /\ ReapsAreFresh /\ [Next]_vars => Transactions'
<1> SUFFICES ASSUME Inv, LoadedStatus, Transactions, ReapsAreFresh, [Next]_vars PROVE Transactions'
  OBVIOUS
<1>1. CASE UNCHANGED vars
  <2>1. UNCHANGED <<row, draft, lock, pc, todo, current, expired>>
    BY <1>1 DEF vars
  <2>2. \A w \in Workers : OfWorker(w)'
    BY <2>1, OthersTransactions DEF Transactions, Untouched
  <2> QED BY <2>1, <2>2 DEF Transactions, Untried, SameLife
<1>2. CASE Next
  BY <1>2, NextInv, WorkerTransactions, RequestTransactions, TickTransactions DEF Next
<1> QED BY <1>1, <1>2

-----------------------------------------------------------------------------
(* The refinement of JobLifecycle: every commit takes each job along an    *)
(* arrow of the state machine, or leaves it where it is.                   *)

\* What JobLifecycle sees of a row.
Life(r) == [status |-> r.status, attempts |-> r.attempts]

Moved(j, a, b) == SameLife(a, b) \/ Lifecycle!JobStep(j, Life(a), Life(b))

\* What sessions make of a row are arrows of the state machine.
LEMMA Arrows ==
    ASSUME NEW j \in Jobs, NEW a \in Rows, NEW b \in Rows, a.status = "absent" => a.attempts = 0
    PROVE  /\ Untried(a, b) => Moved(j, a, b)
           /\ Ended(j, a, b) => Moved(j, a, b)
           /\ a.status \in {"running"} \cup Waiting /\ b.status = "running" /\ b.attempts = a.attempts + 1
                => Moved(j, a, b)
           /\ a.status \in Waiting /\ b.status = "cancelled" /\ b.attempts = a.attempts
                => Moved(j, a, b)
           /\ a.status = "failed" /\ b.status = "queued" /\ b.attempts = 0 => Moved(j, a, b)
<1> USE DEF Moved, Life, Waiting, Lifecycle!JobStep, Lifecycle!RetryOrFail,
            Lifecycle!Absent, Lifecycle!Queued
<1>1. Untried(a, b) => Moved(j, a, b)
  BY DEF Untried, AfterAttempt, SameLife, Lifecycle!Enqueue, Lifecycle!Reap
<1>2. Ended(j, a, b) => Moved(j, a, b)
  BY DEF Ended, Tried, AfterAttempt, Lifecycle!Run
<1>3. a.status \in {"running"} \cup Waiting /\ b.status = "running" /\ b.attempts = a.attempts + 1
        => Moved(j, a, b)
  BY DEF Lifecycle!Claim
<1>4. a.status \in Waiting /\ b.status = "cancelled" /\ b.attempts = a.attempts => Moved(j, a, b)
  BY DEF Lifecycle!Cancel
<1>5. a.status = "failed" /\ b.status = "queued" /\ b.attempts = 0 => Moved(j, a, b)
  BY DEF Lifecycle!Retry
<1> QED BY <1>1, <1>2, <1>3, <1>4, <1>5

\* A worker's commit takes jobs along arrows, as does the claim of a session
\* that dies.
LEMMA WorkerMoves ==
    ASSUME Inv, Inv', Transactions, NEW w \in Workers, WorkerStep(w) \/ WorkerChoice(w)
    PROVE  \A j \in Jobs : Moved(j, row[j], row'[j])
<1>a. \A j \in Jobs : /\ row[j] \in Rows /\ draft[j] \in Rows /\ row'[j] \in Rows
                      /\ row[j].status = "absent" => row[j].attempts = 0
  BY DEF Inv, Typed, Transactions
<1>1. CASE Commit(w)
  <2>1. current[w] = Null /\ \A j \in Jobs : row'[j] = IF lock[j] = w THEN draft[j] ELSE row[j]
    BY <1>1 DEF Commit, CommitOf, View
  <2>2. \A j \in Jobs : lock[j] = w => Untried(row[j], draft[j]) \/ Ended(j, row[j], draft[j])
    BY <2>1, NamesAssumption DEF Transactions, OfWorker, NamesAssumption
  <2>3. ASSUME NEW j \in Jobs PROVE Moved(j, row[j], row'[j])
    <3>1. CASE lock[j] = w
      <4>1. row'[j] = draft[j] /\ row[j] \in Rows /\ draft[j] \in Rows
        BY <2>1, <3>1, <1>a
      <4>2. Moved(j, row[j], draft[j])
        BY <2>2, <3>1, <4>1, <1>a, Arrows
      <4> QED BY <4>1, <4>2
    <3>2. CASE lock[j] # w
      BY <2>1, <3>2 DEF Moved, SameLife
    <3> QED BY <3>1, <3>2
  <2> QED BY <2>3
<1>2. ASSUME NEW k \in Jobs, AbandonClaim(w, k) PROVE \A j \in Jobs : Moved(j, row[j], row'[j])
  <2>1. /\ row'[k] = Claimed(row[k], w) /\ \A j \in Jobs : j # k => row'[j] = row[j]
        /\ row[k].status \in {"running"} \cup Waiting
    BY <1>2 DEF AbandonClaim, Claimable, LeaseLapsed, Inv, Typed
  <2>2. row'[k].status = "running" /\ row'[k].attempts = row[k].attempts + 1
    <3>1. row[k] \in Rows
      BY <1>a
    <3>2. Claimed(row[k], w).status = "running" /\ Claimed(row[k], w).attempts = row[k].attempts + 1
      BY <3>1 DEF Claimed, Rows
    <3> QED BY <2>1, <3>2
  <2>3. Moved(k, row[k], row'[k])
    BY <2>1, <2>2, <1>a, Arrows
  <2> QED BY <2>1, <2>3 DEF Moved, SameLife
<1>3. CASE row' = row
  BY <1>3 DEF Moved, SameLife
<1> QED
  BY <1>1, <1>2, <1>3
     DEF WorkerStep, WorkerChoice, StartCycle, Reap, Scan, Claim, Complete, Fail, Settle, WriteRow,
         EnsureTick, HandlerEnqueue, KeyWon, Insert, WaitForKey, AbortCycle, LoseCycle, KeyLost,
         RollbackOf, db

\* A request's commit inserts a job; a cancel and a retry of a row that has not
\* changed take it along their arrows.
LEMMA RequestMoves ==
    ASSUME Inv, Inv', LoadedStatus, Transactions, Fresh("cancel"), Fresh("retry"),
           NEW r \in Requests, RequestStep(r) \/ RequestCommit(r)
    PROVE  \A j \in Jobs : Moved(j, row[j], row'[j])
<1>a. \A j \in Jobs : /\ row[j] \in Rows /\ draft[j] \in Rows /\ row'[j] \in Rows
                      /\ row[j].status = "absent" => row[j].attempts = 0
  BY DEF Inv, Typed, Transactions
<1>1. CASE RequestCommit(r)
  <2>1. \A j \in Jobs : row'[j] = IF lock[j] = r THEN draft[j] ELSE row[j]
    BY <1>1 DEF RequestCommit, CommitOf, View
  <2>2. \A j \in Jobs : lock[j] = r => Untried(row[j], draft[j])
    BY DEF Transactions
  <2> QED BY <2>1, <2>2, <1>a, Arrows DEF Moved, SameLife
<1>2. CASE RequestWrite(r)
  <2> DEFINE k    == req[r].job
             seen == req[r].seen
  <2>1. req[r] \in [phase : {"loaded", "done"}, op : {"cancel", "retry"},
                    job : Jobs, seen : Rows]
    BY <1>2 DEF RequestWrite, RequestIs, Inv, Typed, RequestStates, NoRequest
  <2>2. k \in Jobs /\ seen \in Rows /\ row[k] \in Rows /\ req[r].phase = "loaded"
    BY <2>1, <1>2, <1>a DEF RequestWrite, RequestIs
  <2>3. SameLife(row[k], seen)
    BY <2>1, <2>2 DEF Fresh
  <2>4. \A j \in Jobs : j # k => row'[j] = row[j]
    BY <1>2 DEF RequestWrite, Inv, Typed
  <2>5. CASE req[r].op = "cancel" /\ seen.status \in Waiting
    <3>1. row'[k] = OrmUpdate(row[k], seen, Cancelled(seen))
      BY <1>2, <2>2, <2>5 DEF RequestWrite, Inv, Typed
    <3>2. /\ row[k].status \in Waiting
          /\ row'[k].status = "cancelled" /\ row'[k].attempts = row[k].attempts
      <4>1. /\ OrmUpdate(row[k], seen, Cancelled(seen)).status = "cancelled"
            /\ OrmUpdate(row[k], seen, Cancelled(seen)).attempts = row[k].attempts
        BY <2>2, <2>3, <2>5, RowLives
      <4> QED BY <3>1, <4>1, <2>3, <2>5 DEF SameLife
    <3>3. Moved(k, row[k], row'[k])
      BY <2>2, <3>2, <1>a, Arrows
    <3> QED BY <2>4, <3>3 DEF Moved, SameLife
  <2>6. CASE req[r].op = "retry" /\ seen.status = "failed"
    <3>1. row'[k] = OrmUpdate(row[k], seen, Retried(seen))
      BY <1>2, <2>2, <2>6 DEF RequestWrite, Inv, Typed
    <3>2. row[k].status = "failed" /\ row'[k].status = "queued" /\ row'[k].attempts = 0
      <4>1. /\ OrmUpdate(row[k], seen, Retried(seen)).status = "queued"
            /\ OrmUpdate(row[k], seen, Retried(seen)).attempts = 0
        BY <2>2, <2>3, <2>6, RowLives
      <4> QED BY <3>1, <4>1, <2>3, <2>6 DEF SameLife
    <3>3. Moved(k, row[k], row'[k])
      BY <2>2, <3>2, <1>a, Arrows
    <3> QED BY <2>4, <3>3 DEF Moved, SameLife
  <2> QED BY <2>2, <2>5, <2>6 DEF LoadedStatus
<1>3. CASE row' = row
  BY <1>3 DEF Moved, SameLife
<1> QED
  BY <1>1, <1>2, <1>3
     DEF RequestStep, RequestEnqueue, Insert, WriteRow, RequestEnqueueAgain, RequestWait, WaitForKey,
         RequestRollback, RequestLoses, KeyLost, RollbackOf, RequestLoad, db

\* What every session keeps to, while what it writes is fresh.
Lives == Inv /\ LoadedStatus /\ Transactions

\* Initially no transaction is open.
LEMMA InitLives == Init => Lives
BY InitInv, InitUnclaimed, InitTransactions DEF Lives

\* Every step keeps to the rules while the rows that are reaped are fresh.
LEMMA NextLives == Lives /\ ReapsAreFresh /\ [Next]_vars => Lives'
<1> SUFFICES ASSUME Lives, ReapsAreFresh, [Next]_vars PROVE Lives'
  OBVIOUS
<1>1. LoadedStatus'
  <2>1. CASE UNCHANGED vars
    BY <2>1 DEF vars, Lives, LoadedStatus
  <2> QED BY <2>1, LoadedKept DEF Lives
<1> QED BY <1>1, NextInv, NextTransactions DEF Lives

\* The queue implements the state machine drawn in queue.py, as long as no row
\* changes between a session's load and its write of it.
THEOREM CommitsFollowArrows ==
    Spec /\ [](ReapsAreFresh /\ Fresh("cancel") /\ Fresh("retry")) => FollowsStateMachine
<1> DEFINE Unspoilt == ReapsAreFresh /\ Fresh("cancel") /\ Fresh("retry")
           life     == [j \in Jobs |-> [status |-> row[j].status, attempts |-> row[j].attempts]]
<1>1. Init => Lifecycle!Init
  <2>1. NewRow(NoKey, Null).status = "queued" /\ NewRow(NoKey, Null).attempts = 0
    BY DEF NewRow
  <2>2. AbsentRow.status = "absent" /\ AbsentRow.attempts = 0
    BY DEF AbsentRow, NewRow
  <2> QED BY <2>1, <2>2 DEF Init, Lifecycle!Init, Lifecycle!Absent, Lifecycle!Queued
<1>2. Lives /\ Unspoilt /\ [Next]_vars => Lifecycle!Next \/ UNCHANGED life
  <2> SUFFICES ASSUME Lives, Unspoilt, Next PROVE Lifecycle!Next
    BY DEF vars
  <2>1. Inv'
    BY NextInv DEF Lives
  <2>2. \A j \in Jobs : Moved(j, row[j], row'[j])
    <3>1. CASE \E w \in Workers : WorkerStep(w) \/ WorkerChoice(w)
      BY <2>1, <3>1, WorkerMoves DEF Lives
    <3>2. CASE \E r \in Requests : RequestStep(r) \/ RequestCommit(r)
      BY <2>1, <3>2, RequestMoves DEF Lives
    <3>3. CASE Tick
      BY <3>3, TickLives DEF Lives, Moved, SameLife
    <3> QED BY <3>1, <3>2, <3>3 DEF Next
  <2> QED BY <2>2 DEF Lifecycle!Next, Moved, Life, SameLife
<1> QED
  BY <1>1, <1>2, InitLives, NextLives, PTL DEF Spec, FollowsStateMachine, Lifecycle!Spec

-----------------------------------------------------------------------------
(* How often a handler is started and how often it succeeds.  A step does  *)
(* one of nine things to a job; every count of the job follows from which. *)

Uncounted(j) == starts'[j] = starts[j] /\ succeeded'[j] = succeeded[j]

Unmoved(j) == SameLife(row'[j], row[j]) /\ SameLife(draft'[j], draft[j]) /\ Uncounted(j)

\* An INSERT or a reap: a new draft of a row that had none.
Prepared(j) ==
    /\ SameLife(row'[j], row[j]) /\ SameLife(row[j], draft[j]) /\ Untried(row[j], draft'[j])
    /\ row[j].status \in {"absent", "running"}
    /\ Uncounted(j)

Started(j) ==
    /\ SameLife(row'[j], row[j]) /\ Untried(row[j], draft[j])
    /\ draft[j].status \in {"running"} \cup Waiting
    /\ draft'[j].status = "running" /\ draft'[j].attempts = draft[j].attempts + 1
    /\ starts'[j] = Bump(starts[j]) /\ succeeded'[j] = succeeded[j]

Finished(j) ==
    /\ SameLife(row'[j], row[j]) /\ Tried(row[j], draft[j]) /\ draft[j].status = "running"
    /\ Ended(j, row[j], draft'[j])
    /\ starts'[j] = starts[j]
    /\ succeeded'[j] = IF draft'[j].status = "completed" THEN Bump(succeeded[j]) ELSE succeeded[j]

Published(j) ==
    /\ SameLife(row'[j], draft[j]) /\ SameLife(draft'[j], draft[j])
    /\ Untried(row[j], draft[j]) \/ Ended(j, row[j], draft[j])
    /\ Uncounted(j)

\* A rollback: attempts are given back only where a worker's cycle was lost.
Discarded(j) ==
    /\ SameLife(row'[j], row[j]) /\ SameLife(draft'[j], row[j])
    /\ \/ Untried(row[j], draft[j])
       \/ /\ Tried(row[j], draft[j])
          /\ (aborts' = aborts + 1 \/ losses' = Bump(losses))
    /\ Uncounted(j)

Abandoned(j) ==
    /\ SameLife(row[j], draft[j]) /\ SameLife(row'[j], draft'[j])
    /\ row[j].status \in {"running"} \cup Waiting
    /\ row'[j].status = "running" /\ row'[j].attempts = row[j].attempts + 1
    /\ Uncounted(j)

CancelledNow(j) ==
    /\ SameLife(row[j], draft[j]) /\ SameLife(row'[j], draft'[j])
    /\ row'[j].status = "cancelled" /\ row'[j].attempts = row[j].attempts
    /\ Uncounted(j)

Retries(j) == {r \in Requests : req[r].op = "retry" /\ req[r].job = j /\ req[r].phase = "done"}

RetriedNow(j) ==
    /\ SameLife(row[j], draft[j]) /\ SameLife(row'[j], draft'[j])
    /\ row[j].status = "failed" /\ row'[j].status = "queued" /\ row'[j].attempts = 0
    /\ \E r \in Requests : r \notin Retries(j) /\ Retries(j)' = Retries(j) \cup {r}
    /\ Uncounted(j)

Effect(j) ==
    \/ Unmoved(j) \/ Prepared(j) \/ Started(j) \/ Finished(j) \/ Published(j)
    \/ Discarded(j) \/ Abandoned(j) \/ CancelledNow(j) \/ RetriedNow(j)

\* A session waits for a key only before it has done anything, so no request
\* that has retried a job is ever reset.
WaitsFirst == \A r \in Requests : wanted[r] # NoKey => req[r].phase = "idle"

\* A request that waits is one that has not inserted or loaded anything.
LEMMA WaitsFirstKept == Inv /\ WaitsFirst /\ Next => WaitsFirst'
<1> SUFFICES ASSUME Inv, WaitsFirst, Next PROVE WaitsFirst'
  OBVIOUS
<1>a. \A r \in Requests : r \in Sessions /\ r \notin Workers
  BY NamesAssumption DEF Sessions, NamesAssumption
<1>b. req \in [Requests -> RequestStates] /\ wanted \in [Sessions -> Keys \cup {NoKey}]
  BY DEF Inv, Typed
<1>1. ASSUME NEW r \in Requests, RequestStep(r) \/ RequestCommit(r) PROVE WaitsFirst'
  <2>1. CASE RequestCommit(r) \/ RequestWrite(r) \/ \E j \in Jobs, op \in {"cancel", "retry"} : RequestLoad(r, j, op)
    <3>1. wanted' = wanted /\ wanted[r] = NoKey /\ \A q \in Requests : q # r => req'[q] = req[q]
      BY <2>1, <1>b DEF RequestCommit, RequestWrite, RequestLoad, RequestIs, CommitOf, db
    <3> QED BY <3>1 DEF WaitsFirst
  <2>2. CASE \E key \in Keys \cup {NoKey} : RequestEnqueue(r, key, Null)
    <3>1. wanted'[r] = NoKey /\ \A q \in Requests : q # r => req'[q] = req[q] /\ wanted'[q] = wanted[q]
      BY <2>2, <1>a, <1>b DEF RequestEnqueue, Insert, WriteRow
    <3> QED BY <3>1 DEF WaitsFirst
  <2>3. CASE RequestRollback(r) \/ RequestLoses(r)
    <3>1. wanted'[r] = NoKey /\ \A q \in Requests : q # r => req'[q] = req[q] /\ wanted'[q] = wanted[q]
      BY <2>3, <1>a, <1>b DEF RequestRollback, RequestLoses, KeyLost, RollbackOf
    <3> QED BY <3>1 DEF WaitsFirst
  <2>4. CASE \E key \in Keys : RequestEnqueueAgain(r, key)
    <3>1. wanted' = wanted /\ wanted[r] = NoKey /\ \A q \in Requests : q # r => req'[q] = req[q]
      BY <2>4, <1>b DEF RequestEnqueueAgain, RequestIs, db
    <3> QED BY <3>1 DEF WaitsFirst
  <2>5. CASE \E key \in Keys : RequestWait(r, key)
    <3>1. req' = req /\ req[r].phase = "idle" /\ \A q \in Requests : q # r => wanted'[q] = wanted[q]
      BY <2>5, <1>b DEF RequestWait, WaitForKey, RequestIs
    <3> QED BY <3>1 DEF WaitsFirst
  <2> QED BY <1>1, <2>1, <2>2, <2>3, <2>4, <2>5 DEF RequestStep
<1>2. ASSUME NEW w \in Workers, WorkerStep(w) \/ WorkerChoice(w) PROVE WaitsFirst'
  <2>1. req' = req
    BY <1>2 DEF WorkerStep, WorkerChoice, StartCycle, Reap, Scan, Claim, Complete, Fail,
                Settle, Commit, EnsureTick, HandlerEnqueue, KeyWon, AbortCycle, LoseCycle,
                ResetCycle, AbandonClaim
  <2>2. \A r \in Requests : wanted'[r] = wanted[r]
    BY <1>2, <1>a, <1>b
       DEF WorkerStep, WorkerChoice, StartCycle, Reap, Scan, Claim, Complete, Fail, Settle, Commit,
           CommitOf, EnsureTick, HandlerEnqueue, KeyWon, WaitForKey, Insert, WriteRow, AbortCycle,
           LoseCycle, KeyLost, RollbackOf, AbandonClaim, db
  <2> QED BY <2>1, <2>2 DEF WaitsFirst
<1>3. Tick => WaitsFirst'
  BY DEF Tick, WaitsFirst
<1> QED BY <1>1, <1>2, <1>3 DEF Next

\* The effect of a worker's step on each job.
LEMMA WorkerEffects ==
    ASSUME Lives, Inv', ReapsAreFresh, NEW w \in Workers, WorkerStep(w) \/ WorkerChoice(w),
           NEW j \in Jobs
    PROVE  /\ Effect(j)
           /\ aborts' >= aborts /\ losses' >= losses /\ req' = req
<1> USE DEF Effect
<1>a. /\ w # Nobody /\ w \in Sessions /\ Null \notin Jobs
  BY NamesAssumption DEF NamesAssumption, Sessions
<1>b. /\ row[j] \in Rows /\ draft[j] \in Rows
      /\ lock[j] = Nobody => draft[j] = row[j]
      /\ DOMAIN lock = Jobs /\ DOMAIN row = Jobs /\ DOMAIN draft = Jobs
      /\ DOMAIN starts = Jobs /\ DOMAIN succeeded = Jobs
      /\ aborts \in Nat /\ losses \in Nat
  BY SizesAssumption DEF Lives, Inv, Typed, Locking, SizesAssumption
<1>c. /\ current[w] # Null => current[w] \in Jobs /\ lock[current[w]] = w /\ pc[w] = "work"
      /\ \A k \in todo[w] : k \in Jobs /\ lock[k] = w /\ pc[w] = "work"
  BY DEF Lives, Inv, Typed, Locking
<1>d. OfWorker(w) /\ (row[j].status = "absent" => row[j].attempts = 0)
  BY DEF Lives, Transactions
<1>e. aborts' >= aborts /\ losses' >= losses /\ req' = req
  <2>1. req' = req
    BY DEF WorkerStep, WorkerChoice, StartCycle, Reap, Scan, Claim, Complete, Fail,
           Settle, Commit, EnsureTick, HandlerEnqueue, KeyWon, AbortCycle, LoseCycle,
           ResetCycle, AbandonClaim
  <2>2. aborts' \in {aborts, aborts + 1} /\ losses' \in {losses, Bump(losses)}
    BY DEF WorkerStep, WorkerChoice, StartCycle, Reap, Scan, Claim, Complete, Fail,
           Settle, Commit, EnsureTick, HandlerEnqueue, KeyWon, AbortCycle, LoseCycle, KeyLost,
           ResetCycle, AbandonClaim, observed
  <2> QED BY <2>1, <2>2, <1>b DEF Bump
<1>f. ASSUME row'[j] = row[j], draft'[j] = draft[j], Uncounted(j) PROVE Effect(j)
  BY <1>f DEF Unmoved, SameLife
<1>1. CASE StartCycle(w) \/ Scan(w)
  BY <1>1, <1>e, <1>f DEF StartCycle, Scan, db, observed, Uncounted
<1>2. CASE Reap(w)
  <2>1. CASE j \in DOMAIN expired[w]
    <3> DEFINE seen   == expired[w][j]
               reaped == Reaped(seen)
               merged == OrmUpdate(row[j], seen, reaped)
    <3>1. seen \in Rows /\ SameLife(row[j], seen) /\ seen.status = "running" /\ lock[j] = Nobody
      BY <1>2, <2>1 DEF Reap, ReapsAreFresh, Lives, Inv, Typed, Transactions
    <3>2. merged.status = AfterAttempt(row[j].attempts) /\ merged.attempts = row[j].attempts
      BY <3>1, <1>b, RowLives
    <3>3. draft'[j] = IF reaped.status = "retrying" THEN [merged EXCEPT !.run_after = 0] ELSE merged
      BY <1>2, <2>1 DEF Reap
    <3>4. merged \in Rows
      BY <3>1, <1>b, RowOperations, OrmUpdateType
    <3>5. row' = row /\ Uncounted(j)
      BY <1>2 DEF Reap, observed, Uncounted
    <3> HIDE DEF merged
    <3>6. /\ [merged EXCEPT !.run_after = 0].status = merged.status
          /\ [merged EXCEPT !.run_after = 0].attempts = merged.attempts
      BY <3>4 DEF Rows
    <3>7. draft'[j].status = AfterAttempt(row[j].attempts) /\ draft'[j].attempts = row[j].attempts
      BY <3>2, <3>3, <3>6
    <3>8. Prepared(j)
      BY <3>1, <3>5, <3>7, <1>b DEF Prepared, SameLife, Untried
    <3> QED BY <3>8, <1>e
  <2>2. CASE j \notin DOMAIN expired[w]
    BY <1>2, <2>2, <1>e, <1>f DEF Reap, observed, Uncounted
  <2> QED BY <2>1, <2>2
<1>3. CASE Claim(w)
  <2>1. PICK k \in Jobs : Claim(w)!(k)
    BY <1>3 DEF Claim
  <2>2. /\ row' = row /\ draft' = [draft EXCEPT ![k] = Claimed(draft[k], w)]
        /\ starts' = [starts EXCEPT ![k] = Bump(@)] /\ succeeded' = succeeded
    BY <2>1 DEF WriteRow
  <2>3. CASE j = k
    <3>1. j \in todo[w] /\ lock[j] = w /\ draft[j].status \in {"running"} \cup Waiting /\ current[w] = Null
      BY <2>1, <2>3, <1>c DEF IsOldest, Claimable, LeaseLapsed
    <3>2. Untried(row[j], draft[j])
      BY <3>1, <1>d DEF OfWorker
    <3>3. Claimed(draft[j], w).status = "running" /\ Claimed(draft[j], w).attempts = draft[j].attempts + 1
      BY <1>b, RowLives
    <3>4. Started(j)
      BY <2>2, <2>3, <3>1, <3>2, <3>3, <1>b DEF Started, SameLife
    <3> QED BY <3>4, <1>e
  <2>4. CASE j # k
    BY <2>2, <2>4, <1>b, <1>e, <1>f DEF Uncounted
  <2> QED BY <2>3, <2>4
<1>4. CASE Complete(w) \/ Fail(w)
  <2>1. current[w] \in Jobs /\ row' = row /\ starts' = starts
    BY <1>4 DEF Complete, Fail, Settle, WriteRow
  <2>2. CASE j = current[w]
    <3>1. Tried(row[j], draft[j]) /\ draft[j].status = "running"
      BY <2>1, <2>2, <1>a, <1>d DEF OfWorker
    <3>2. CASE Complete(w)
      <4>1. /\ draft'[j] = Completed(draft[j]) /\ succeeded'[j] = Bump(succeeded[j]) /\ j \notin Unhandled
        BY <3>2, <2>2, <1>b DEF Complete, Settle, WriteRow
      <4>2. Completed(draft[j]).status = "completed" /\ Completed(draft[j]).attempts = draft[j].attempts
        BY <1>b, RowLives
      <4>3. Finished(j)
        BY <2>1, <3>1, <4>1, <4>2 DEF Finished, Ended, Tried, SameLife
      <4> QED BY <4>3, <1>e
    <3>3. CASE Fail(w)
      <4>1. draft'[j] = Failed(draft[j], j \notin Unhandled) /\ succeeded' = succeeded
        BY <3>3, <2>2, <1>b DEF Fail, Settle, WriteRow
      <4>2. /\ draft'[j].attempts = draft[j].attempts
            /\ draft'[j].status = IF j \in Unhandled THEN "failed" ELSE AfterAttempt(draft[j].attempts)
        <5>1. CASE j \in Unhandled
          <6>1. Failed(draft[j], FALSE).status = "failed" /\ Failed(draft[j], FALSE).attempts = draft[j].attempts
            BY <1>b, RowLives
          <6> QED BY <4>1, <5>1, <6>1
        <5>2. CASE j \notin Unhandled
          <6>1. /\ Failed(draft[j], TRUE).status = AfterAttempt(draft[j].attempts)
                /\ Failed(draft[j], TRUE).attempts = draft[j].attempts
            BY <1>b, RowLives
          <6> QED BY <4>1, <5>2, <6>1
        <5> QED BY <5>1, <5>2
      <4>3. Ended(j, row[j], draft'[j]) /\ draft'[j].status # "completed"
        BY <3>1, <4>2 DEF Ended, Tried, AfterAttempt
      <4>4. Finished(j)
        BY <2>1, <3>1, <4>1, <4>3 DEF Finished, SameLife
      <4> QED BY <4>4, <1>e
    <3> QED BY <1>4, <3>2, <3>3
  <2>3. CASE j # current[w]
    <3>1. draft'[j] = draft[j] /\ succeeded'[j] = succeeded[j]
      BY <1>4, <2>3, <1>b DEF Complete, Fail, Settle, WriteRow
    <3> QED BY <2>1, <3>1, <1>e, <1>f DEF Uncounted
  <2> QED BY <2>2, <2>3
<1>5. CASE Commit(w)
  <2>1. /\ current[w] = Null /\ draft' = draft /\ row'[j] = IF lock[j] = w THEN draft[j] ELSE row[j]
        /\ Uncounted(j)
    BY <1>5 DEF Commit, CommitOf, View, observed, Uncounted
  <2>2. CASE lock[j] = w
    <3>1. Untried(row[j], draft[j]) \/ Ended(j, row[j], draft[j])
      BY <2>1, <2>2, <1>a, <1>d DEF OfWorker
    <3>2. Published(j)
      BY <2>1, <2>2, <3>1 DEF Published, SameLife
    <3> QED BY <3>2, <1>e
  <2>3. CASE lock[j] # w
    BY <2>1, <2>3, <1>e, <1>f
  <2> QED BY <2>2, <2>3
<1>6. CASE AbortCycle(w) \/ LoseCycle(w)
  <2>1. /\ RollbackOf(w) /\ Uncounted(j)
        /\ (aborts' = aborts + 1 \/ losses' = Bump(losses))
    BY <1>6 DEF AbortCycle, LoseCycle, KeyLost, ResetCycle, Uncounted
  <2>2. CASE lock[j] = w
    <3>1. Untried(row[j], draft[j]) \/ Tried(row[j], draft[j])
      BY <2>2, <1>a, <1>d DEF OfWorker, Ended
    <3>2. Discarded(j)
      BY <2>1, <2>2, <3>1 DEF Discarded, RollbackOf, SameLife
    <3> QED BY <3>2, <1>e
  <2>3. CASE lock[j] # w
    BY <2>1, <2>3, <1>e, <1>f DEF RollbackOf
  <2> QED BY <2>2, <2>3
<1>7. ASSUME NEW k \in Jobs, NEW key \in Keys, Insert(w, k, key, 0), UNCHANGED observed
      PROVE  Effect(j)
  <2>1. /\ row' = row /\ row[k].status = "absent" /\ lock[k] = Nobody
        /\ draft' = [draft EXCEPT ![k] = NewRow(key, 0)] /\ Uncounted(j)
    BY <1>7 DEF Insert, IsOldest, FreshSlots, WriteRow, observed, Uncounted
  <2>2. CASE j = k
    <3>1. draft'[j].status = "queued" /\ draft'[j].attempts = 0
      BY <2>1, <2>2, <1>b DEF NewRow
    <3> QED BY <2>1, <2>2, <3>1, <1>b, <1>d DEF Prepared, Untried, SameLife
  <2>3. CASE j # k
    BY <2>1, <2>3, <1>b, <1>f
  <2> QED BY <2>2, <2>3
<1>8. CASE KeyWon(w) \/ \E key \in Keys : EnsureTick(w, key) \/ HandlerEnqueue(w, key, 0)
  <2>1. UNCHANGED observed
    BY <1>8 DEF KeyWon, EnsureTick, HandlerEnqueue
  <2>2. CASE \E k \in Jobs, key \in Keys : Insert(w, k, key, 0)
    BY <2>1, <2>2, <1>e, <1>7
  <2>3. CASE UNCHANGED <<row, draft, lock>>
    BY <2>1, <2>3, <1>e, <1>f DEF observed, Uncounted
  <2>4. wanted[w] \in Keys \cup {NoKey}
    BY <1>a DEF Lives, Inv, Typed
  <2> QED BY <1>8, <2>2, <2>3, <2>4 DEF KeyWon, EnsureTick, HandlerEnqueue, WaitForKey
<1>9. ASSUME NEW k \in Jobs, AbandonClaim(w, k) PROVE Effect(j)
  <2>1. /\ row' = [row EXCEPT ![k] = Claimed(row[k], w)] /\ draft' = [draft EXCEPT ![k] = Claimed(row[k], w)]
        /\ Uncounted(j) /\ lock[k] = Nobody /\ row[k].status \in {"running"} \cup Waiting
    BY <1>9 DEF AbandonClaim, Claimable, LeaseLapsed, Uncounted
  <2>2. CASE j = k
    <3>1. Claimed(row[j], w).status = "running" /\ Claimed(row[j], w).attempts = row[j].attempts + 1
      BY <1>b, RowLives
    <3> QED BY <2>1, <2>2, <3>1, <1>b DEF Abandoned, SameLife
  <2>3. CASE j # k
    BY <2>1, <2>3, <1>b, <1>f
  <2> QED BY <2>2, <2>3
<1> QED
  BY <1>1, <1>2, <1>3, <1>4, <1>5, <1>6, <1>8, <1>9, <1>e DEF WorkerStep, WorkerChoice

\* The effect of a request's step on each job.
LEMMA RequestEffects ==
    ASSUME Lives, Inv', Fresh("retry"), WaitsFirst, NEW r \in Requests,
           RequestStep(r) \/ RequestCommit(r), NEW j \in Jobs
    PROVE  /\ Effect(j)
           /\ aborts' >= aborts /\ losses' >= losses
           /\ Retries(j) \subseteq Retries(j)'
<1>a. /\ r # Nobody /\ r \in Sessions /\ Null \notin Jobs
  BY NamesAssumption DEF NamesAssumption, Sessions
<1>b. /\ row[j] \in Rows /\ draft[j] \in Rows
      /\ lock[j] = Nobody => draft[j] = row[j]
      /\ DOMAIN lock = Jobs /\ DOMAIN row = Jobs /\ DOMAIN draft = Jobs
      /\ aborts \in Nat /\ losses \in Nat
      /\ req \in [Requests -> RequestStates]
  BY SizesAssumption DEF Lives, Inv, Typed, Locking, SizesAssumption
<1>d. /\ lock[j] = r => Untried(row[j], draft[j])
      /\ row[j].status = "absent" => row[j].attempts = 0
  BY DEF Lives, Transactions
<1>e. aborts' >= aborts /\ losses' >= losses
  <2>1. aborts' = aborts /\ losses' \in {losses, Bump(losses)}
    BY DEF RequestStep, RequestEnqueue, RequestEnqueueAgain, RequestCommit, RequestRollback,
           RequestWait, RequestLoses, KeyLost, RequestLoad, RequestWrite, observed
  <2> QED BY <2>1, <1>b DEF Bump
<1>f. ASSUME row'[j] = row[j], draft'[j] = draft[j], Uncounted(j) PROVE Effect(j)
  BY <1>f DEF Effect, Unmoved, SameLife
<1>g. Uncounted(j)
  BY DEF RequestStep, RequestEnqueue, RequestEnqueueAgain, RequestCommit, RequestRollback,
         RequestWait, RequestLoses, RequestLoad, RequestWrite, observed, Uncounted
<1>h. ASSUME \A q \in Requests : q # r => req'[q] = req[q], r \notin Retries(j)
      PROVE  Retries(j) \subseteq Retries(j)'
  BY <1>h DEF Retries
<1>1. ASSUME NEW key \in Keys \cup {NoKey}, RequestEnqueue(r, key, Null)
      PROVE  Effect(j) /\ Retries(j) \subseteq Retries(j)'
  <2>1. PICK k \in Jobs : Insert(r, k, key, Null)
    BY <1>1 DEF RequestEnqueue
  <2>2. /\ row' = row /\ row[k].status = "absent" /\ lock[k] = Nobody
        /\ draft' = [draft EXCEPT ![k] = NewRow(key, Null)]
    BY <2>1 DEF Insert, IsOldest, FreshSlots, WriteRow
  <2>3. Effect(j)
    <3>1. CASE j = k
      <4>1. draft'[j].status = "queued" /\ draft'[j].attempts = 0
        BY <2>2, <3>1, <1>b DEF NewRow
      <4> QED BY <2>2, <3>1, <4>1, <1>b, <1>d, <1>g DEF Effect, Prepared, Untried, SameLife
    <3>2. CASE j # k
      BY <2>2, <3>2, <1>b, <1>f, <1>g
    <3> QED BY <3>1, <3>2
  <2>4. req[r].phase = "idle" /\ \A q \in Requests : q # r => req'[q] = req[q]
    BY <1>1, <1>b DEF RequestEnqueue
  <2> QED BY <2>3, <2>4, <1>h DEF Retries
<1>2. CASE RequestCommit(r)
  <2>1. draft' = draft /\ row'[j] = IF lock[j] = r THEN draft[j] ELSE row[j]
    BY <1>2 DEF RequestCommit, CommitOf, View
  <2>2. Effect(j)
    <3>1. CASE lock[j] = r
      BY <2>1, <3>1, <1>d, <1>g DEF Effect, Published, SameLife
    <3>2. CASE lock[j] # r
      BY <2>1, <3>2, <1>f, <1>g
    <3> QED BY <3>1, <3>2
  <2>3. req[r].phase = "enqueued" /\ \A q \in Requests : q # r => req'[q] = req[q]
    BY <1>2, <1>b DEF RequestCommit, RequestIs
  <2> QED BY <2>2, <2>3, <1>h, <1>e DEF Retries
<1>3. CASE RequestRollback(r) \/ RequestLoses(r)
  <2>1. row'[j] = row[j] /\ draft'[j] = IF lock[j] = r THEN row[j] ELSE draft[j]
    BY <1>3 DEF RequestRollback, RequestLoses, KeyLost, RollbackOf
  <2>2. Effect(j)
    <3>1. CASE lock[j] = r
      BY <2>1, <3>1, <1>d, <1>g DEF Effect, Discarded, SameLife
    <3>2. CASE lock[j] # r
      BY <2>1, <3>2, <1>f, <1>g
    <3> QED BY <3>1, <3>2
  <2>3. req[r].phase \in {"idle", "enqueued"} /\ \A q \in Requests : q # r => req'[q] = req[q]
    BY <1>3, <1>b DEF RequestRollback, RequestLoses, RequestIs, KeyLost, WaitsFirst
  <2> QED BY <2>2, <2>3, <1>h, <1>e DEF Retries
<1>4. CASE RequestWrite(r)
  <2> DEFINE k    == req[r].job
             seen == req[r].seen
             new  == IF req[r].op = "cancel" THEN Cancelled(seen) ELSE Retried(seen)
             out  == OrmUpdate(row[k], seen, new)
  <2>1. /\ req[r] \in [phase : {"loaded", "done"}, op : {"cancel", "retry"},
                       job : Jobs, seen : Rows]
        /\ req[r].phase = "loaded"
    BY <1>4, <1>b DEF RequestWrite, RequestIs, RequestStates, NoRequest
  <2>2. k \in Jobs /\ seen \in Rows /\ row[k] \in Rows
    BY <2>1 DEF Lives, Inv, Typed
  <2>3. /\ row' = [row EXCEPT ![k] = out] /\ draft' = [draft EXCEPT ![k] = out] /\ lock[k] = Nobody
    BY <1>4 DEF RequestWrite
  <2>4. /\ req'[r] = [req[r] EXCEPT !.phase = "done"]
        /\ \A q \in Requests : q # r => req'[q] = req[q]
    BY <1>4, <1>b DEF RequestWrite
  <2>5. Retries(j) \subseteq Retries(j)'
    BY <2>1, <2>4, <1>h DEF Retries
  <2>6. CASE j # k
    <3> HIDE DEF out
    <3> QED BY <2>3, <2>5, <2>6, <1>b, <1>f, <1>g, <1>e
  <2>7. CASE j = k /\ req[r].op = "cancel"
    <3>1. seen.status \in Waiting /\ out = OrmUpdate(row[j], seen, Cancelled(seen))
      BY <2>1, <2>7 DEF Lives, LoadedStatus
    <3>2. out.status = "cancelled"
      BY <3>1, <2>2, <1>b, WriteStatus
    <3>3. out.attempts = row[j].attempts
      <4>1. Cancelled(seen).attempts = seen.attempts
        <5> HIDE DEF seen
        <5> QED BY <2>2 DEF Cancelled, ReleaseLease, Rows
      <4>2. row[j] \in Rows
        BY <1>b
      <4> HIDE DEF seen, out
      <4> QED BY <3>1, <4>1, <4>2 DEF OrmUpdate, Column, Rows
    <3>4. row'[j] = out /\ draft'[j] = out /\ draft[j] = row[j]
      <4> HIDE DEF out
      <4> QED BY <2>2, <2>3, <2>7, <1>b
    <3> HIDE DEF out
    <3>5. CancelledNow(j)
      BY <3>1, <3>2, <3>3, <3>4, <1>b, <1>g DEF CancelledNow, SameLife
    <3> QED BY <3>5, <2>5, <1>e DEF Effect
  <2>8. CASE j = k /\ req[r].op = "retry"
    <3>1. /\ seen.status = "failed" /\ out = OrmUpdate(row[j], seen, Retried(seen))
          /\ SameLife(row[j], seen)
      BY <2>1, <2>8 DEF Lives, LoadedStatus, Fresh
    <3>2. out.status = "queued" /\ out.attempts = 0
      <4>1. row[j] \in Rows /\ seen \in Rows
        BY <2>2, <1>b
      <4> HIDE DEF seen
      <4>2. /\ OrmUpdate(row[j], seen, Retried(seen)).status = "queued"
            /\ OrmUpdate(row[j], seen, Retried(seen)).attempts = 0
        BY <3>1, <4>1, RowLives
      <4> HIDE DEF out
      <4> QED BY <3>1, <4>2
    <3>3. r \notin Retries(j) /\ Retries(j)' = Retries(j) \cup {r}
      <4>1. req'[r].op = "retry" /\ req'[r].job = j /\ req'[r].phase = "done"
        BY <2>1, <2>4, <2>8
      <4> QED BY <4>1, <2>1, <2>4 DEF Retries
    <3>4. RetriedNow(j)
      <4>1. SameLife(row[j], draft[j])
        BY <2>2, <2>3, <2>8, <1>b DEF SameLife
      <4>2. row'[j] = out /\ draft'[j] = out
        <5> HIDE DEF out
        <5> QED BY <2>2, <2>3, <2>8, <1>b
      <4>3. row[j].status = "failed"
        BY <3>1 DEF SameLife
      <4> HIDE DEF out
      <4> QED BY <4>1, <4>2, <4>3, <3>2, <3>3, <1>g DEF RetriedNow, SameLife
    <3> QED BY <2>5, <3>4, <1>e DEF Effect
  <2> QED BY <2>1, <2>6, <2>7, <2>8
<1>5. CASE \/ \E key \in Keys : RequestEnqueueAgain(r, key)
           \/ \E i \in Jobs, op \in {"cancel", "retry"} : RequestLoad(r, i, op)
  <2>1. /\ row' = row /\ draft' = draft /\ req[r].phase = "idle"
        /\ \A q \in Requests : q # r => req'[q] = req[q]
    BY <1>5, <1>b DEF RequestEnqueueAgain, RequestLoad, RequestIs, db
  <2> QED BY <2>1, <1>e, <1>f, <1>g, <1>h DEF Retries
<1>6. CASE \E key \in Keys : RequestWait(r, key)
  <2>1. row' = row /\ draft' = draft /\ req' = req
    BY <1>6 DEF RequestWait, WaitForKey
  <2> QED BY <2>1, <1>e, <1>f, <1>g DEF Retries
<1> QED BY <1>1, <1>2, <1>3, <1>4, <1>5, <1>6, <1>e DEF RequestStep

\* Every step has one of the nine effects on every job, and no counter falls.
LEMMA Effects ==
    ASSUME Lives, ReapsAreFresh, Fresh("retry"), WaitsFirst, Next, NEW j \in Jobs
    PROVE  /\ Effect(j)
           /\ aborts' >= aborts /\ losses' >= losses
           /\ Retries(j) \subseteq Retries(j)'
<1>1. Inv'
  BY NextInv DEF Lives
<1>2. CASE Tick
  <2>1. Effect(j) /\ aborts' = aborts /\ losses' = losses /\ req' = req
    BY <1>2, TickLives DEF Lives, Effect, Unmoved, Uncounted, observed
  <2> QED BY <2>1, SizesAssumption DEF Retries, Lives, Inv, Typed, SizesAssumption
<1>3. CASE \E w \in Workers : WorkerStep(w) \/ WorkerChoice(w)
  BY <1>1, <1>3, WorkerEffects DEF Retries
<1>4. CASE \E r \in Requests : RequestStep(r) \/ RequestCommit(r)
  BY <1>1, <1>4, RequestEffects
<1> QED BY <1>2, <1>3, <1>4 DEF Next

\* What the two counting theorems need of every state, and of the rows that
\* sessions load to reap or to retry them.
Counting == Lives /\ WaitsFirst
LoadsStayFresh == ReapsAreFresh /\ Fresh("retry")

\* Initially no session waits for a key.
LEMMA InitCounting == Init => Counting
BY InitLives DEF Counting, WaitsFirst, Init, Sessions

\* Every step keeps the rules of counting while what is loaded stays fresh.
LEMMA NextCounting == Counting /\ LoadsStayFresh /\ [Next]_vars => Counting'
<1>1. WaitsFirst /\ UNCHANGED vars => WaitsFirst'
  BY DEF vars, WaitsFirst
<1> QED BY <1>1, NextLives, WaitsFirstKept DEF Counting, LoadsStayFresh, Lives

\* A job that has succeeded is over, in its newest version, unless the cycle
\* that recorded it was lost.
Over(r) == r.status \in {"completed", "cancelled"}

Recorded(j) == succeeded[j] <= aborts + losses + (IF Over(draft[j]) THEN 1 ELSE 0)

SuccessesRecorded == losses = Cap \/ \A j \in Jobs : Recorded(j)

\* No effect takes a job that is over anywhere else but to a lost cycle.
LEMMA RecordedKept ==
    ASSUME Counting, LoadsStayFresh, Next, Inv', NEW j \in Jobs, Recorded(j), losses' # Cap
    PROVE  Recorded(j)'
<1>a. /\ succeeded[j] \in 0..Cap /\ succeeded'[j] \in 0..Cap
      /\ aborts \in Nat /\ losses \in 0..Cap /\ aborts' \in Nat /\ losses' \in Nat /\ Cap \in Nat
  BY SizesAssumption DEF Counting, Lives, Inv, Typed, SizesAssumption
<1>b. Effect(j) /\ aborts' >= aborts /\ losses' >= losses
  BY Effects DEF Counting, LoadsStayFresh
<1>c. losses' = Bump(losses) => losses' = losses + 1
  BY <1>a DEF Bump
<1>d. Bump(succeeded[j]) <= succeeded[j] + 1
  BY <1>a DEF Bump
<1>1. CASE Over(draft[j]) => Over(draft'[j])
  <2>1. CASE succeeded'[j] = succeeded[j]
    BY <1>a, <1>b, <1>1, <2>1 DEF Recorded
  <2>2. CASE succeeded'[j] # succeeded[j]
    <3>1. ~ Over(draft[j]) /\ Over(draft'[j]) /\ succeeded'[j] = Bump(succeeded[j])
      BY <1>b, <2>2 DEF Effect, Unmoved, Prepared, Started, Finished, Published, Discarded,
                        Abandoned, CancelledNow, RetriedNow, Uncounted, Over
    <3> QED BY <1>a, <1>b, <1>d, <3>1 DEF Recorded
  <2> QED BY <2>1, <2>2
<1>2. CASE Over(draft[j]) /\ ~ Over(draft'[j])
  <2>1. CASE Discarded(j)
    <3>1. aborts' = aborts + 1 \/ losses' = losses + 1
      BY <1>2, <1>c, <2>1 DEF Discarded, Untried, SameLife, Over, AfterAttempt
    <3> QED BY <1>a, <1>b, <1>2, <2>1, <3>1 DEF Recorded, Discarded, Uncounted
  <2>2. ~ (\/ Unmoved(j) \/ Prepared(j) \/ Started(j) \/ Finished(j) \/ Published(j)
           \/ Abandoned(j) \/ CancelledNow(j) \/ RetriedNow(j))
    BY <1>2 DEF Unmoved, Prepared, Started, Finished, Published, Abandoned, CancelledNow,
                RetriedNow, SameLife, Over, Waiting
  <2> QED BY <1>b, <2>1, <2>2 DEF Effect
<1> QED BY <1>1, <1>2

\* A handler that has succeeded is run again only because the cycle that should
\* have recorded the success was lost, while the rows that are reaped and
\* retried stay fresh.
THEOREM SuccessIsNotRepeated ==
    Spec /\ []LoadsStayFresh => []RepeatsNeedALostCycle
<1>1. Init => Counting /\ SuccessesRecorded
  BY InitCounting DEF Init, SuccessesRecorded, Recorded
<1>2. Counting /\ SuccessesRecorded /\ LoadsStayFresh /\ [Next]_vars => (Counting /\ SuccessesRecorded)'
  <2> SUFFICES ASSUME Counting, SuccessesRecorded, LoadsStayFresh, [Next]_vars
               PROVE  (Counting /\ SuccessesRecorded)'
    OBVIOUS
  <2>1. Counting' /\ Inv'
    BY NextCounting DEF Counting, Lives
  <2>2. CASE UNCHANGED vars
    BY <2>1, <2>2 DEF vars, SuccessesRecorded, Recorded
  <2>3. CASE Next
    <3>1. losses = Cap => losses' = Cap
      <4>1. /\ JobSlots \in Nat \ {0} /\ 1 \in Jobs
        BY SizesAssumption DEF SizesAssumption, Jobs
      <4>2. losses' >= losses
        BY <2>3, <4>1, Effects DEF Counting, LoadsStayFresh
      <4> QED BY <2>1, <4>2 DEF Counting, Lives, Inv, Typed
    <3> QED BY <2>1, <2>3, <3>1, RecordedKept DEF SuccessesRecorded
  <2> QED BY <2>2, <2>3
<1>3. Counting /\ SuccessesRecorded => RepeatsNeedALostCycle
  <2> SUFFICES ASSUME Inv, SuccessesRecorded, NEW j \in Jobs
               PROVE  succeeded[j] <= 1 + aborts + losses
    BY DEF Counting, Lives, RepeatsNeedALostCycle
  <2>1. succeeded[j] \in 0..Cap /\ aborts \in Nat /\ losses \in Nat /\ Cap \in Nat
    BY SizesAssumption DEF Inv, Typed, SizesAssumption
  <2> QED BY <2>1 DEF SuccessesRecorded, Recorded
<1> QED BY <1>1, <1>2, <1>3, PTL DEF Spec

\* The starts of a job since it was last retried, those of lost cycles apart.
Net(j) == starts[j] - MaxAttempts * Cardinality(Retries(j)) - aborts - losses

\* Attempts count the net starts, and a committed claim, which is a start that
\* nobody has made, leaves room for one.
Fits(n, a, b) ==
    /\ n <= MaxAttempts /\ n <= b.attempts
    /\ a.status = "running" => /\ n < b.attempts
                               /\ b.attempts = a.attempts => n < MaxAttempts

AttemptsLeft ==
    \A j \in Jobs : /\ row[j].status \in Waiting => row[j].attempts < MaxAttempts
                    /\ draft[j].status \in Waiting => draft[j].attempts < MaxAttempts

StartsFit == losses = Cap \/ \A j \in Jobs : Fits(Net(j), row[j], draft[j])

\* A job that waits has attempts left.
LEMMA AttemptsLeftKept ==
    ASSUME Counting, LoadsStayFresh, Next, Inv', AttemptsLeft
    PROVE  AttemptsLeft'
<1> SUFFICES ASSUME NEW j \in Jobs
             PROVE  /\ row'[j].status \in Waiting => row'[j].attempts < MaxAttempts
                    /\ draft'[j].status \in Waiting => draft'[j].attempts < MaxAttempts
  BY DEF AttemptsLeft
<1>1. /\ row[j].status \in Waiting => row[j].attempts < MaxAttempts
      /\ draft[j].status \in Waiting => draft[j].attempts < MaxAttempts
      /\ MaxAttempts \in Nat \ {0}
      /\ row[j].status = "absent" => row[j].attempts = 0
  BY SizesAssumption DEF AttemptsLeft, SizesAssumption, Counting, Lives, Transactions
<1>2. Effect(j)
  BY Effects DEF Counting, LoadsStayFresh
<1>3. CASE Unmoved(j) \/ Started(j) \/ Published(j) \/ Discarded(j)
  BY <1>1, <1>3 DEF Unmoved, Started, Published, Discarded, SameLife, Waiting
<1>4. CASE Prepared(j)
  BY <1>1, <1>4 DEF Prepared, Untried, SameLife, AfterAttempt, Waiting
<1>5. CASE Finished(j)
  BY <1>1, <1>5 DEF Finished, Ended, Tried, SameLife, AfterAttempt, Waiting
<1>6. CASE Abandoned(j) \/ CancelledNow(j) \/ RetriedNow(j)
  BY <1>1, <1>6 DEF Abandoned, CancelledNow, RetriedNow, SameLife, Waiting
<1> QED BY <1>2, <1>3, <1>4, <1>5, <1>6 DEF Effect

\* Counting manual retries: their number never falls, and rises with a retry.
LEMMA NetFalls ==
    ASSUME IsFiniteSet(Requests), Counting, LoadsStayFresh, Next, Inv', NEW j \in Jobs
    PROVE  /\ Net(j) \in Int /\ Net(j)' \in Int
           /\ starts'[j] = starts[j] => Net(j)' <= Net(j)
           /\ starts'[j] = Bump(starts[j]) => Net(j)' <= Net(j) + 1
           /\ starts'[j] = starts[j] /\ (aborts' = aborts + 1 \/ losses' = losses + 1)
                => Net(j)' <= Net(j) - 1
           /\ RetriedNow(j) => Net(j)' <= Net(j) - MaxAttempts
<1> DEFINE m == Cardinality(Retries(j))
           n == Cardinality(Retries(j)')
<1>a. /\ starts[j] \in 0..Cap /\ starts'[j] \in 0..Cap
      /\ aborts \in Nat /\ losses \in Nat /\ aborts' \in Nat /\ losses' \in Nat /\ Cap \in Nat
      /\ MaxAttempts \in Nat
  BY SizesAssumption DEF Counting, Lives, Inv, Typed, SizesAssumption
<1>c. aborts' >= aborts /\ losses' >= losses /\ Retries(j) \subseteq Retries(j)'
  BY Effects DEF Counting, LoadsStayFresh
<1>1. IsFiniteSet(Retries(j)) /\ IsFiniteSet(Retries(j)')
  BY FS_Subset DEF Retries
<1>2. m \in Nat /\ n \in Nat /\ m <= n
  BY <1>1, <1>c, FS_CardinalityType, FS_Subset
<1>3. RetriedNow(j) => n = m + 1
  BY <1>1, FS_AddElement DEF RetriedNow
<1>4. /\ Net(j) = starts[j] - MaxAttempts * m - aborts - losses
      /\ Net(j)' = starts'[j] - MaxAttempts * n - aborts' - losses'
  BY DEF Net
<1>5. starts'[j] = Bump(starts[j]) => starts'[j] <= starts[j] + 1
  BY <1>a DEF Bump
<1> HIDE DEF m, n
<1>6. /\ MaxAttempts * m \in Nat /\ MaxAttempts * n \in Nat
      /\ MaxAttempts * m <= MaxAttempts * n
      /\ n = m + 1 => MaxAttempts * n = MaxAttempts * m + MaxAttempts
  <2>1. MaxAttempts * m \in Nat /\ MaxAttempts * n \in Nat
    BY <1>2, <1>a
  <2>2. \A k \in Nat : MaxAttempts * (m + k) = MaxAttempts * m + MaxAttempts * k
    BY <1>2, <1>a
  <2>3. n - m \in Nat /\ n = m + (n - m)
    BY <1>2
  <2>4. MaxAttempts * n = MaxAttempts * m + MaxAttempts * (n - m)
    BY <2>2, <2>3
  <2>5. MaxAttempts * (n - m) \in Nat
    BY <2>3, <1>a
  <2>6. n = m + 1 => MaxAttempts * n = MaxAttempts * m + MaxAttempts
    BY <2>2, <1>a
  <2> QED BY <2>1, <2>4, <2>5, <2>6
<1>7. RetriedNow(j) => starts'[j] = starts[j]
  BY DEF RetriedNow, Uncounted
<1> QED BY <1>a, <1>c, <1>3, <1>4, <1>5, <1>6, <1>7

\* Every effect keeps the net starts of a job within its attempts.
LEMMA FitsKept ==
    ASSUME IsFiniteSet(Requests), Counting, LoadsStayFresh, Next, Inv', NEW j \in Jobs,
           AttemptsLeft, Fits(Net(j), row[j], draft[j]), losses' # Cap
    PROVE  Fits(Net(j)', row'[j], draft'[j])
<1> DEFINE n == Net(j)
           m == Net(j)'
<1>a. /\ n \in Int /\ m \in Int
      /\ starts'[j] = starts[j] => m <= n
      /\ starts'[j] = Bump(starts[j]) => m <= n + 1
      /\ starts'[j] = starts[j] /\ (aborts' = aborts + 1 \/ losses' = losses + 1) => m <= n - 1
      /\ RetriedNow(j) => m <= n - MaxAttempts
  BY NetFalls
<1>b. /\ row[j].attempts \in Nat /\ draft[j].attempts \in Nat
      /\ row'[j].attempts \in Nat /\ draft'[j].attempts \in Nat
      /\ MaxAttempts \in Nat \ {0}
      /\ losses \in 0..Cap /\ losses' \in 0..Cap /\ Cap \in Nat
  BY SizesAssumption DEF Counting, Lives, Inv, Typed, Rows, SizesAssumption
<1>c. /\ row[j].status \in Waiting => row[j].attempts < MaxAttempts
      /\ draft[j].status \in Waiting => draft[j].attempts < MaxAttempts
      /\ row[j].status = "absent" => row[j].attempts = 0
  BY DEF AttemptsLeft, Counting, Lives, Transactions
<1>d. losses' = Bump(losses) => losses' = losses + 1
  BY <1>b DEF Bump
<1>e. Effect(j)
  BY Effects DEF Counting, LoadsStayFresh
<1>f. Fits(n, row[j], draft[j])
  OBVIOUS
<1> HIDE DEF n, m
<1> USE DEF Fits, SameLife
<1> SUFFICES Fits(m, row'[j], draft'[j])
  BY DEF m
<1>1. CASE Unmoved(j)
  BY <1>1, <1>a, <1>b, <1>f DEF Unmoved, Uncounted
<1>2. CASE Prepared(j)
  BY <1>2, <1>a, <1>b, <1>c, <1>f DEF Prepared, Uncounted, Untried, AfterAttempt
<1>3. CASE Started(j)
  BY <1>3, <1>a, <1>b, <1>c, <1>f DEF Started, Untried, AfterAttempt, Waiting
<1>4. CASE Finished(j)
  BY <1>4, <1>a, <1>b, <1>c, <1>f DEF Finished, Ended, Tried
<1>5. CASE Published(j)
  BY <1>5, <1>a, <1>b, <1>c, <1>f DEF Published, Uncounted, Untried, Ended, Tried, AfterAttempt
<1>6. CASE Discarded(j)
  <2>1. m <= n
    BY <1>6, <1>a DEF Discarded, Uncounted
  <2>2. CASE Untried(row[j], draft[j])
    BY <2>1, <2>2, <1>6, <1>b, <1>c, <1>a, <1>f DEF Discarded, Untried
  <2>3. CASE Tried(row[j], draft[j]) /\ (aborts' = aborts + 1 \/ losses' = losses + 1)
    <3>1. m <= n - 1 /\ draft[j].attempts = row[j].attempts + 1
      BY <2>3, <1>6, <1>a DEF Discarded, Uncounted, Tried
    <3> QED BY <3>1, <1>6, <1>a, <1>b, <1>f DEF Discarded
  <2> QED BY <2>2, <2>3, <1>6, <1>d DEF Discarded
<1>7. CASE Abandoned(j)
  BY <1>7, <1>a, <1>b, <1>c, <1>f DEF Abandoned, Uncounted, Waiting
<1>8. CASE CancelledNow(j)
  BY <1>8, <1>a, <1>b, <1>f DEF CancelledNow, Uncounted
<1>9. CASE RetriedNow(j)
  BY <1>9, <1>a, <1>b, <1>f DEF RetriedNow
<1> QED BY <1>1, <1>2, <1>3, <1>4, <1>5, <1>6, <1>7, <1>8, <1>9, <1>e DEF Effect

\* A handler is started at most max_attempts times, as often again for every
\* manual retry, and once more for every cycle that was lost, while the rows
\* that are reaped and retried stay fresh.
THEOREM AttemptsLimitStarts ==
    ASSUME IsFiniteSet(Requests)
    PROVE  Spec /\ []LoadsStayFresh => []AttemptsBoundStarts
<1> DEFINE Bounded == Counting /\ AttemptsLeft /\ StartsFit
<1>1. Init => Bounded
  <2> SUFFICES ASSUME Init PROVE Bounded
    OBVIOUS
  <2>1. \A j \in Jobs : /\ row[j] = draft[j] /\ row[j].attempts = 0 /\ row[j].status \in {"absent", "queued"}
    BY DEF Init, NewRow, AbsentRow
  <2>2. \A j \in Jobs : Net(j) = 0
    <3> SUFFICES ASSUME NEW j \in Jobs PROVE Net(j) = 0
      OBVIOUS
    <3>1. Retries(j) = {}
      BY DEF Init, Retries, NoRequest
    <3>2. Cardinality(Retries(j)) = 0
      BY <3>1, FS_EmptySet
    <3>3. MaxAttempts * 0 = 0 /\ starts[j] = 0 /\ aborts = 0 /\ losses = 0
      BY SizesAssumption DEF Init, SizesAssumption
    <3> QED BY <3>2, <3>3 DEF Net
  <2> QED BY <2>1, <2>2, InitCounting, SizesAssumption
          DEF SizesAssumption, AttemptsLeft, StartsFit, Fits
<1>2. Bounded /\ LoadsStayFresh /\ [Next]_vars => Bounded'
  <2> SUFFICES ASSUME Bounded, LoadsStayFresh, [Next]_vars PROVE Bounded'
    OBVIOUS
  <2>1. Counting' /\ Inv'
    BY NextCounting DEF Counting, Lives
  <2>2. CASE UNCHANGED vars
    BY <2>1, <2>2 DEF vars, AttemptsLeft, StartsFit, Net, Retries
  <2>3. CASE Next
    <3>1. losses = Cap => losses' = Cap
      <4>1. /\ JobSlots \in Nat \ {0} /\ 1 \in Jobs
        BY SizesAssumption DEF SizesAssumption, Jobs
      <4>2. losses' >= losses
        BY <2>3, <4>1, Effects DEF Counting, LoadsStayFresh
      <4> QED BY <2>1, <4>2 DEF Counting, Lives, Inv, Typed
    <3>2. AttemptsLeft'
      BY <2>1, <2>3, AttemptsLeftKept
    <3>3. StartsFit'
      BY <2>1, <2>3, <3>1, FitsKept DEF StartsFit
    <3> QED BY <2>1, <3>2, <3>3
  <2> QED BY <2>2, <2>3
<1>3. Bounded => AttemptsBoundStarts
  <2> SUFFICES ASSUME Inv, StartsFit, NEW j \in Jobs
               PROVE  starts[j] <= MaxAttempts * (1 + ManualRetries(j)) + aborts + losses
    BY DEF Counting, Lives, AttemptsBoundStarts
  <2> DEFINE m == Cardinality(Retries(j))
  <2>1. /\ starts[j] \in 0..Cap /\ aborts \in Nat /\ losses \in Nat /\ Cap \in Nat
        /\ MaxAttempts \in Nat
    BY SizesAssumption DEF Inv, Typed, SizesAssumption
  <2>2. m \in Nat
    BY FS_Subset, FS_CardinalityType DEF Retries
  <2>3. ManualRetries(j) = m
    BY DEF ManualRetries, Retries
  <2>4. Net(j) = starts[j] - MaxAttempts * m - aborts - losses
    BY DEF Net
  <2> HIDE DEF m
  <2>5. MaxAttempts * (1 + m) = MaxAttempts + MaxAttempts * m /\ MaxAttempts * m \in Nat
    BY <2>1, <2>2
  <2>6. CASE losses = Cap
    BY <2>1, <2>3, <2>5, <2>6
  <2>7. CASE Net(j) <= MaxAttempts
    BY <2>1, <2>3, <2>4, <2>5, <2>7
  <2> QED BY <2>6, <2>7 DEF StartsFit, Fits
<1> QED BY <1>1, <1>2, <1>3, PTL DEF Spec

-----------------------------------------------------------------------------
(* When no session can write a row that has changed since it loaded it:    *)
(* no two requests may retry at the same time, and either no claim is ever *)
(* left behind, so that there is nothing to reap, or a single worker reaps *)
(* and nobody cancels.                                                     *)

OneWriter ==
    /\ "retry" \in Ops => \A q, r \in Requests : q = r
    /\ MaxOrphans = 0 \/ ("cancel" \notin Ops /\ \A v, w \in Workers : v = w)

Loading ==
    /\ \A r \in Requests : req[r].phase = "loaded" => req[r].op \in Ops
    /\ \A r \in Requests, j \in Jobs : lock[j] = r => row[j].status = "absent"
    /\ DOMAIN expired = Workers
    /\ \A w \in Workers : DOMAIN expired[w] # {} => pc[w] = "reap"

\* A worker's step publishes only what became of jobs that had not settled.
LEMMA WorkerLeavesSettled ==
    ASSUME Lives, NEW w \in Workers, WorkerStep(w) \/ WorkerChoice(w), NEW j \in Jobs
    PROVE  /\ SameLife(row'[j], row[j]) \/ row[j].status \in {"absent", "running"} \cup Waiting
           /\ pc[w] = "reap" => row' = row
<1>1. CASE Commit(w)
  <2>1. current[w] = Null /\ pc[w] = "work" /\ row'[j] = IF lock[j] = w THEN draft[j] ELSE row[j]
    BY <1>1 DEF Commit, CommitOf, View
  <2>2. lock[j] = w => Untried(row[j], draft[j]) \/ Ended(j, row[j], draft[j])
    BY <2>1, NamesAssumption DEF Lives, Transactions, OfWorker, NamesAssumption
  <2> QED BY <2>1, <2>2 DEF Untried, Ended, Tried, SameLife
<1>2. ASSUME NEW k \in Jobs, AbandonClaim(w, k)
      PROVE  /\ SameLife(row'[j], row[j]) \/ row[j].status \in {"absent", "running"} \cup Waiting
             /\ pc[w] = "reap" => row' = row
  BY <1>2 DEF AbandonClaim, Claimable, LeaseLapsed, Lives, Inv, Typed, SameLife
<1>3. CASE row' = row
  BY <1>3 DEF SameLife
<1> QED
  BY <1>1, <1>2, <1>3
     DEF WorkerStep, WorkerChoice, StartCycle, Reap, Scan, Claim, Complete, Fail, Settle, WriteRow,
         EnsureTick, HandlerEnqueue, KeyWon, Insert, WaitForKey, AbortCycle, LoseCycle, KeyLost,
         RollbackOf, db

\* Only RequestLoad and StartCycle load rows, and only Insert locks a row for
\* a request beyond a step.
LEMMA LoadingKept == Lives /\ Loading /\ Next => Loading'
<1> SUFFICES ASSUME Lives, Loading, Next PROVE Loading'
  OBVIOUS
<1>a. /\ Nobody \notin Sessions /\ Workers \subseteq Sessions /\ Requests \subseteq Sessions
      /\ Workers \cap Requests = {}
  BY NamesAssumption DEF NamesAssumption, Sessions
<1>b. /\ DOMAIN lock = Jobs /\ DOMAIN row = Jobs /\ DOMAIN draft = Jobs /\ DOMAIN pc = Workers
      /\ req \in [Requests -> RequestStates]
      /\ \A w \in Workers : wanted[w] # NoKey => pc[w] # "idle"
  BY DEF Lives, Inv, Typed, Locking
<1>1. ASSUME NEW w \in Workers, WorkerStep(w) \/ WorkerChoice(w) PROVE Loading'
  <2>1. /\ \A s \in Sessions : s # w => Untouched(s)
        /\ \A v \in Workers : v # w => pc'[v] = pc[v] /\ expired'[v] = expired[v]
    BY <1>1, WorkerFrame DEF Lives, Loading
  <2>2. req' = req
    BY <1>1 DEF WorkerStep, WorkerChoice, StartCycle, Reap, Scan, Claim, Complete, Fail,
                Settle, Commit, EnsureTick, HandlerEnqueue, KeyWon, AbortCycle, LoseCycle,
                ResetCycle, AbandonClaim
  <2>3. DOMAIN expired' = Workers /\ (DOMAIN expired'[w] # {} => pc'[w] = "reap")
    <3>1. CASE StartCycle(w)
      BY <3>1, <1>b DEF StartCycle, Goto, Loading
    <3>2. CASE Reap(w) \/ AbortCycle(w) \/ LoseCycle(w)
      BY <3>2, <1>b DEF Reap, AbortCycle, LoseCycle, ResetCycle, NoneLoaded, Loading
    <3>3. CASE Scan(w) \/ Commit(w)
      BY <3>3, <1>b DEF Scan, Commit, Goto, Loading
    <3>4. CASE UNCHANGED <<pc, expired>>
      BY <3>4 DEF Loading
    <3> QED BY <1>1, <3>1, <3>2, <3>3, <3>4
            DEF WorkerStep, WorkerChoice, Claim, Complete, Fail, Settle, EnsureTick, HandlerEnqueue,
                KeyWon, AbandonClaim, worker
  <2>4. \A r \in Requests, j \in Jobs : lock'[j] = r => row'[j].status = "absent"
    BY <2>1, <1>a DEF Untouched, Loading
  <2> QED BY <2>1, <2>2, <2>3, <2>4 DEF Loading
<1>2. ASSUME NEW r \in Requests, RequestStep(r) \/ RequestCommit(r) PROVE Loading'
  <2>1. UNCHANGED <<pc, expired>> /\ \A s \in Sessions : s # r => Untouched(s)
    BY <1>2, RequestFrame DEF Lives, worker
  <2>2. \A j \in Jobs : lock'[j] = r => row'[j].status = "absent"
    <3>1. ASSUME NEW key \in Keys \cup {NoKey}, RequestEnqueue(r, key, Null)
          PROVE  \A j \in Jobs : lock'[j] = r => row'[j].status = "absent"
      BY <3>1, <1>b DEF RequestEnqueue, Insert, IsOldest, FreshSlots, WriteRow, Loading
    <3>2. CASE RequestCommit(r) \/ RequestRollback(r) \/ RequestLoses(r)
      BY <3>2, <1>a DEF RequestCommit, CommitOf, RequestRollback, RequestLoses, KeyLost, RollbackOf
    <3>3. CASE RequestWrite(r)
      BY <3>3, <1>a, <1>b DEF RequestWrite, Loading
    <3>4. CASE UNCHANGED <<row, lock>>
      BY <3>4 DEF Loading
    <3> QED BY <1>2, <3>1, <3>2, <3>3, <3>4
            DEF RequestStep, RequestEnqueueAgain, RequestWait, WaitForKey, RequestLoad, db
  <2>3. req'[r].phase = "loaded" => req'[r].op \in Ops
    BY <1>2, <1>b
       DEF RequestStep, RequestEnqueue, RequestEnqueueAgain, RequestCommit, RequestRollback, RequestWait,
           RequestLoses, RequestLoad, RequestWrite, RequestIs, RequestStates, NoRequest, Loading
  <2>4. \A q \in Requests : q # r => req'[q] = req[q]
    BY <1>2, <1>b
       DEF RequestStep, RequestEnqueue, RequestEnqueueAgain, RequestCommit, RequestRollback, RequestWait,
           RequestLoses, RequestLoad, RequestWrite
  <2>5. \A q \in Requests, j \in Jobs : q # r /\ lock'[j] = q => row'[j].status = "absent"
    BY <2>1, <1>a DEF Untouched, Loading
  <2> QED BY <2>1, <2>2, <2>3, <2>4, <2>5 DEF Loading
<1>3. CASE Tick
  BY <1>3, TickLives DEF Lives, worker, SameLife, Loading
<1> QED BY <1>1, <1>2, <1>3 DEF Next

\* A failed row that a lone request is about to retry stays failed.
LEMMA RetryStaysFresh ==
    ASSUME Lives, Loading, Fresh("retry"), Next, "retry" \in Ops => \A q, r \in Requests : q = r
    PROVE  Fresh("retry")'
<1> SUFFICES ASSUME NEW r \in Requests, req'[r].phase = "loaded", req'[r].op = "retry"
             PROVE  SameLife(row'[req'[r].job], req'[r].seen)
  BY DEF Fresh
<1>b. req \in [Requests -> RequestStates]
  BY DEF Lives, Inv, Typed
<1>1. ASSUME NEW w \in Workers, WorkerStep(w) \/ WorkerChoice(w)
      PROVE  SameLife(row'[req'[r].job], req'[r].seen)
  <2>1. req' = req
    BY <1>1 DEF WorkerStep, WorkerChoice, StartCycle, Reap, Scan, Claim, Complete, Fail,
                Settle, Commit, EnsureTick, HandlerEnqueue, KeyWon, AbortCycle, LoseCycle,
                ResetCycle, AbandonClaim
  <2>2. req[r].job \in Jobs /\ req[r].seen.status = "failed" /\ SameLife(row[req[r].job], req[r].seen)
    BY <2>1, <1>b DEF RequestStates, NoRequest, Fresh, Lives, LoadedStatus
  <2>3. SameLife(row'[req[r].job], row[req[r].job])
    BY <2>2, <1>1, WorkerLeavesSettled DEF SameLife, Waiting
  <2> QED BY <2>1, <2>2, <2>3 DEF SameLife
<1>2. ASSUME NEW q \in Requests, RequestStep(q) \/ RequestCommit(q)
      PROVE  SameLife(row'[req'[r].job], req'[r].seen)
  <2>1. CASE \E j \in Jobs, op \in {"cancel", "retry"} : RequestLoad(q, j, op)
    <3>1. q = r \/ (req'[r] = req[r] /\ row' = row)
      BY <2>1, <1>b DEF RequestLoad, db
    <3>2. CASE q = r
      BY <2>1, <3>2, <1>b DEF RequestLoad, db, SameLife
    <3> QED BY <3>1, <3>2 DEF Fresh
  <2>2. CASE req'[r] = req[r] /\ row' = row
    BY <2>2 DEF Fresh
  <2>3. q # r => req'[r] = req[r] /\ req[r].phase = "loaded" /\ req[r].op = "retry"
    BY <1>2, <1>b
       DEF RequestStep, RequestEnqueue, RequestEnqueueAgain, RequestCommit, RequestRollback, RequestWait,
           RequestLoses, RequestLoad, RequestWrite
  <2>4. q = r
    BY <2>3 DEF Loading
  <2>5. ~ \/ RequestCommit(q) \/ RequestRollback(q) \/ RequestWrite(q) \/ RequestLoses(q)
          \/ \E key \in Keys \cup {NoKey} : RequestEnqueue(q, key, Null)
          \/ \E key \in Keys : RequestEnqueueAgain(q, key)
    BY <2>4, <1>b
       DEF RequestCommit, RequestRollback, RequestWrite, RequestLoses, RequestEnqueue,
           RequestEnqueueAgain, RequestIs, RequestStates, NoRequest
  <2> QED BY <1>2, <2>1, <2>2, <2>5 DEF RequestStep, RequestWait, WaitForKey
<1>3. CASE Tick
  <2>1. req' = req /\ \A j \in Jobs : SameLife(row'[j], row[j])
    BY <1>3, TickLives DEF Lives
  <2>2. req[r].job \in Jobs /\ SameLife(row[req[r].job], req[r].seen)
    BY <2>1, <1>b DEF RequestStates, NoRequest, Fresh
  <2> QED BY <2>1, <2>2 DEF SameLife
<1> QED BY <1>1, <1>2, <1>3 DEF Next

\* A lapsed row that a lone worker is about to reap stays as it is.
LEMMA ReapStaysFresh ==
    ASSUME Lives, Loading, ReapsAreFresh, Fresh("retry"), Next,
           "cancel" \notin Ops, \A v, w \in Workers : v = w
    PROVE  ReapsAreFresh'
<1> SUFFICES ASSUME NEW w \in Workers, NEW j \in DOMAIN expired'[w]
             PROVE  SameLife(row'[j], expired'[w][j])
  BY DEF ReapsAreFresh
<1>b. \A v \in Workers : DOMAIN expired[v] \subseteq Jobs
  BY DEF Lives, Inv, Typed
<1>1. ASSUME NEW v \in Workers, WorkerStep(v) \/ WorkerChoice(v)
      PROVE  SameLife(row'[j], expired'[w][j])
  <2>1. v = w
    OBVIOUS
  <2>2. CASE StartCycle(w)
    BY <2>2 DEF StartCycle, db, SameLife, Loading
  <2>3. CASE Reap(w) \/ AbortCycle(w) \/ LoseCycle(w)
    BY <2>3 DEF Reap, AbortCycle, LoseCycle, ResetCycle, NoneLoaded, Loading
  <2>4. CASE expired' = expired
    <3>1. pc[w] = "reap" /\ j \in Jobs
      BY <2>4, <1>b DEF Loading
    <3>2. row' = row
      BY <1>1, <2>1, <3>1, WorkerLeavesSettled
    <3> QED BY <2>4, <3>2 DEF ReapsAreFresh
  <2> QED BY <1>1, <2>1, <2>2, <2>3, <2>4
          DEF WorkerStep, WorkerChoice, Scan, Commit, Claim, Complete, Fail, Settle, EnsureTick,
              HandlerEnqueue, KeyWon, AbandonClaim, worker
<1>2. ASSUME NEW r \in Requests, RequestStep(r) \/ RequestCommit(r)
      PROVE  SameLife(row'[j], expired'[w][j])
  <2>1. expired' = expired
    BY <1>2, RequestFrame DEF Lives, worker
  <2>2. j \in Jobs /\ row[j].status = "running" /\ SameLife(row[j], expired[w][j])
    BY <2>1, <1>b DEF ReapsAreFresh, Lives, Transactions, SameLife
  <2>3. row'[j] = row[j]
    <3>1. CASE RequestCommit(r)
      BY <2>2, <3>1 DEF RequestCommit, CommitOf, View, Loading
    <3>2. CASE RequestWrite(r)
      <4>1. req[r] \in [phase : {"loaded", "done"}, op : {"cancel", "retry"},
                        job : Jobs, seen : Rows] /\ req[r].phase = "loaded"
        BY <3>2 DEF RequestWrite, RequestIs, Lives, Inv, Typed, RequestStates, NoRequest
      <4>2. req[r].op = "retry"
        BY <4>1 DEF Loading
      <4>3. row[req[r].job].status = "failed"
        BY <4>1, <4>2 DEF Fresh, Lives, LoadedStatus, SameLife
      <4> QED BY <2>2, <3>2, <4>3 DEF RequestWrite, Lives, Inv, Typed
    <3>3. CASE row' = row
      BY <3>3
    <3> QED BY <1>2, <3>1, <3>2, <3>3
            DEF RequestStep, RequestEnqueue, Insert, WriteRow, RequestEnqueueAgain, RequestWait,
                WaitForKey, RequestRollback, RequestLoses, KeyLost, RollbackOf, RequestLoad, db
  <2> QED BY <2>1, <2>2, <2>3
<1>3. CASE Tick
  <2>1. expired' = expired /\ \A k \in Jobs : SameLife(row'[k], row[k])
    BY <1>3, TickLives DEF Lives, worker
  <2>2. j \in Jobs /\ SameLife(row[j], expired[w][j])
    BY <2>1, <1>b DEF ReapsAreFresh
  <2> QED BY <2>1, <2>2 DEF SameLife
<1> QED BY <1>1, <1>2, <1>3 DEF Next

\* With one writer at a time, the rows that sessions load stay fresh until they
\* write them.
THEOREM OneWriterIsFresh ==
    ASSUME OneWriter
    PROVE  Spec => [](LoadsStayFresh /\ Loading)
<1> DEFINE Lone == "cancel" \notin Ops /\ \A v, w \in Workers : v = w
<1>1. Init => Lives /\ Loading /\ LoadsStayFresh
  <2>1. Init => Loading /\ LoadsStayFresh
    BY NamesAssumption DEF Init, Loading, LoadsStayFresh, ReapsAreFresh, Fresh, NoneLoaded, NoRequest,
                           NamesAssumption, Sessions
  <2> QED BY <2>1, InitLives
<1>2. Lives /\ Loading /\ LoadsStayFresh /\ [Next]_vars => Lives' /\ Loading' /\ Fresh("retry")'
  <2> SUFFICES ASSUME Lives, Loading, LoadsStayFresh, [Next]_vars
               PROVE  Lives' /\ Loading' /\ Fresh("retry")'
    OBVIOUS
  <2>1. Lives'
    BY NextLives DEF LoadsStayFresh
  <2>2. CASE UNCHANGED vars
    BY <2>1, <2>2 DEF vars, Loading, LoadsStayFresh, Fresh
  <2>3. CASE Next
    BY <2>1, <2>3, LoadingKept, RetryStaysFresh DEF LoadsStayFresh, OneWriter
  <2> QED BY <2>2, <2>3
<1>3. CASE MaxOrphans = 0
  <2>1. Loading /\ Unclaimed => ReapsAreFresh
    BY DEF Loading, Unclaimed, ReapsAreFresh
  <2>2. Lives /\ Loading /\ LoadsStayFresh /\ [Next]_vars /\ Unclaimed' => LoadsStayFresh'
    BY <1>2, <2>1 DEF LoadsStayFresh, Loading, Unclaimed, ReapsAreFresh
  <2>3. Spec => []Unclaimed
    BY <1>3, CandidatesStayStartable, PTL
  <2> QED BY <1>1, <1>2, <2>2, <2>3, PTL DEF Spec
<1>4. CASE Lone
  <2>1. Lives /\ Loading /\ LoadsStayFresh /\ [Next]_vars => ReapsAreFresh'
    <3>1. UNCHANGED vars /\ ReapsAreFresh => ReapsAreFresh'
      BY DEF vars, ReapsAreFresh
    <3> QED BY <1>4, <3>1, ReapStaysFresh DEF LoadsStayFresh
  <2>2. Lives /\ Loading /\ LoadsStayFresh /\ [Next]_vars => LoadsStayFresh'
    BY <1>2, <2>1 DEF LoadsStayFresh
  <2> QED BY <1>1, <1>2, <2>2, PTL DEF Spec
<1> QED BY <1>3, <1>4 DEF OneWriter

\* With one writer at a time, no success is repeated but after a lost cycle.
COROLLARY OneWriterRepeatsNothing ==
    ASSUME OneWriter
    PROVE  Spec => []RepeatsNeedALostCycle
BY OneWriterIsFresh, SuccessIsNotRepeated, PTL

\* With one writer at a time, max_attempts limits the starts of a handler.
COROLLARY OneWriterLimitsStarts ==
    ASSUME OneWriter, IsFiniteSet(Requests)
    PROVE  Spec => []AttemptsBoundStarts
BY OneWriterIsFresh, AttemptsLimitStarts, PTL

\* With one writer at a time and no cancel, the queue implements its state
\* machine.
COROLLARY OneWriterFollowsArrows ==
    ASSUME OneWriter, "cancel" \notin Ops
    PROVE  Spec => FollowsStateMachine
<1>1. LoadsStayFresh /\ Loading => ReapsAreFresh /\ Fresh("cancel") /\ Fresh("retry")
  BY DEF LoadsStayFresh, Loading, Fresh
<1> QED BY <1>1, OneWriterIsFresh, CommitsFollowArrows, PTL
-----------------------------------------------------------------------------
(* No job is stranded: what EveryJobSettles and OrphansRecover need of the *)
(* code besides workers that go on.  A claimed row always has a lease that *)
(* lapses, and row locks, which a scan skips and a reaper or a request     *)
(* waits for, always come free: only sessions in the middle of a cycle or  *)
(* of a response hold any, and one of them can go on.                      *)

Leases == \A j \in Jobs : HasClaim(row[j]) /\ HasClaim(draft[j])

\* What was loaded to be reaped was running.
Lapses ==
    /\ DOMAIN expired = Workers
    /\ \A w \in Workers : \A j \in DOMAIN expired[w] : expired[w][j].status = "running"

\* A worker locks rows and waits for keys in the middle of a cycle only, and
\* whatever it has left to claim it can claim.
InCycle(w) ==
    /\ \A j \in Jobs : lock[j] = w => pc[w] \in {"prepare", "work"}
    /\ wanted[w] # NoKey => pc[w] \in {"prepare", "work"}
    /\ current[w] \notin todo[w]
    /\ \A j \in todo[w] : Claimable(draft[j])

\* A request locks the row it has inserted, until its response has gone out.
InResponse(r) == \A j \in Jobs : lock[j] = r => req[r].phase = "enqueued"

Holding ==
    /\ Inv /\ LoadedStatus /\ WaitsFirst /\ Leases /\ Lapses
    /\ \A w \in Workers : InCycle(w)
    /\ \A r \in Requests : InResponse(r)

\* No operation on a row makes a running row without a lease, and time takes
\* neither a lease away nor a due row out of reach.
LEMMA LeasedRows ==
    ASSUME NEW r \in Rows
    PROVE  /\ \A w \in Workers : HasClaim(Claimed(r, w))
           /\ HasClaim(Completed(r))
           /\ \A retryable \in BOOLEAN : HasClaim(Failed(r, retryable))
           /\ \A key, delay : HasClaim(NewRow(key, delay))
           /\ HasClaim(r) => HasClaim(ElapseRow(r))
           /\ Claimable(r) => Claimable(ElapseRow(r))
<1>1. HasClaim(Completed(r)) /\ (\A retryable \in BOOLEAN : HasClaim(Failed(r, retryable)))
  BY WriteStatus DEF HasClaim
<1>2. \A key, delay : HasClaim(NewRow(key, delay))
  BY WriteStatus DEF HasClaim
<1>3. ASSUME NEW w \in Workers PROVE HasClaim(Claimed(r, w))
  BY SizesAssumption, NamesAssumption DEF Claimed, HasClaim, Rows, SizesAssumption, NamesAssumption
<1>4. \A m \in Moments : (m = Null <=> Elapse(m) = Null) /\ (m = 0 => Elapse(m) = 0)
  BY NamesAssumption DEF Elapse, Moments, NamesAssumption
<1>5. /\ ElapseRow(r).status = r.status /\ ElapseRow(r).attempts = r.attempts
      /\ ElapseRow(r).lease = Elapse(r.lease) /\ ElapseRow(r).run_after = Elapse(r.run_after)
      /\ r.lease \in Moments /\ r.run_after \in Moments
  BY DEF ElapseRow, Rows
<1>6. HasClaim(r) => HasClaim(ElapseRow(r))
  BY <1>4, <1>5 DEF HasClaim
<1>7. Claimable(r) => Claimable(ElapseRow(r))
  BY <1>4, <1>5 DEF Claimable, Due, LeaseLapsed
<1> QED BY <1>1, <1>2, <1>3, <1>6, <1>7

\* Nothing is claimed, locked or waited for initially.
LEMMA InitHolding == Init => Holding
<1> SUFFICES ASSUME Init PROVE Holding
  OBVIOUS
<1>1. Inv /\ LoadedStatus
  BY InitInv, InitUnclaimed
<1>2. \A s \in Sessions : s # Nobody
  BY NamesAssumption DEF NamesAssumption
<1>3. Leases
  BY DEF Init, Leases, HasClaim, NewRow, AbsentRow
<1>4. Lapses /\ WaitsFirst
  BY DEF Init, Lapses, NoneLoaded, WaitsFirst, Sessions
<1>5. \A w \in Workers : InCycle(w)
  BY <1>2 DEF Init, InCycle, Sessions
<1>6. \A r \in Requests : InResponse(r)
  BY <1>2 DEF Init, InResponse, Sessions
<1> QED BY <1>1, <1>3, <1>4, <1>5, <1>6 DEF Holding

\* A reaped row is not running any more.
LEMMA ReapedStops ==
    ASSUME NEW r \in Rows, NEW seen \in Rows, seen.status = "running"
    PROVE  OrmUpdate(r, seen, Reaped(seen)).status \in {"failed", "retrying"}
BY DEF OrmUpdate, Column, Reaped, ReleaseLease, Rows

\* A worker's step leaves every running row with a lease.
LEMMA WorkerLeases ==
    ASSUME Holding, NEW w \in Workers, WorkerStep(w) \/ WorkerChoice(w)
    PROVE  Leases'
<1>a. row \in [Jobs -> Rows] /\ draft \in [Jobs -> Rows] /\ Leases
  BY DEF Holding, Inv, Typed
<1>1. CASE UNCHANGED <<row, draft>>
  BY <1>1, <1>a DEF Leases
<1>2. CASE Reap(w)
  <2>1. row' = row
    BY <1>2 DEF Reap
  <2>2. ASSUME NEW j \in Jobs PROVE HasClaim(draft'[j])
    <3>1. CASE j \notin DOMAIN expired[w]
      BY <1>2, <1>a, <3>1 DEF Reap, Leases
    <3>2. CASE j \in DOMAIN expired[w]
      <4> DEFINE merged == OrmUpdate(row[j], expired[w][j], Reaped(expired[w][j]))
      <4>1. expired[w][j] \in Rows /\ expired[w][j].status = "running"
        BY <3>2 DEF Holding, Inv, Typed, Lapses
      <4>2. merged \in Rows /\ merged.status \in {"failed", "retrying"}
        BY <4>1, <1>a, ReapedStops, OrmUpdateType, RowOperations
      <4>3. draft'[j] \in {merged, [merged EXCEPT !.run_after = 0]}
        BY <1>2, <3>2 DEF Reap
      <4> HIDE DEF merged
      <4>4. draft'[j].status = merged.status
        BY <4>2, <4>3 DEF Rows
      <4> QED BY <4>2, <4>4 DEF HasClaim
    <3> QED BY <3>1, <3>2
  <2> QED BY <2>1, <2>2, <1>a DEF Leases
<1>3. ASSUME NEW s \in Sessions, NEW j \in Jobs, NEW new \in Rows, HasClaim(new), WriteRow(s, j, new)
      PROVE  Leases'
  BY <1>3, <1>a DEF WriteRow, Leases
<1>4. CASE Claim(w)
  <2>1. PICK j \in Jobs : WriteRow(w, j, Claimed(draft[j], w))
    BY <1>4 DEF Claim
  <2> QED BY <2>1, <1>3, <1>a, LeasedRows, RowOperations DEF Sessions
<1>5. CASE Complete(w)
  <2>1. current[w] \in Jobs /\ WriteRow(w, current[w], Completed(draft[current[w]]))
    BY <1>5 DEF Complete, Settle
  <2> QED BY <2>1, <1>3, <1>a, LeasedRows, RowOperations DEF Sessions
<1>6. CASE Fail(w)
  <2>1. PICK retryable \in BOOLEAN :
           current[w] \in Jobs /\ WriteRow(w, current[w], Failed(draft[current[w]], retryable))
    BY <1>6 DEF Fail, Settle
  <2> QED BY <2>1, <1>3, <1>a, LeasedRows, RowOperations DEF Sessions
<1>7. CASE \E j \in Jobs, key \in Keys \cup {NoKey} : Insert(w, j, key, 0)
  <2>1. PICK j \in Jobs, key \in Keys \cup {NoKey} : WriteRow(w, j, NewRow(key, 0))
    BY <1>7 DEF Insert
  <2>2. NewRow(key, 0) \in Rows /\ HasClaim(NewRow(key, 0))
    BY NewRowType, <1>a, WriteStatus DEF HasClaim, Moments, NewRow
  <2> QED BY <2>1, <2>2, <1>3 DEF Sessions
<1>8. CASE Commit(w)
  BY <1>8, <1>a DEF Commit, CommitOf, View, Leases
<1>9. CASE AbortCycle(w) \/ LoseCycle(w)
  BY <1>9, <1>a DEF AbortCycle, LoseCycle, KeyLost, RollbackOf, Leases
<1>10. ASSUME NEW j \in Jobs, AbandonClaim(w, j) PROVE Leases'
  BY <1>10, <1>a, LeasedRows DEF AbandonClaim, Leases
<1>11. CASE StartCycle(w) \/ Scan(w)
  BY <1>1, <1>11 DEF StartCycle, Scan, db
<1>12. CASE KeyWon(w) \/ \E key \in Keys : EnsureTick(w, key) \/ HandlerEnqueue(w, key, 0)
  <2>1. wanted[w] \in Keys \cup {NoKey}
    BY DEF Holding, Inv, Typed, Sessions
  <2> QED BY <1>1, <1>7, <1>12, <2>1 DEF KeyWon, EnsureTick, HandlerEnqueue, WaitForKey
<1> QED BY <1>2, <1>4, <1>5, <1>6, <1>8, <1>9, <1>10, <1>11, <1>12 DEF WorkerStep, WorkerChoice

\* A worker's step keeps its own cycle in order.
LEMMA WorkerCycle ==
    ASSUME Holding, NEW w \in Workers, WorkerStep(w) \/ WorkerChoice(w)
    PROVE  InCycle(w)'
<1>a. /\ w \in Sessions /\ w # Nobody
      /\ \A j \in Jobs : lock[j] = Nobody => draft[j] = row[j]
      /\ current[w] # Null => lock[current[w]] = w /\ pc[w] = "work"
      /\ \A j \in todo[w] : j \in Jobs /\ lock[j] = w /\ pc[w] = "work"
  BY NamesAssumption DEF Holding, Inv, Typed, Locking, NamesAssumption, Sessions
<1>b. /\ row \in [Jobs -> Rows] /\ draft \in [Jobs -> Rows] /\ DOMAIN lock = Jobs
      /\ pc \in [Workers -> {"idle", "reap", "prepare", "work"}]
      /\ todo \in [Workers -> SUBSET Jobs] /\ current \in [Workers -> Jobs \cup {Null}]
      /\ wanted \in [Sessions -> Keys \cup {NoKey}]
      /\ Null \notin Jobs
  BY NamesAssumption DEF Holding, Inv, Typed, NamesAssumption
<1>c. InCycle(w)
  BY DEF Holding
<1>1. CASE StartCycle(w)
  <2>1. pc[w] = "idle" /\ UNCHANGED <<draft, lock, wanted, todo, current>>
    BY <1>1 DEF StartCycle, db
  <2> QED BY <2>1, <1>a, <1>c DEF InCycle
<1>2. CASE Reap(w)
  <2>1. pc[w] = "reap" /\ pc'[w] = "prepare" /\ UNCHANGED <<wanted, todo, current>>
    BY <1>2, <1>b DEF Reap, Goto
  <2> QED BY <2>1, <1>a, <1>c DEF InCycle
<1>3. CASE Scan(w)
  <2>1. pc[w] = "prepare" /\ pc'[w] = "work" /\ UNCHANGED <<draft, wanted, current>>
    BY <1>3, <1>b DEF Scan, Goto
  <2>2. current'[w] \notin todo'[w]
    BY <1>3, <2>1, <1>a, <1>b DEF Scan
  <2>3. \A j \in todo'[w] : Claimable(draft'[j])
    BY <1>3, <2>1, <1>a, <1>b DEF Scan, View
  <2> QED BY <2>1, <2>2, <2>3 DEF InCycle
<1>4. CASE Claim(w)
  <2>1. PICK j \in Jobs : Claim(w)!(j)
    BY <1>4 DEF Claim
  <2>2. /\ pc'[w] = "work" /\ todo'[w] = todo[w] \ {j} /\ current'[w] = j
        /\ \A k \in Jobs : k # j => draft'[k] = draft[k]
    BY <2>1, <1>b DEF WriteRow
  <2> QED BY <2>2, <1>a, <1>c DEF InCycle
<1>5. CASE Complete(w) \/ Fail(w)
  <2>1. /\ current[w] \in Jobs /\ current'[w] = Null /\ todo'[w] = todo[w] /\ pc'[w] = pc[w]
        /\ \A k \in Jobs : k # current[w] => draft'[k] = draft[k]
    BY <1>5, <1>b DEF Complete, Fail, Settle, WriteRow
  <2>2. pc[w] = "work" /\ current[w] \notin todo[w]
    BY <2>1, <1>a, <1>b, <1>c DEF InCycle
  <2> QED BY <2>1, <2>2, <1>a, <1>b, <1>c DEF InCycle
<1>6. CASE Commit(w) /\ wanted[w] = NoKey
  <2>1. /\ pc[w] = "work" /\ todo[w] = {} /\ pc'[w] = "idle" /\ todo'[w] = {}
        /\ wanted'[w] = NoKey /\ \A j \in Jobs : lock'[j] # w
    BY <1>6, <1>a, <1>b DEF Commit, CommitOf, Goto
  <2> QED BY <2>1 DEF InCycle
<1>7. CASE AbortCycle(w) \/ LoseCycle(w)
  <2>1. todo'[w] = {} /\ wanted'[w] = NoKey /\ \A j \in Jobs : lock'[j] # w
    BY <1>7, <1>a, <1>b DEF AbortCycle, LoseCycle, KeyLost, RollbackOf, ResetCycle
  <2> QED BY <2>1 DEF InCycle
<1>8. CASE KeyWon(w) \/ \E key \in Keys : EnsureTick(w, key) \/ HandlerEnqueue(w, key, 0)
  <2>1. pc[w] \in {"prepare", "work"} /\ UNCHANGED <<pc, todo, current>>
    BY <1>8, <1>a, <1>b, <1>c DEF InCycle, KeyWon, EnsureTick, HandlerEnqueue, worker
  <2>2. \A j \in todo[w] : draft'[j] = draft[j]
    <3>1. CASE \E j \in Jobs, key \in Keys \cup {NoKey} : Insert(w, j, key, 0)
      <4>1. PICK j \in Jobs, key \in Keys \cup {NoKey} : Insert(w, j, key, 0)
        BY <3>1
      <4>2. lock[j] = Nobody /\ \A k \in Jobs : k # j => draft'[k] = draft[k]
        BY <4>1, <1>b DEF Insert, IsOldest, FreshSlots, WriteRow
      <4> QED BY <4>2, <1>a
    <3>2. CASE draft' = draft
      BY <3>2
    <3>3. wanted[w] \in Keys \cup {NoKey}
      BY <1>a, <1>b
    <3> QED BY <1>8, <3>1, <3>2, <3>3 DEF KeyWon, EnsureTick, HandlerEnqueue, WaitForKey
  <2> QED BY <2>1, <2>2, <1>c DEF InCycle
<1>9. ASSUME NEW j \in Jobs, AbandonClaim(w, j) PROVE InCycle(w)'
  <2>1. /\ lock[j] = Nobody /\ UNCHANGED <<lock, wanted, pc, todo, current>>
        /\ \A k \in Jobs : k # j => draft'[k] = draft[k]
    BY <1>9, <1>b DEF AbandonClaim, worker
  <2> QED BY <2>1, <1>a, <1>c DEF InCycle
<1> QED BY <1>1, <1>2, <1>3, <1>4, <1>5, <1>6, <1>7, <1>8, <1>9 DEF WorkerStep, WorkerChoice

\* A cycle is not disturbed by what other sessions do.
LEMMA OthersCycle ==
    ASSUME Holding, NEW w \in Workers, Untouched(w), wanted'[w] = wanted[w],
           pc'[w] = pc[w], todo'[w] = todo[w], current'[w] = current[w]
    PROVE  InCycle(w)'
<1>1. \A j \in todo[w] : j \in Jobs /\ lock[j] = w
  BY DEF Holding, Inv, Typed, Locking
<1> QED BY <1>1 DEF Holding, InCycle, Untouched

\* A worker's step leaves every session holding only what it may hold.
LEMMA WorkerHolding ==
    ASSUME Holding, Inv', LoadedStatus', WaitsFirst', NEW w \in Workers, WorkerStep(w) \/ WorkerChoice(w)
    PROVE  Holding'
<1>a. Inv /\ DOMAIN expired = Workers /\ Nobody \notin Sessions
      /\ Workers \subseteq Sessions /\ Requests \subseteq Sessions /\ w \notin Requests
      /\ DOMAIN wanted = Sessions
  BY NamesAssumption DEF Holding, Inv, Typed, Lapses, NamesAssumption, Sessions
<1>1. /\ \A s \in Sessions : s # w => Untouched(s)
      /\ \A v \in Workers : v # w =>
           pc'[v] = pc[v] /\ todo'[v] = todo[v] /\ current'[v] = current[v] /\ expired'[v] = expired[v]
  BY <1>a, WorkerFrame
<1>2. req' = req
  BY DEF WorkerStep, WorkerChoice, StartCycle, Reap, Scan, Claim, Complete, Fail,
         Settle, Commit, EnsureTick, HandlerEnqueue, KeyWon, AbortCycle, LoseCycle,
         ResetCycle, AbandonClaim
<1>3. \A s \in Sessions : s # w => wanted'[s] = wanted[s]
  BY <1>a
     DEF WorkerStep, WorkerChoice, StartCycle, Reap, Scan, Claim, Complete, Fail, Settle, Commit,
         CommitOf, EnsureTick, HandlerEnqueue, KeyWon, WaitForKey, Insert, WriteRow, AbortCycle,
         LoseCycle, KeyLost, RollbackOf, AbandonClaim, db
<1>4. Lapses'
  <2>1. CASE StartCycle(w)
    BY <2>1, <1>a, <1>1 DEF StartCycle, LeaseLapsed, Lapses, Holding
  <2>2. CASE Reap(w) \/ AbortCycle(w) \/ LoseCycle(w)
    BY <2>2, <1>a, <1>1 DEF Reap, AbortCycle, LoseCycle, ResetCycle, NoneLoaded, Lapses, Holding
  <2>3. CASE expired' = expired
    BY <2>3 DEF Lapses, Holding
  <2> QED BY <2>1, <2>2, <2>3
          DEF WorkerStep, WorkerChoice, Scan, Commit, Claim, Complete, Fail, Settle, EnsureTick,
              HandlerEnqueue, KeyWon, AbandonClaim, worker
<1>5. \A v \in Workers : InCycle(v)'
  <2>1. ASSUME NEW v \in Workers, v # w PROVE InCycle(v)'
    BY <2>1, <1>a, <1>1, <1>3, OthersCycle
  <2> QED BY <2>1, WorkerCycle
<1>6. \A r \in Requests : InResponse(r)'
  BY <1>a, <1>1, <1>2 DEF Holding, InResponse, Untouched
<1> QED BY <1>4, <1>5, <1>6, WorkerLeases DEF Holding

\* So does a request's step.
LEMMA RequestHolding ==
    ASSUME Holding, Inv', LoadedStatus', WaitsFirst', NEW r \in Requests, RequestStep(r) \/ RequestCommit(r)
    PROVE  Holding'
<1>a. Inv /\ Nobody \notin Sessions
      /\ Workers \subseteq Sessions /\ Requests \subseteq Sessions /\ r \notin Workers
      /\ DOMAIN wanted = Sessions /\ req \in [Requests -> RequestStates] /\ DOMAIN lock = Jobs
      /\ row \in [Jobs -> Rows] /\ draft \in [Jobs -> Rows] /\ Leases
  BY NamesAssumption DEF Holding, Inv, Typed, NamesAssumption, Sessions
<1>1. UNCHANGED <<pc, todo, current, expired>> /\ \A s \in Sessions : s # r => Untouched(s)
  BY <1>a, RequestFrame DEF worker
<1>2. \A s \in Sessions : s # r => wanted'[s] = wanted[s]
  BY <1>a
     DEF RequestStep, RequestEnqueue, Insert, WriteRow, RequestEnqueueAgain, RequestWait, WaitForKey,
         RequestCommit, CommitOf, RequestRollback, RequestLoses, KeyLost, RollbackOf, RequestLoad,
         RequestWrite, db
<1>3. \A q \in Requests : q # r => req'[q] = req[q]
  BY <1>a
     DEF RequestStep, RequestEnqueue, RequestEnqueueAgain, RequestCommit, RequestRollback,
         RequestWait, RequestLoses, RequestLoad, RequestWrite
<1>4. Leases'
  <2>1. ASSUME NEW key \in Keys \cup {NoKey}, RequestEnqueue(r, key, Null) PROVE Leases'
    <3>1. PICK j \in Jobs : WriteRow(r, j, NewRow(key, Null))
      BY <2>1 DEF RequestEnqueue, Insert
    <3>2. HasClaim(NewRow(key, Null))
      BY DEF HasClaim, NewRow
    <3> QED BY <3>1, <3>2, <1>a DEF WriteRow, Leases
  <2>2. CASE RequestCommit(r)
    BY <2>2, <1>a DEF RequestCommit, CommitOf, View, Leases
  <2>3. CASE RequestRollback(r) \/ RequestLoses(r)
    BY <2>3, <1>a DEF RequestRollback, RequestLoses, KeyLost, RollbackOf, Leases
  <2>4. CASE RequestWrite(r)
    <3> DEFINE j    == req[r].job
               seen == req[r].seen
               new  == IF req[r].op = "cancel" THEN Cancelled(seen) ELSE Retried(seen)
    <3>1. req[r].phase = "loaded"
      BY <2>4 DEF RequestWrite, RequestIs
    <3>2. j \in Jobs /\ seen \in Rows
      BY <3>1, <1>a DEF RequestStates, NoRequest
    <3>3. OrmUpdate(row[j], seen, new).status \in {"cancelled", "queued"}
      <4>1. row[j] \in Rows
        BY <3>2, <1>a
      <4>2. \/ req[r].op = "cancel" /\ seen.status \in Waiting
            \/ req[r].op = "retry" /\ seen.status = "failed"
        BY <3>1 DEF Holding, LoadedStatus
      <4> QED BY <3>2, <4>1, <4>2, WriteStatus
    <3>4. /\ row' = [row EXCEPT ![j] = OrmUpdate(row[j], seen, new)]
          /\ draft' = [draft EXCEPT ![j] = OrmUpdate(row[j], seen, new)]
      BY <2>4 DEF RequestWrite
    <3> HIDE DEF new
    <3> QED BY <3>2, <3>3, <3>4, <1>a DEF Leases, HasClaim
  <2>5. CASE UNCHANGED <<row, draft>>
    BY <2>5, <1>a DEF Leases
  <2> QED BY <2>1, <2>2, <2>3, <2>4, <2>5
          DEF RequestStep, RequestEnqueueAgain, RequestWait, WaitForKey, RequestLoad, db
<1>5. Lapses'
  BY <1>1 DEF Lapses, Holding
<1>6. \A w \in Workers : InCycle(w)'
  BY <1>a, <1>1, <1>2, OthersCycle
<1>7. InResponse(r)'
  <2>1. ASSUME NEW key \in Keys \cup {NoKey}, RequestEnqueue(r, key, Null) PROVE InResponse(r)'
    BY <2>1, <1>a DEF RequestEnqueue, InResponse
  <2>2. CASE \E key \in Keys : RequestEnqueueAgain(r, key)
    BY <2>2, <1>a DEF RequestEnqueueAgain, InResponse
  <2>3. CASE RequestCommit(r) \/ RequestRollback(r) \/ RequestLoses(r)
    <3>1. \A j \in Jobs : lock'[j] # r
      BY <2>3, <1>a DEF RequestCommit, CommitOf, RequestRollback, RequestLoses, KeyLost, RollbackOf
    <3> QED BY <3>1 DEF InResponse
  <2>4. CASE req[r].phase # "enqueued" /\ lock' = lock
    BY <2>4 DEF Holding, InResponse
  <2>5. (\E key \in Keys : RequestWait(r, key)) => req[r].phase = "idle" /\ lock' = lock
    BY DEF RequestWait, RequestIs, WaitForKey
  <2>6. (\E j \in Jobs, op \in {"cancel", "retry"} : RequestLoad(r, j, op)) => req[r].phase = "idle" /\ lock' = lock
    BY DEF RequestLoad, RequestIs, db
  <2>7. RequestWrite(r) => req[r].phase = "loaded" /\ lock' = lock
    BY DEF RequestWrite, RequestIs
  <2> QED BY <2>1, <2>2, <2>3, <2>4, <2>5, <2>6, <2>7 DEF RequestStep
<1>8. \A q \in Requests : InResponse(q)'
  <2>1. ASSUME NEW q \in Requests, q # r PROVE InResponse(q)'
    BY <2>1, <1>a, <1>1, <1>3 DEF Holding, InResponse, Untouched
  <2> QED BY <2>1, <1>7
<1> QED BY <1>4, <1>5, <1>6, <1>8 DEF Holding

\* Time takes no lease away and keeps candidates claimable.
LEMMA TickHolding ==
    ASSUME Holding, Inv', LoadedStatus', WaitsFirst', Tick
    PROVE  Holding'
<1>a. row \in [Jobs -> Rows] /\ draft \in [Jobs -> Rows]
      /\ \A w \in Workers : todo[w] \subseteq Jobs
  BY DEF Holding, Inv, Typed
<1>1. /\ row' = [j \in Jobs |-> ElapseRow(row[j])] /\ draft' = [j \in Jobs |-> ElapseRow(draft[j])]
      /\ UNCHANGED <<lock, wanted, pc, expired, todo, current, req>>
  BY DEF Tick, worker
<1>2. Leases'
  BY <1>1, <1>a, LeasedRows DEF Leases, Holding
<1>3. \A w \in Workers : InCycle(w)'
  BY <1>1, <1>a, LeasedRows DEF InCycle, Holding
<1>4. Lapses' /\ \A r \in Requests : InResponse(r)'
  BY <1>1 DEF Lapses, InResponse, Holding
<1> QED BY <1>2, <1>3, <1>4 DEF Holding

\* Holding is inductive.
LEMMA NextHolding == Holding /\ [Next]_vars => Holding'
<1> SUFFICES ASSUME Holding, [Next]_vars PROVE Holding'
  OBVIOUS
<1>1. CASE UNCHANGED vars
  <2>1. Inv'
    BY NextInv DEF Holding
  <2> QED BY <1>1, <2>1
          DEF vars, Holding, LoadedStatus, WaitsFirst, Leases, Lapses, InCycle, InResponse
<1>2. CASE Next
  <2>1. Inv' /\ LoadedStatus' /\ WaitsFirst'
    BY <1>2, NextInv, LoadedKept, WaitsFirstKept DEF Holding
  <2> QED BY <1>2, <2>1, WorkerHolding, RequestHolding, TickHolding DEF Next
<1> QED BY <1>1, <1>2

\* Every variable keeps its type, and every running row is a claim: no write over
\* a claim leaves the row running, and none but a claim makes a row running.
THEOREM TypeCorrect == Spec => []TypeOK
<1>1. Holding => TypeOK
  BY DEF Holding, Inv, Leases, TypeOK
<1> QED BY <1>1, InitHolding, NextHolding, PTL DEF Spec

\* A worker in the middle of its cycle that finds something to do: a batch to
\* scan for, a handler to end, a candidate to claim or a commit.
Resumes(w) ==
    \/ pc[w] = "prepare"
    \/ pc[w] = "work" /\ (current[w] # Null \/ todo[w] = {})
    \/ pc[w] = "work" /\ \E j \in todo[w] : IsOldest(j, todo[w]) /\ Claimable(draft[j])

\* A session that is not kept waiting: its response can go out or its cycle go
\* on; or, where its INSERT waits, the key has been committed or given up, or
\* PostgreSQL finds the circle.
CanGoOn(s) ==
    \/ s \in Requests /\ wanted[s] = NoKey /\ req[s].phase = "enqueued"
    \/ s \in Workers /\ wanted[s] = NoKey /\ Resumes(s)
    \/ /\ s \in Workers /\ wanted[s] # NoKey
       /\ Visible(s, wanted[s]) # {} \/ ~KeyContended(s, wanted[s]) \/ InCircle(s)

\* Whatever row is locked, its holder, or a session it directly or indirectly
\* waits for, can go on.
LocksComeFree ==
    \A W \in SUBSET Sessions :
        /\ \E j \in Jobs : lock[j] \in W
        /\ \A s \in W, t \in Sessions : Waits(s, t) => t \in W
        => \E s \in W : CanGoOn(s)

NoJobIsStranded ==
    /\ \A j \in Jobs : row[j].status = "running" => row[j].lease \in Nat
    /\ LocksComeFree

\* A finite set of sessions that all wait for one another has a circle in it.
LEMMA SessionsMeet ==
    ASSUME NEW B \in SUBSET Sessions, IsFiniteSet(B), B # {},
           \A s \in B : \E t \in B : Waits(s, t)
    PROVE  \E s \in B : InCircle(s)
<1> DEFINE Shut(C) == C # {} /\ \A s \in C : \E t \in C : Waits(s, t)
           Sizes   == {Cardinality(C) : C \in {D \in SUBSET B : Shut(D)}}
<1>1. \A C \in SUBSET B : IsFiniteSet(C) /\ Cardinality(C) \in Nat
  BY FS_Subset, FS_CardinalityType
<1>2. Sizes \in SUBSET Nat /\ Sizes # {}
  <2>1. Shut(B)
    OBVIOUS
  <2> QED BY <1>1, <2>1
<1>3. PICK n \in Sizes : \A k \in Sizes : n =< k
  <2> HIDE DEF Sizes
  <2>1. PICK n \in Sizes : \A k \in Sizes : ~ (<<k, n>> \in OpToRel(<, Nat))
    BY <1>2, NatLessThanWellFounded, WFMin
  <2>2. ASSUME NEW k \in Sizes PROVE n =< k
    <3>1. <<k, n>> \notin {pair \in Nat \X Nat : pair[1] < pair[2]}
      BY <2>1 DEF OpToRel
    <3> QED BY <1>2, <3>1
  <2> QED BY <2>2
<1>4. PICK C \in SUBSET B : Shut(C) /\ n = Cardinality(C)
  OBVIOUS
<1>5. ASSUME NEW t \in C, \A u \in C : ~ Waits(u, t)
      PROVE  FALSE
  <2>1. PICK v \in C : Waits(t, v)
    BY <1>4
  <2>2. v # t
    BY <2>1 DEF Waits
  <2>3. Shut(C \ {t})
    <3>1. \A s \in C \ {t} : \E u \in C \ {t} : Waits(s, u)
      BY <1>4, <1>5
    <3> QED BY <2>2, <3>1
  <2>4. Cardinality(C \ {t}) \in Sizes
    BY <2>3
  <2>5. Cardinality(C \ {t}) = Cardinality(C) - 1
    BY <1>1, FS_RemoveElement
  <2> HIDE DEF Sizes, Shut
  <2>6. n \in Nat /\ n =< n - 1
    BY <1>2, <1>3, <1>4, <2>4, <2>5
  <2> QED BY <2>6
<1>6. \A s \in C : InCircle(s)
  <2>1. \A t \in C : (\E u \in C : Waits(t, u)) /\ (\E u \in C : Waits(u, t))
    BY <1>4, <1>5
  <2> QED BY <2>1 DEF InCircle
<1> QED BY <1>4, <1>6

\* A worker that holds a row lock and waits for no key can take its next step.
LEMMA HolderResumes ==
    ASSUME Holding, NEW w \in Workers, pc[w] \in {"prepare", "work"}
    PROVE  Resumes(w)
<1>1. CASE pc[w] = "work" /\ todo[w] # {}
  <2>1. todo[w] \in SUBSET Nat
    BY SizesAssumption DEF Holding, Inv, Typed, Jobs, SizesAssumption
  <2>2. PICK j \in todo[w] : \A k \in todo[w] : ~ (<<k, j>> \in OpToRel(<, Nat))
    BY <1>1, <2>1, NatLessThanWellFounded, WFMin
  <2>3. ASSUME NEW k \in todo[w] PROVE j <= k
    <3>1. <<k, j>> \notin {pair \in Nat \X Nat : pair[1] < pair[2]}
      BY <2>2 DEF OpToRel
    <3> QED BY <2>1, <3>1
  <2>4. Claimable(draft[j])
    BY DEF Holding, InCycle
  <2> QED BY <1>1, <2>3, <2>4 DEF Resumes, IsOldest
<1> QED BY <1>1 DEF Resumes

\* A running job always has a lease that lapses, and locked rows come free,
\* whatever keys workers and requests wait for and in whatever order they have
\* inserted them: what EveryJobSettles and OrphansRecover need of the code,
\* besides workers that go on and time that passes.
THEOREM NothingIsStranded ==
    ASSUME IsFiniteSet(Sessions)
    PROVE  Spec => []NoJobIsStranded
<1>1. Holding => LocksComeFree
  <2> SUFFICES ASSUME Holding, NEW W \in SUBSET Sessions,
                      \E j \in Jobs : lock[j] \in W,
                      \A s \in W, t \in Sessions : Waits(s, t) => t \in W
               PROVE  \E s \in W : CanGoOn(s)
    BY DEF LocksComeFree
  <2> DEFINE B == {s \in W : \E j \in Jobs : lock[j] = s}
  <2>1. \A s \in B : s \in Workers \/ (s \in Requests /\ wanted[s] = NoKey /\ req[s].phase = "enqueued")
    BY DEF Holding, InResponse, WaitsFirst, Sessions
  <2>2. \A s \in B : s \in Workers => pc[s] \in {"prepare", "work"}
    BY DEF Holding, InCycle
  <2>3. ASSUME NEW s \in B, ~ CanGoOn(s)
        PROVE  \E t \in B : Waits(s, t)
    <3>1. s \in Workers /\ wanted[s] # NoKey /\ KeyContended(s, wanted[s])
      BY <2>1, <2>2, <2>3, HolderResumes DEF CanGoOn
    <3>2. PICK j \in Jobs : /\ lock[j] \notin {Nobody, s}
                            /\ row[j].status = "absent" /\ draft[j].status # "absent"
                            /\ draft[j].key = wanted[s]
      BY <3>1 DEF KeyContended
    <3>3. lock[j] \in Sessions
      BY <3>2 DEF Holding, Inv, Typed
    <3>4. Waits(s, lock[j])
      BY <3>1, <3>2 DEF Waits
    <3> QED BY <3>3, <3>4
  <2>4. ASSUME NEW s \in B, InCircle(s) PROVE CanGoOn(s)
    <3>1. \E t \in Sessions : Waits(s, t)
      BY <2>4 DEF InCircle
    <3>2. wanted[s] # NoKey
      BY <3>1 DEF Waits
    <3> QED BY <2>1, <2>4, <3>2 DEF CanGoOn
  <2>5. CASE \A s \in B : ~ CanGoOn(s)
    <3>1. B # {} /\ B \in SUBSET Sessions /\ IsFiniteSet(B)
      BY FS_Subset
    <3>2. PICK s \in B : InCircle(s)
      BY <2>3, <2>5, <3>1, SessionsMeet
    <3> QED BY <2>4, <2>5, <3>2
  <2> QED BY <2>5
<1>2. Holding => \A j \in Jobs : row[j].status = "running" => row[j].lease \in Nat
  BY DEF Holding, Inv, Typed, Leases, HasClaim, Rows, Moments
<1>3. Holding => NoJobIsStranded
  BY <1>1, <1>2 DEF NoJobIsStranded
<1> QED BY <1>3, InitHolding, NextHolding, PTL DEF Spec
=============================================================================
