----------------------- MODULE ActionExecutionProofs -----------------------
(***************************************************************************)
(* Theorems about ActionExecution, for any number of requests and workers, *)
(* any budget and any bound.  The argument is about the row lock: whoever  *)
(* has a mutation in flight holds it, because the claim is an UPDATE of    *)
(* the transaction that calls the provider.  What is final and how often   *)
(* the mutation takes effect depends on what sessions write of a row they  *)
(* loaded earlier; the last sections are about that.                       *)
(***************************************************************************)
EXTENDS ActionExecution, TLAPS

-----------------------------------------------------------------------------
(* The operations on a row.                                                *)

\* Every outcome, verdict and recovery yields a row.
LEMMA RowOperations ==
    ASSUME NEW r \in Rows
    PROVE  /\ \A status \in Statuses : [r EXCEPT !.status = status] \in Rows
           /\ \A status \in Statuses :
                 [r EXCEPT !.status = status, !.executing_at = Null] \in Rows
           /\ [r EXCEPT !.status = "executing", !.executing_at = 0] \in Rows
           /\ \A recon \in Recons :
                 [r EXCEPT !.status = "failed", !.recon = recon] \in Rows
           /\ [r EXCEPT !.status = "failed", !.executing_at = Null,
                        !.retry_count = Bump(@)] \in Rows
           /\ Older(r) \in Rows
<1>1. 0 \in 0..StaleAfter /\ Bump(r.retry_count) \in 0..Cap
  BY SizesAssumption DEF SizesAssumption, Bump, Rows
<1>2. /\ [r EXCEPT !.status = "executing", !.executing_at = 0] \in Rows
      /\ [r EXCEPT !.status = "failed", !.executing_at = Null,
                   !.retry_count = Bump(@)] \in Rows
  BY <1>1 DEF Rows, Statuses
<1>3. Older(r) \in Rows
  BY SizesAssumption DEF SizesAssumption, Older, Rows
<1> QED BY <1>2, <1>3 DEF Rows, Statuses

\* Writing back a stale object yields a row, with a status of one of the two.
LEMMA FlushType ==
    ASSUME NEW now \in Rows, NEW was \in Rows, NEW new \in Rows
    PROVE  /\ Flush(now, was, new) \in Rows
           /\ Flush(now, was, new).status \in {now.status, new.status}
BY DEF Flush, Rows

\* An outcome yields a row, and says completed only of a confirmed call.
LEMMA OutcomeType ==
    ASSUME NEW r \in Rows, NEW c \in Sessions, seen \in [Sessions -> Rows],
           out[c] \in {"confirmed", "refused", "ambiguous"}
    PROVE  /\ Outcome(r, c) \in Rows
           /\ Outcome(r, c).status = "completed" => out[c] = "confirmed"
<1>1. Bump(seen[c].retry_count) \in 0..Cap
  BY SizesAssumption DEF SizesAssumption, Bump, Rows
<1>2. CASE out[c] = "confirmed"
  BY <1>2 DEF Outcome, Rows, Statuses, Recons
<1>3. CASE out[c] = "refused"
  BY <1>1, <1>3 DEF Outcome, Rows, Statuses
<1>4. CASE out[c] = "ambiguous"
  BY <1>4 DEF Outcome, Rows, Statuses, Recons, Open
<1> QED BY <1>2, <1>3, <1>4

\* A verdict yields a row, and completes the action only if it was applied.
LEMMA VerdictType ==
    ASSUME NEW r \in Rows, NEW evidence, NEW verdict \in Verdicts(evidence)
    PROVE  /\ Resolved(r, verdict) \in Rows
           /\ Resolved(r, verdict).status = "completed" =>
                 r.status = "completed" \/ evidence = "applied"
<1>1. CASE verdict = "KEEP_UNKNOWN"
  BY <1>1 DEF Resolved, StillUnknown, Confirmed, NotApplied, Rows, Recons, Open
<1>2. CASE verdict = "CONFIRM_SUCCESS"
  BY <1>2 DEF Verdicts, Resolved, Confirmed, Rows, Statuses, Recons
<1>3. CASE verdict = "CONFIRM_NOT_APPLIED"
  BY <1>3 DEF Resolved, StillUnknown, Confirmed, NotApplied, Rows, Recons
<1> QED BY <1>1, <1>2, <1>3 DEF Verdicts

\* So does a reconciliation.
LEMMA ReconciledType ==
    ASSUME NEW r \in Rows, NEW answer \in {"applied", "not_applied", "unknown"}
    PROVE  /\ Reconciled(r, answer) \in Rows
           /\ Reconciled(r, answer).status = "completed" =>
                 r.status = "completed" \/ answer = "applied"
<1>1. CASE answer = "applied"
  BY <1>1 DEF Reconciled, StillUnknown, Confirmed, NotApplied, Rows, Statuses, Recons
<1>2. CASE answer = "not_applied"
  BY <1>2 DEF Reconciled, StillUnknown, Confirmed, NotApplied, Rows, Recons
<1>3. CASE answer = "unknown"
  BY <1>3 DEF Reconciled, StillUnknown, Confirmed, NotApplied, Rows, Recons, Open
<1> QED BY <1>1, <1>2, <1>3

-----------------------------------------------------------------------------
(* The inductive invariant.                                                *)

\* Whoever has the mutation in flight holds the row lock.
Owning == \A c \in Sessions : Mutating(c) => lock = c

\* Neither the committed row nor the open transaction's says completed before
\* the provider has applied the mutation.
HonestRow(r) == r.status = "completed" => applied > 0

\* What a session remembers of the provider is true, and is what the step it
\* is about to take expects.
HonestOut(s) ==
    /\ out[s] \in {"confirmed", "applied"} => applied > 0
    /\ pc[s] = "called" => out[s] \in {"confirmed", "refused", "ambiguous"}
    /\ pc[s] = "applying" => out[s] \in {"applied", "not_applied", "unknown"}

Honest ==
    /\ HonestRow(row) /\ HonestRow(draft)
    /\ \A s \in Sessions : HonestOut(s)

Inv == TypeOK /\ Owning /\ Honest

\* The types of the counters, which most steps leave alone.
CountersOK ==
    /\ job \in JobRows
    /\ doubts \in 0..Cap
    /\ crashes \in 0..MaxCrashes /\ orphans \in 0..MaxOrphans
    /\ misreads \in 0..MaxMisreads

\* The transaction of s has released the lock, taken it, or left it alone.
LockMoves(s) ==
    \/ lock' = lock
    \/ lock \in {Nobody, s} /\ lock' \in {Nobody, s}

\* The database after a step: rows that are honest, and a lock that only its
\* holder passes on.
StoreOK(s) ==
    /\ row' \in Rows /\ draft' \in Rows
    /\ row'.status = "completed" => applied > 0
    /\ draft'.status = "completed" => applied > 0
    /\ LockMoves(s)

-----------------------------------------------------------------------------
(* What Save, Hold and Discard preserve.                                   *)

LEMMA ViewType ==
    ASSUME Inv, NEW s \in Sessions
    PROVE  View(s) \in Rows /\ (View(s).status = "completed" => applied > 0)
BY DEF Inv, TypeOK, Honest, HonestRow, View

LEMMA SaveStores ==
    ASSUME Inv, NEW s \in Sessions, NEW new \in Rows,
           new.status = "completed" => applied > 0, Save(s, new)
    PROVE  StoreOK(s) /\ lock' = Nobody
BY DEF Save, StoreOK, LockMoves

LEMMA HoldStores ==
    ASSUME Inv, NEW s \in Sessions, NEW new \in Rows,
           new.status = "completed" => applied > 0, Hold(s, new)
    PROVE  StoreOK(s) /\ lock' = s
BY DEF Hold, StoreOK, LockMoves, Inv, TypeOK, Honest, HonestRow

LEMMA DiscardStores ==
    ASSUME Inv, NEW s \in Sessions, Discard(s)
    PROVE  StoreOK(s) /\ lock' # s
<1>1. s # Nobody
  BY NamesAssumption DEF NamesAssumption
<1> QED BY <1>1 DEF Discard, StoreOK, LockMoves, Inv, TypeOK, Honest, HonestRow

LEMMA IdleStores ==
    ASSUME Inv, NEW s \in Sessions, UNCHANGED db
    PROVE  StoreOK(s)
BY DEF db, StoreOK, LockMoves, Inv, TypeOK, Honest, HonestRow

-----------------------------------------------------------------------------
(* The two ways a step ends.                                               *)

\* A session that ends its transaction without keeping the lock keeps Inv.
LEMMA EndingStep ==
    ASSUME Inv, NEW s \in Sessions, Done(s), StoreOK(s), lock' # s,
           applied' = applied, left' = left, CountersOK'
    PROVE  Inv'
<1> USE DEF Inv
<1>1. s # Nobody /\ Nobody \notin Sessions
  BY NamesAssumption DEF NamesAssumption
<1>2. NotLoaded \in Rows
  BY SizesAssumption DEF SizesAssumption, NotLoaded, NewRow, Rows, Statuses, Recons
<1>3. /\ pc' = [pc EXCEPT ![s] = "idle"] /\ op' = [op EXCEPT ![s] = "none"]
      /\ seen' = [seen EXCEPT ![s] = NotLoaded]
      /\ out' = [out EXCEPT ![s] = Null]
  BY DEF Done
<1>4. pc'[s] = "idle" /\ \A d \in Sessions \ {s} : pc'[d] = pc[d]
  BY <1>3 DEF TypeOK
<1>5. out'[s] = Null /\ \A d \in Sessions \ {s} : out'[d] = out[d]
  BY <1>3 DEF TypeOK
<1>6. TypeOK'
  <2>1. /\ lock' \in Sessions \cup {Nobody}
        /\ lock' # Nobody => pc'[lock'] \notin {"idle", "loaded"}
    BY <1>1, <1>4 DEF TypeOK, StoreOK, LockMoves
  <2>2. /\ pc' \in [Sessions -> {"idle", "loaded", "ready", "calling", "called",
                                "cycle", "reading", "applying"}]
        /\ op' \in [Sessions -> Ops \cup {"none", "reconcile"}]
        /\ out' \in [Sessions -> Outcomes]
    BY <1>3 DEF TypeOK, Outcomes
  <2>3. seen' \in [Sessions -> Rows]
    BY <1>2, <1>3 DEF TypeOK
  <2> QED BY <2>1, <2>2, <2>3 DEF TypeOK, StoreOK, CountersOK
<1>7. Owning'
  BY <1>1, <1>4 DEF Owning, Mutating, StoreOK, LockMoves, TypeOK
<1>8. Honest'
  <2>1. \A d \in Sessions : HonestOut(d)'
    BY <1>4, <1>5, NamesAssumption DEF NamesAssumption, HonestOut, Honest
  <2> QED BY <2>1 DEF Honest, HonestRow, StoreOK
<1> QED BY <1>6, <1>7, <1>8

\* A session goes on to its next step with the lock that step needs.
GoesOn(s) ==
    /\ pc' = [pc EXCEPT ![s] = pc'[s]]
    /\ pc'[s] \in {"loaded", "ready", "calling", "called",
                   "cycle", "reading", "applying"}
    /\ pc'[s] = "loaded" => lock' # s
    /\ pc'[s] \in {"calling", "called"} => lock' = s
    /\ Mutating(s) => lock = s

\* What it remembers is what the provider said.
Remembers(s) ==
    /\ out' = [out EXCEPT ![s] = out'[s]] /\ out'[s] \in Outcomes
    /\ out'[s] \in {"confirmed", "applied"} => applied' > 0
    /\ pc'[s] = "called" => out'[s] \in {"confirmed", "refused", "ambiguous"}
    /\ pc'[s] = "applying" => out'[s] \in {"applied", "not_applied", "unknown"}

\* The rest of the state after a step that goes on.
RestOK ==
    /\ op' \in [Sessions -> Ops \cup {"none", "reconcile"}]
    /\ seen' \in [Sessions -> Rows] /\ left' \in [Ops -> Nat]
    /\ applied' \in 0..Cap /\ applied' >= applied /\ CountersOK'

\* A session that goes on keeps Inv.
LEMMA GoingOnStep ==
    ASSUME Inv, NEW s \in Sessions,
           StoreOK(s), GoesOn(s), Remembers(s), RestOK
    PROVE  Inv'
<1> USE DEF Inv
<1>1. s # Nobody /\ Nobody \notin Sessions
  BY NamesAssumption DEF NamesAssumption
<1>2. /\ pc' \in [Sessions -> {"idle", "loaded", "ready", "calling", "called",
                              "cycle", "reading", "applying"}]
      /\ \A d \in Sessions \ {s} : pc'[d] = pc[d]
  BY DEF GoesOn, TypeOK
<1>3. out' \in [Sessions -> Outcomes] /\ \A d \in Sessions \ {s} : out'[d] = out[d]
  BY DEF Remembers, TypeOK
<1>4. applied \in Nat /\ applied' \in Nat /\ (applied > 0 => applied' > 0)
  BY SizesAssumption DEF SizesAssumption, TypeOK, RestOK
<1>5. TypeOK'
  <2>1. /\ lock' \in Sessions \cup {Nobody}
        /\ lock' # Nobody => pc'[lock'] \notin {"idle", "loaded"}
    BY <1>1, <1>2 DEF TypeOK, StoreOK, LockMoves, GoesOn
  <2> QED BY <2>1, <1>2, <1>3 DEF TypeOK, StoreOK, CountersOK, RestOK
<1>6. Owning'
  BY <1>1, <1>2 DEF Owning, Mutating, StoreOK, LockMoves, TypeOK, GoesOn
<1>7. Honest'
  <2>1. \A d \in Sessions : HonestOut(d)'
    BY <1>2, <1>3, <1>4 DEF HonestOut, Honest, Remembers
  <2> QED BY <1>4, <2>1 DEF Honest, HonestRow, StoreOK
<1> QED BY <1>5, <1>6, <1>7

-----------------------------------------------------------------------------
(* The requests' steps.                                                    *)

\* What the operator, or the reconciler, sees is what is there.
LEMMA TruthType ==
    ASSUME Inv
    PROVE  /\ Truth \in {"applied", "not_applied"}
           /\ Truth = "applied" => applied > 0
BY DEF Truth

LEMMA MarkFailedStep ==
    ASSUME Inv, NEW c \in Sessions, NEW loaded \in Rows, MarkFailed(c, loaded)
    PROVE  Inv'
<1> DEFINE failed == [loaded EXCEPT !.status = "failed", !.executing_at = Null]
           new    == Flush(View(c), loaded, failed)
<1>1. failed \in Rows /\ failed.status = "failed"
  <2>1. "failed" \in Statuses
    BY DEF Statuses
  <2>2. failed \in Rows
    BY <2>1, RowOperations
  <2>3. failed.status = "failed"
    BY DEF Rows
  <2> QED BY <2>2, <2>3
<1>2. new \in Rows /\ (new.status = "completed" => applied > 0)
  <2> HIDE DEF failed
  <2> QED BY <1>1, ViewType, FlushType
<1>3. Save(c, new) /\ Done(c) /\ UNCHANGED <<job, left, counted>>
  BY DEF MarkFailed
<1>4. StoreOK(c) /\ lock' = Nobody
  <2> HIDE DEF new
  <2> QED BY <1>2, <1>3, SaveStores
<1>5. c # Nobody
  BY NamesAssumption DEF NamesAssumption
<1>6. CountersOK' /\ applied' = applied /\ left' = left
  BY <1>3 DEF counted, CountersOK, Inv, TypeOK
<1> HIDE DEF new
<1> QED BY <1>3, <1>4, <1>5, <1>6, EndingStep

LEMMA LoadStep ==
    ASSUME Inv, NEW c \in Sessions, NEW o \in Ops, Load(c, o)
    PROVE  Inv'
<1>1. StoreOK(c) /\ lock' = lock /\ lock # c
  BY IdleStores, NamesAssumption
     DEF NamesAssumption, Load, db, Inv, TypeOK
<1>2. pc'[c] \in {"loaded", "ready"} /\ pc' = [pc EXCEPT ![c] = pc'[c]]
  BY DEF Load, Goto, Inv, TypeOK
<1>3. GoesOn(c)
  BY <1>1, <1>2 DEF GoesOn, Load, Mutating
<1>4. out'[c] \in {Truth, Null} /\ out' = [out EXCEPT ![c] = out'[c]]
  BY DEF Load, Inv, TypeOK
<1>5. applied' = applied /\ applied \in Nat
  BY SizesAssumption DEF SizesAssumption, Load, counted, Inv, TypeOK
<1>6. Remembers(c)
  BY <1>2, <1>4, <1>5, TruthType, NamesAssumption
     DEF NamesAssumption, Remembers, Outcomes
<1>7. left' \in [Ops -> Nat]
  BY DEF Load, Inv, TypeOK
<1>8. RestOK
  BY <1>5, <1>7 DEF RestOK, Load, counted, CountersOK, Inv, TypeOK
<1> QED BY <1>1, <1>3, <1>6, <1>8, GoingOnStep

\* reject and cancel write a decision over the row they loaded.
LEMMA DecideStep ==
    ASSUME Inv, NEW c \in Sessions, Decide(c)
    PROVE  Inv'
<1> DEFINE verdict == IF op[c] = "reject" THEN "rejected" ELSE "cancelled"
           decided == [seen[c] EXCEPT !.status = verdict]
           new     == Flush(row, seen[c], decided)
<1>1. seen[c] \in Rows /\ row \in Rows
  BY DEF Inv, TypeOK
<1>2. decided \in Rows /\ decided.status \in {"rejected", "cancelled"}
  <2>1. verdict \in Statuses
    BY DEF Statuses
  <2>2. decided \in Rows
    BY <1>1, <2>1, RowOperations
  <2>3. decided.status = verdict
    BY <1>1 DEF Rows
  <2>4. verdict \in {"rejected", "cancelled"}
    OBVIOUS
  <2> HIDE DEF decided, verdict
  <2> QED BY <2>2, <2>3, <2>4
<1>3. new \in Rows /\ (new.status = "completed" => applied > 0)
  <2> HIDE DEF decided
  <2> QED BY <1>1, <1>2, FlushType DEF Inv, Honest, HonestRow
<1>4. Save(c, new) /\ Done(c) /\ UNCHANGED <<job, left, counted>>
  BY DEF Decide
<1>5. StoreOK(c) /\ lock' = Nobody
  <2> HIDE DEF new
  <2> QED BY <1>3, <1>4, SaveStores
<1>6. c # Nobody /\ CountersOK' /\ applied' = applied /\ left' = left
  BY <1>4, NamesAssumption DEF NamesAssumption, counted, CountersOK, Inv, TypeOK
<1> HIDE DEF new
<1> QED BY <1>4, <1>5, <1>6, EndingStep

\* approve takes the lock: another session's mutation is then not in flight.
LEMMA ApproveStep ==
    ASSUME Inv, NEW c \in Sessions, Approve(c)
    PROVE  Inv'
<1> DEFINE approved == [seen[c] EXCEPT !.status = "approved"]
           new      == Flush(row, seen[c], approved)
<1>1. seen[c] \in Rows /\ row \in Rows
  BY DEF Inv, TypeOK
<1>2. approved \in Rows /\ approved.status = "approved"
  <2>1. "approved" \in Statuses
    BY DEF Statuses
  <2>2. approved \in Rows
    BY <1>1, <2>1, RowOperations
  <2>3. approved.status = "approved"
    BY <1>1 DEF Rows
  <2> QED BY <2>2, <2>3
<1>3. new \in Rows /\ (new.status = "completed" => applied > 0)
  <2> HIDE DEF approved
  <2> QED BY <1>1, <1>2, FlushType DEF Inv, Honest, HonestRow
<1>4. Hold(c, new) /\ Goto(c, "ready") /\ UNCHANGED <<op, out, job, left, counted>>
  BY DEF Approve
<1>5. StoreOK(c)
  <2> HIDE DEF new
  <2> QED BY <1>3, <1>4, HoldStores
<1>6. pc'[c] = "ready" /\ pc' = [pc EXCEPT ![c] = "ready"]
  BY <1>4 DEF Goto, Inv, TypeOK
<1>7. GoesOn(c)
  BY <1>6 DEF GoesOn, Approve, Mutating
<1>8. out' = out /\ applied' = applied
  BY <1>4 DEF counted
<1>9. Remembers(c)
  BY <1>6, <1>8 DEF Remembers, Inv, TypeOK, Honest, HonestOut
<1>10. seen' \in [Sessions -> Rows]
  <2> HIDE DEF approved
  <2>1. seen' = [seen EXCEPT ![c] = approved]
    BY DEF Approve, approved
  <2> QED BY <1>2, <2>1 DEF Inv, TypeOK
<1>11. RestOK
  BY <1>4, <1>10, SizesAssumption
     DEF SizesAssumption, RestOK, counted, CountersOK, Inv, TypeOK
<1> QED BY <1>5, <1>7, <1>9, <1>11, GoingOnStep

\* The claim takes the lock before it lets the request call the provider.
LEMMA ClaimStep ==
    ASSUME Inv, NEW c \in Sessions, Claim(c)
    PROVE  Inv'
<1> DEFINE new == [View(c) EXCEPT !.status = "executing", !.executing_at = 0]
<1>1. new \in Rows /\ (new.status = "completed" => applied > 0)
  BY ViewType, RowOperations DEF Rows
<1>2. Hold(c, new) /\ Goto(c, "calling") /\ UNCHANGED <<op, seen, out, job, left, counted>>
  BY DEF Claim
<1>3. StoreOK(c) /\ lock' = c
  <2> HIDE DEF new
  <2> QED BY <1>1, <1>2, HoldStores
<1>4. pc'[c] = "calling" /\ pc' = [pc EXCEPT ![c] = "calling"]
  BY <1>2 DEF Goto, Inv, TypeOK
<1>5. GoesOn(c)
  BY <1>3, <1>4 DEF GoesOn, Claim, Mutating
<1>6. out' = out /\ applied' = applied
  BY <1>2 DEF counted
<1>7. Remembers(c)
  BY <1>4, <1>6 DEF Remembers, Inv, TypeOK, Honest, HonestOut
<1>8. RestOK
  BY <1>2, SizesAssumption
     DEF SizesAssumption, RestOK, counted, CountersOK, Inv, TypeOK
<1> QED BY <1>3, <1>5, <1>7, <1>8, GoingOnStep

\* A confirmed answer is only given of a mutation that took effect.
LEMMA CallStep ==
    ASSUME Inv, NEW c \in Sessions, Call(c)
    PROVE  Inv'
<1>1. PICK answer \in {"confirmed", "refused", "ambiguous"}, took \in BOOLEAN :
          /\ answer = "confirmed" => took
          /\ answer = "refused" /\ took => misreads < MaxMisreads
          /\ misreads' = misreads + (IF answer = "refused" /\ took THEN 1 ELSE 0)
          /\ out' = [out EXCEPT ![c] = answer]
          /\ applied' = IF took THEN Bump(applied) ELSE applied
  BY DEF Call
<1>2. applied' \in 0..Cap /\ applied' >= applied /\ (took => applied' > 0)
  BY <1>1, SizesAssumption DEF SizesAssumption, Inv, TypeOK, Bump
<1>3. misreads' \in 0..MaxMisreads
  BY <1>1, SizesAssumption DEF SizesAssumption, Inv, TypeOK
<1>4. Goto(c, "called") /\ UNCHANGED <<db, job, op, seen, left, doubts, crashes, orphans>>
  BY DEF Call
<1>5. pc'[c] = "called" /\ pc' = [pc EXCEPT ![c] = "called"]
  BY <1>4 DEF Goto, Inv, TypeOK
<1>6. lock = c /\ lock' = c /\ StoreOK(c)
  BY <1>4, IdleStores DEF Call, Mutating, Inv, Owning, db
<1>7. GoesOn(c)
  BY <1>5, <1>6 DEF GoesOn
<1>8. out'[c] = answer
  BY <1>1 DEF Inv, TypeOK
<1>9. Remembers(c)
  BY <1>1, <1>2, <1>5, <1>8 DEF Remembers, Outcomes
<1>10. RestOK
  BY <1>2, <1>3, <1>4 DEF RestOK, CountersOK, Inv, TypeOK
<1> QED BY <1>6, <1>7, <1>9, <1>10, GoingOnStep

\* What a job's attempts leave it in.
LEMMA AttemptType ==
    /\ NoJob \in JobRows /\ NewJob \in JobRows /\ NewJob # NoJob
    /\ \A j \in JobRows, raised \in BOOLEAN :
          /\ Attempted(j, raised) \in JobRows /\ Attempted(j, raised) # NoJob
          /\ raised => Attempted(j, raised).status \in {"queued", "failed"}
<1>1. NoJob \in JobRows /\ NewJob \in JobRows /\ NewJob # NoJob
  BY SizesAssumption DEF SizesAssumption, NoJob, NewJob, JobRows
<1>2. ASSUME NEW j \in JobRows, NEW raised \in BOOLEAN
      PROVE  /\ Attempted(j, raised) \in JobRows /\ Attempted(j, raised) # NoJob
             /\ raised => Attempted(j, raised).status \in {"queued", "failed"}
  <2>1. j.attempts \in Nat /\ JobAttempts \in Nat
    BY SizesAssumption DEF SizesAssumption, JobRows
  <2> QED BY <2>1 DEF Attempted, JobRows, NoJob
<1> QED BY <1>1, <1>2

LEMMA RecordStep ==
    ASSUME Inv, NEW c \in Sessions, Record(c)
    PROVE  Inv'
<1> DEFINE new == Outcome(draft, c)
<1>1. /\ draft \in Rows /\ seen \in [Sessions -> Rows]
      /\ out[c] \in {"confirmed", "refused", "ambiguous"}
      /\ out[c] = "confirmed" => applied > 0
  BY DEF Record, Inv, TypeOK, Honest, HonestOut
<1>2. new \in Rows /\ (new.status = "completed" => applied > 0)
  BY <1>1, OutcomeType
<1>3. Save(c, new) /\ Done(c) /\ left' = left /\ applied' = applied
  BY DEF Record
<1>4. StoreOK(c) /\ lock' = Nobody
  <2> HIDE DEF new
  <2> QED BY <1>2, <1>3, SaveStores
<1>5. c # Nobody
  BY NamesAssumption DEF NamesAssumption
<1>6. CountersOK'
  BY SizesAssumption, AttemptType DEF SizesAssumption, Record, CountersOK, Inv, TypeOK, Bump
<1> HIDE DEF new
<1> QED BY <1>3, <1>4, <1>5, <1>6, EndingStep

\* The operator confirms only what the provider showed.
LEMMA ResolveStep ==
    ASSUME Inv, NEW c \in Sessions, Resolve(c)
    PROVE  Inv'
<1>1. PICK verdict \in Verdicts(out[c]) : Save(c, Resolved(row, verdict))
  BY DEF Resolve
<1> DEFINE new == Resolved(row, verdict)
<1>2. row \in Rows /\ row.status # "completed" /\ (out[c] = "applied" => applied > 0)
  BY DEF Resolve, Inv, TypeOK, Honest, HonestOut
<1>3. new \in Rows /\ (new.status = "completed" => applied > 0)
  BY <1>2, VerdictType
<1>4. StoreOK(c) /\ lock' = Nobody
  <2> HIDE DEF new
  <2>1. Save(c, new)
    BY <1>1 DEF new
  <2> QED BY <1>3, <2>1, SaveStores
<1>5. c # Nobody /\ Done(c) /\ CountersOK' /\ applied' = applied /\ left' = left
  BY NamesAssumption
     DEF NamesAssumption, Resolve, counted, CountersOK, Inv, TypeOK
<1> QED BY <1>4, <1>5, EndingStep

LEMMA RecoverLegacyStep ==
    ASSUME Inv, NEW c \in Sessions, RecoverLegacy(c)
    PROVE  Inv'
<1>1. PICK recon \in {seen[c].recon, "UNKNOWN"} :
          Save(c, [row EXCEPT !.status = "failed", !.recon = recon])
  BY DEF RecoverLegacy
<1> DEFINE new == [row EXCEPT !.status = "failed", !.recon = recon]
<1>2. recon \in Recons /\ row \in Rows
  BY DEF Inv, TypeOK, Rows, Recons, Open
<1>3. new \in Rows /\ (new.status = "completed" => applied > 0)
  BY <1>2, RowOperations DEF Rows
<1>4. StoreOK(c) /\ lock' = Nobody
  <2> HIDE DEF new
  <2>1. Save(c, new)
    BY <1>1 DEF new
  <2> QED BY <1>3, <2>1, SaveStores
<1>5. c # Nobody /\ Done(c) /\ CountersOK' /\ applied' = applied /\ left' = left
  BY NamesAssumption
     DEF NamesAssumption, RecoverLegacy, counted, CountersOK, Inv, TypeOK
<1> QED BY <1>4, <1>5, EndingStep

\* ClaimFinished and Conflict: a session leaves without a trace.
LEMMA LeavingStep ==
    ASSUME Inv, NEW c \in Sessions, lock = Nobody, Done(c),
           UNCHANGED <<db, job, left, counted>>
    PROVE  Inv'
<1>1. c # Nobody /\ CountersOK' /\ applied' = applied /\ left' = left
  BY NamesAssumption DEF NamesAssumption, counted, CountersOK, Inv, TypeOK
<1>2. StoreOK(c) /\ lock' = Nobody
  BY IdleStores DEF db
<1> QED BY <1>1, <1>2, EndingStep

\* A transaction is lost, and its lock with it.
LEMMA CrashStep ==
    ASSUME Inv, NEW c \in Sessions, Crash(c)
    PROVE  Inv'
<1>1. StoreOK(c) /\ lock' # c
  BY DiscardStores DEF Crash
<1>2. Done(c) /\ CountersOK' /\ applied' = applied /\ left' = left
  BY SizesAssumption DEF SizesAssumption, Crash, CountersOK, Inv, TypeOK
<1> QED BY <1>1, <1>2, EndingStep

LEMMA AbandonClaimStep ==
    ASSUME Inv, NEW c \in Sessions, AbandonClaim(c)
    PROVE  Inv'
<1>1. StoreOK(c) /\ lock' = Nobody
  BY SaveStores DEF AbandonClaim, Inv, TypeOK, Honest, HonestRow
<1>2. c # Nobody /\ Done(c) /\ CountersOK' /\ applied' = applied /\ left' = left
  BY NamesAssumption, SizesAssumption
     DEF NamesAssumption, SizesAssumption, AbandonClaim, CountersOK, Inv, TypeOK
<1> QED BY <1>1, <1>2, EndingStep

-----------------------------------------------------------------------------
(* The worker's steps, and time.                                           *)

LEMMA ReapStep ==
    ASSUME Inv, NEW w \in Sessions, Reap(w)
    PROVE  Inv'
<1> DEFINE new == [row EXCEPT !.status = "failed", !.executing_at = Null,
                              !.retry_count = Bump(@)]
<1>1. row \in Rows
  BY DEF Inv, TypeOK
<1>2. new \in Rows /\ (new.status = "completed" => applied > 0)
  BY <1>1, RowOperations DEF Rows
<1>3. Hold(w, new) /\ Goto(w, "cycle") /\ UNCHANGED <<op, seen, out, job, left, counted>>
  BY DEF Reap
<1>4. StoreOK(w)
  <2> HIDE DEF new
  <2> QED BY <1>2, <1>3, HoldStores
<1>5. pc'[w] = "cycle" /\ pc' = [pc EXCEPT ![w] = "cycle"]
  BY <1>3 DEF Goto, Inv, TypeOK
<1>6. GoesOn(w)
  BY <1>5 DEF GoesOn, Reap, Mutating
<1>7. out' = out /\ applied' = applied
  BY <1>3 DEF counted
<1>8. Remembers(w)
  BY <1>5, <1>7 DEF Remembers, Inv, TypeOK, Honest, HonestOut
<1>9. RestOK
  BY <1>3, SizesAssumption
     DEF SizesAssumption, RestOK, counted, CountersOK, Inv, TypeOK
<1> QED BY <1>4, <1>6, <1>8, <1>9, GoingOnStep

LEMMA TakeJobStep ==
    ASSUME Inv, NEW w \in Sessions, TakeJob(w)
    PROVE  Inv'
<1>1. StoreOK(w)
  BY IdleStores DEF TakeJob
<1>2. pc'[w] \in {"reading", "cycle"} /\ pc' = [pc EXCEPT ![w] = pc'[w]]
  BY DEF TakeJob, Goto, Inv, TypeOK
<1>3. GoesOn(w)
  BY <1>2 DEF GoesOn, TakeJob, Mutating
<1>4. out' = out /\ applied' = applied
  BY DEF TakeJob, counted
<1>5. Remembers(w)
  BY <1>2, <1>4 DEF Remembers, Inv, TypeOK, Honest, HonestOut
<1>6. seen' \in [Sessions -> Rows] /\ op' \in [Sessions -> Ops \cup {"none", "reconcile"}]
  BY ViewType DEF TakeJob, Inv, TypeOK
<1>7. RestOK
  BY <1>6, SizesAssumption
     DEF SizesAssumption, RestOK, TakeJob, counted, CountersOK, Inv, TypeOK
<1> QED BY <1>1, <1>3, <1>5, <1>7, GoingOnStep

\* The reconciler believes that a mutation was applied only if it was.
LEMMA ReadProviderStep ==
    ASSUME Inv, NEW w \in Sessions, ReadProvider(w)
    PROVE  Inv'
<1>1. StoreOK(w)
  BY IdleStores DEF ReadProvider
<1>2. pc'[w] = "applying" /\ pc' = [pc EXCEPT ![w] = "applying"]
  BY DEF ReadProvider, Goto, Inv, TypeOK
<1>3. GoesOn(w)
  BY <1>2 DEF GoesOn, ReadProvider, Mutating
<1>4. applied' = applied
  BY DEF ReadProvider, counted
<1>5. out'[w] \in {Truth, "unknown"} /\ out' = [out EXCEPT ![w] = out'[w]]
  BY DEF ReadProvider, Inv, TypeOK
<1>6. Remembers(w)
  BY <1>2, <1>4, <1>5, TruthType DEF Remembers, Outcomes
<1>7. RestOK
  BY SizesAssumption
     DEF SizesAssumption, RestOK, ReadProvider, counted, CountersOK, Inv, TypeOK
<1> QED BY <1>1, <1>3, <1>6, <1>7, GoingOnStep

\* A read that raises tells the worker nothing.
LEMMA ReadRaisesStep ==
    ASSUME Inv, NEW w \in Sessions, ReadRaises(w)
    PROVE  Inv'
<1>1. StoreOK(w)
  BY IdleStores DEF ReadRaises
<1>2. pc'[w] = "cycle" /\ pc' = [pc EXCEPT ![w] = "cycle"]
  BY DEF ReadRaises, Goto, Inv, TypeOK
<1>3. GoesOn(w)
  BY <1>2 DEF GoesOn, ReadRaises, Mutating
<1>4. out'[w] = "raised" /\ out' = [out EXCEPT ![w] = "raised"] /\ applied' = applied
  BY DEF ReadRaises, counted, Inv, TypeOK
<1>5. Remembers(w)
  BY <1>2, <1>4 DEF Remembers, Outcomes
<1>6. RestOK
  BY SizesAssumption
     DEF SizesAssumption, RestOK, ReadRaises, counted, CountersOK, Inv, TypeOK
<1> QED BY <1>1, <1>3, <1>5, <1>6, GoingOnStep

LEMMA ApplyStep ==
    ASSUME Inv, NEW w \in Sessions, Apply(w)
    PROVE  Inv'
<1> DEFINE new == Reconciled(View(w), out[w])
<1>1. /\ out[w] \in {"applied", "not_applied", "unknown"}
      /\ out[w] = "applied" => applied > 0
  BY DEF Apply, Inv, Honest, HonestOut
<1>2. new \in Rows /\ (new.status = "completed" => applied > 0)
  BY <1>1, ViewType, ReconciledType
<1>3. StoreOK(w)
  <2>1. CASE Hold(w, new)
    <3> HIDE DEF new
    <3> QED BY <1>2, <2>1, HoldStores
  <2>2. CASE UNCHANGED db
    BY <2>2, IdleStores
  <2> QED BY <2>1, <2>2 DEF Apply
<1>4. pc'[w] = "cycle" /\ pc' = [pc EXCEPT ![w] = "cycle"]
  BY DEF Apply, Goto, Inv, TypeOK
<1>5. GoesOn(w)
  BY <1>4 DEF GoesOn, Apply, Mutating
<1>6. out' = out /\ applied' = applied
  BY DEF Apply, counted
<1>7. Remembers(w)
  BY <1>4, <1>6 DEF Remembers, Inv, TypeOK, Honest, HonestOut
<1>8. RestOK
  BY SizesAssumption
     DEF SizesAssumption, RestOK, Apply, counted, CountersOK, Inv, TypeOK
<1> QED BY <1>3, <1>5, <1>7, <1>8, GoingOnStep

LEMMA EndCycleStep ==
    ASSUME Inv, NEW w \in Sessions, EndCycle(w)
    PROVE  Inv'
<1>1. w # Nobody
  BY NamesAssumption DEF NamesAssumption
<1>2. StoreOK(w) /\ lock' # w
  <2>1. CASE lock = w
    BY <1>1, <2>1, SaveStores DEF EndCycle, Inv, TypeOK, Honest, HonestRow
  <2>2. CASE lock # w
    BY <2>2, IdleStores DEF EndCycle, db
  <2> QED BY <2>1, <2>2
<1>3. Done(w) /\ CountersOK' /\ applied' = applied /\ left' = left
  BY AttemptType DEF EndCycle, counted, CountersOK, Inv, TypeOK
<1> QED BY <1>2, <1>3, EndingStep

LEMMA TickStep ==
    ASSUME Inv, Tick
    PROVE  Inv'
<1>1. \A r \in Rows : Older(r) \in Rows /\ Older(r).status = r.status
  <2>1. \A r \in Rows : Older(r).status = r.status
    BY DEF Older, Rows
  <2> QED BY <2>1, RowOperations
<1>2. /\ row' = Older(row) /\ draft' = Older(draft)
      /\ UNCHANGED <<lock, job, pc, op, seen, out, left, counted>>
  BY DEF Tick
<1>3. TypeOK'
  BY <1>1, <1>2 DEF Inv, TypeOK, counted
<1>4. Owning'
  BY <1>2 DEF Inv, Owning, Mutating
<1>5. Honest'
  BY <1>1, <1>2 DEF Inv, TypeOK, Honest, HonestRow, HonestOut, counted
<1> QED BY <1>3, <1>4, <1>5 DEF Inv

LEMMA StutteringStep ==
    ASSUME Inv, UNCHANGED vars
    PROVE  Inv'
BY DEF Inv, TypeOK, Owning, Mutating, Honest, HonestRow, HonestOut, vars

-----------------------------------------------------------------------------
(* The invariant and what it says.                                         *)

LEMMA InitInv == Init => Inv
<1> SUFFICES ASSUME Init PROVE Inv
  OBVIOUS
<1>1. PICK status \in InitialStatus : row = NewRow(status)
  BY DEF Init
<1>2. /\ row \in Rows /\ draft \in Rows /\ NotLoaded \in Rows
      /\ row.status # "completed" /\ draft.status # "completed"
  BY <1>1, SizesAssumption, NamesAssumption
     DEF SizesAssumption, NamesAssumption, Init, NotLoaded, NewRow, Rows,
         Statuses, Recons
<1>3. TypeOK
  BY <1>2, SizesAssumption, AttemptType DEF SizesAssumption, Init, TypeOK, Outcomes
<1>4. Owning
  BY DEF Init, Owning, Mutating
<1>5. Honest
  BY <1>2, NamesAssumption DEF NamesAssumption, Init, Honest, HonestRow, HonestOut
<1> QED BY <1>3, <1>4, <1>5 DEF Inv

LEMMA CallerKeepsInv ==
    ASSUME Inv, NEW c \in Callers, CallerStep(c) \/ CallerChoice(c)
    PROVE  Inv'
<1>1. c \in Sessions
  BY DEF Sessions
<1>2. CASE Decide(c)
  BY <1>1, <1>2, DecideStep
<1>3. CASE Approve(c)
  BY <1>1, <1>3, ApproveStep
<1>4. CASE Claim(c)
  BY <1>1, <1>4, ClaimStep
<1>5. CASE ClaimFinished(c)
  BY <1>1, <1>5, LeavingStep DEF ClaimFinished
<1>6. CASE ClaimBlocked(c)
  BY <1>1, <1>6, ViewType, MarkFailedStep DEF ClaimBlocked
<1>7. CASE Call(c)
  BY <1>1, <1>7, CallStep
<1>8. CASE Record(c)
  BY <1>1, <1>8, RecordStep
<1>9. CASE Resolve(c)
  BY <1>1, <1>9, ResolveStep
<1>10. CASE RecoverLegacy(c)
  BY <1>1, <1>10, RecoverLegacyStep
<1>11. CASE Conflict(c)
  BY <1>1, <1>11, LeavingStep DEF Conflict
<1>12. CASE \E o \in Ops : Load(c, o)
  BY <1>1, <1>12, LoadStep
<1>13. CASE CheckFails(c)
  <2>1. seen[c] \in Rows
    BY <1>1 DEF Inv, TypeOK
  <2> QED BY <1>1, <1>13, <2>1, MarkFailedStep DEF CheckFails
<1>14. CASE Crash(c)
  BY <1>1, <1>14, CrashStep
<1>15. CASE AbandonClaim(c)
  BY <1>1, <1>15, AbandonClaimStep
<1> QED BY <1>2, <1>3, <1>4, <1>5, <1>6, <1>7, <1>8, <1>9, <1>10, <1>11,
           <1>12, <1>13, <1>14, <1>15 DEF CallerStep, CallerChoice

LEMMA WorkerKeepsInv ==
    ASSUME Inv, NEW w \in Workers, WorkerStep(w) \/ CrashCycle(w)
    PROVE  Inv'
<1>1. w \in Sessions
  BY DEF Sessions
<1>2. CASE Reap(w)
  BY <1>1, <1>2, ReapStep
<1>3. CASE TakeJob(w)
  BY <1>1, <1>3, TakeJobStep
<1>4. CASE ReadProvider(w)
  BY <1>1, <1>4, ReadProviderStep
<1>5. CASE Apply(w)
  BY <1>1, <1>5, ApplyStep
<1>6. CASE EndCycle(w)
  BY <1>1, <1>6, EndCycleStep
<1>7. CASE CrashCycle(w)
  BY <1>1, <1>7, CrashStep DEF CrashCycle
<1>8. CASE ReadRaises(w)
  BY <1>1, <1>8, ReadRaisesStep
<1> QED BY <1>2, <1>3, <1>4, <1>5, <1>6, <1>7, <1>8 DEF WorkerStep

\* Every reachable state satisfies the inductive invariant: the lock argument
\* and the honesty of everything that is stored or remembered.
THEOREM Invariance == Spec => []Inv
<1>1. Inv /\ [Next]_vars => Inv'
  <2> SUFFICES ASSUME Inv, [Next]_vars PROVE Inv'
    OBVIOUS
  <2>1. CASE \E c \in Callers : CallerStep(c) \/ CallerChoice(c)
    BY <2>1, CallerKeepsInv
  <2>2. CASE \E w \in Workers : WorkerStep(w) \/ CrashCycle(w)
    BY <2>2, WorkerKeepsInv
  <2>3. CASE Tick
    BY <2>3, TickStep
  <2>4. CASE UNCHANGED vars
    BY <2>4, StutteringStep
  <2> QED BY <2>1, <2>2, <2>3, <2>4 DEF Next
<1> QED BY <1>1, InitInv, PTL DEF Spec

\* The type invariant: every merge of a stale object leaves a well-formed row.
THEOREM TypeCorrect == Spec => []TypeOK
<1>1. Inv => TypeOK
  BY DEF Inv
<1> QED BY <1>1, Invariance, PTL

\* However many requests race, one at most has the provider mutation in
\* flight: each of them would have to hold the row lock.
THEOREM OneMutationInFlight == Spec => []SingleMutator
<1>1. Inv => SingleMutator
  BY DEF Inv, Owning, SingleMutator, Sessions
<1> QED BY <1>1, Invariance, PTL

\* However the confirmed calls, the reconciler and the operators interleave,
\* a committed completed status stands for a mutation that took effect.
THEOREM CompletedOnlyIfApplied == Spec => []CompletedMeansApplied
<1>1. Inv => CompletedMeansApplied
  BY DEF Inv, Honest, HonestRow, CompletedMeansApplied
<1> QED BY <1>1, Invariance, PTL


-----------------------------------------------------------------------------
(* Completions are final and repeated mutations are accounted for, unless  *)
(* a decision is written over a completed action.                          *)

\* A request has loaded the action to decide on it and has not written yet.
Deciding(c) == pc[c] = "loaded" /\ op[c] \in {"approve", "reject", "cancel"}

\* No decision is open when the action is completed.
NoLateDecision == \A c \in Callers : Deciding(c) => row.status # "completed"

\* "approved" is never committed, so that nobody loads it.  Who is about to
\* claim the action has approved it, which took the lock, or has loaded it
\* failed.
LoadedSound(s) ==
    /\ pc[s] = "loaded" => seen[s].status # "approved"
    /\ pc[s] = "ready" =>
         \/ seen[s].status = "approved" /\ draft.status = "approved" /\ lock = s
         \/ seen[s].status = "failed" /\ lock # s

\* What a lock holder's version says, by what it does next.
HolderSound(s) ==
    lock = s =>
        /\ row.status # "completed"
        /\ Mutating(s) => draft.status = "executing"
        /\ pc[s] \in {"cycle", "reading", "applying"} =>
              draft.status \in {"failed", "completed"}

Standing ==
    /\ row.status # "approved"
    /\ \A s \in Sessions : LoadedSound(s) /\ HolderSound(s)

\* A step of s as the other sessions see it.
OthersRest(s) ==
    \A d \in Sessions \ {s} :
        /\ pc'[d] = pc[d] /\ op'[d] = op[d] /\ seen'[d] = seen[d] /\ out'[d] = out[d]
        /\ lock = d => lock' = d /\ draft' = draft /\ row' = row
        /\ lock # d => lock' # d

\* What it may commit.
CommitsSoundly(s) ==
    /\ row'.status # "approved"
    /\ row.status = "completed" => row'.status = "completed"
    /\ Deciding(s) \/ row'.status \in {row.status, "failed", "executing", "completed"}

Stands(s) == OthersRest(s) /\ CommitsSoundly(s) /\ LoadedSound(s)' /\ HolderSound(s)'

\* A version that is written, committed or dropped is no other session's.
LEMMA StoreIsOnes ==
    ASSUME Inv, NEW s \in Sessions,
           (\E new : Save(s, new) \/ Hold(s, new)) \/ Discard(s) \/ UNCHANGED db
    PROVE  \A d \in Sessions \ {s} : /\ lock = d => lock' = d /\ draft' = draft /\ row' = row
                                     /\ lock # d => lock' # d
<1>1. Nobody \notin Sessions
  BY NamesAssumption DEF NamesAssumption
<1> QED BY <1>1 DEF Save, Hold, Discard, db

\* Sound steps keep what stands.
LEMMA StandingKept ==
    ASSUME Inv, Standing, NEW s \in Sessions, Stands(s)
    PROVE  Standing'
<1>1. ASSUME NEW d \in Sessions, d # s PROVE LoadedSound(d)' /\ HolderSound(d)'
  BY <1>1 DEF Standing, Stands, OthersRest, LoadedSound, HolderSound, Mutating
<1> QED BY <1>1 DEF Standing, Stands, CommitsSoundly

\* A session that is done knows nothing any more.
LEMMA DoneStands ==
    ASSUME Inv, NEW s \in Sessions, Done(s), lock' # s, CommitsSoundly(s),
           (\E new : Save(s, new)) \/ Discard(s) \/ UNCHANGED db
    PROVE  Stands(s)
<1>1. pc'[s] = "idle" /\ \A d \in Sessions \ {s} :
        pc'[d] = pc[d] /\ op'[d] = op[d] /\ seen'[d] = seen[d] /\ out'[d] = out[d]
  BY DEF Done, Inv, TypeOK
<1>2. OthersRest(s)
  BY <1>1, StoreIsOnes DEF OthersRest
<1> QED BY <1>1, <1>2 DEF Stands, LoadedSound, HolderSound

\* Flushing keeps a status that the object has as it was loaded.
LEMMA FlushedStatus ==
    ASSUME NEW now \in Rows, NEW was \in Rows, NEW new \in Rows
    PROVE  Flush(now, was, new).status = IF new.status = was.status THEN now.status ELSE new.status
BY DEF Flush, Rows

\* _fail leaves a status that has become another one, if the object was loaded
\* failed.
LEMMA MarkFailedStatus ==
    ASSUME Inv, NEW c \in Sessions, NEW loaded \in Rows, MarkFailed(c, loaded)
    PROVE  /\ row'.status = IF loaded.status = "failed" THEN View(c).status ELSE "failed"
           /\ Done(c) /\ lock' # c /\ lock \in {Nobody, c} /\ \E new : Save(c, new)
<1> DEFINE failed == [loaded EXCEPT !.status = "failed", !.executing_at = Null]
           new    == Flush(View(c), loaded, failed)
<1>1. failed \in Rows /\ failed.status = "failed"
  <2>1. "failed" \in Statuses
    BY DEF Statuses
  <2> QED BY <2>1, RowOperations DEF Rows
<1>2. View(c) \in Rows
  BY ViewType
<1>3. new.status = IF loaded.status = "failed" THEN View(c).status ELSE "failed"
  <2> HIDE DEF failed
  <2> QED BY <1>1, <1>2, FlushedStatus
<1>4. Save(c, new) /\ Done(c)
  BY DEF MarkFailed
<1> HIDE DEF new
<1> QED BY <1>3, <1>4, NamesAssumption DEF Save, NamesAssumption

\* A reject or cancel overwrites no completion, when none is late.
LEMMA DecideStands ==
    ASSUME Inv, Standing, NoLateDecision, NEW c \in Callers, Decide(c)
    PROVE  Stands(c)
<1> DEFINE verdict == IF op[c] = "reject" THEN "rejected" ELSE "cancelled"
           decided == [seen[c] EXCEPT !.status = verdict]
           new     == Flush(row, seen[c], decided)
<1>1. c \in Sessions /\ seen[c] \in Rows /\ row \in Rows /\ c # Nobody
  BY NamesAssumption DEF Inv, TypeOK, Sessions, NamesAssumption
<1>2. Deciding(c) /\ row.status # "completed" /\ row.status # "approved"
  BY DEF Decide, Deciding, NoLateDecision, Standing
<1>3. new.status \in {row.status, "rejected", "cancelled"}
  <2>1. verdict \in Statuses /\ verdict \in {"rejected", "cancelled"}
    BY DEF Statuses
  <2>2. decided \in Rows /\ decided.status = verdict
    <3> HIDE DEF verdict
    <3> QED BY <1>1, <2>1 DEF Rows
  <2> HIDE DEF decided, verdict
  <2> QED BY <1>1, <2>1, <2>2, FlushedStatus
<1>4. Save(c, new) /\ Done(c)
  BY DEF Decide
<1> HIDE DEF new
<1>5. row' = new /\ lock' # c
  BY <1>1, <1>4 DEF Save
<1>6. CommitsSoundly(c)
  BY <1>2, <1>3, <1>5 DEF CommitsSoundly
<1> QED BY <1>1, <1>4, <1>5, <1>6, DoneStands

\* A failed check writes "failed" over what the request has approved; what it
\* had loaded failed, it leaves as it has become.
LEMMA FailureStands ==
    ASSUME Inv, Standing, NEW c \in Sessions, CheckFails(c) \/ ClaimBlocked(c)
    PROVE  Stands(c)
<1>1. View(c) \in Rows /\ seen[c] \in Rows
  BY ViewType DEF Inv, TypeOK
<1>2. LoadedSound(c) /\ HolderSound(c) /\ row.status # "approved" /\ pc[c] = "ready"
  BY DEF Standing, CheckFails, ClaimBlocked
<1>3. CASE CheckFails(c)
  <2>1. MarkFailed(c, seen[c])
    BY <1>3 DEF CheckFails
  <2>2. /\ row'.status = IF seen[c].status = "failed" THEN View(c).status ELSE "failed"
        /\ Done(c) /\ lock' # c /\ \E new : Save(c, new)
    BY <1>1, <2>1, MarkFailedStatus
  <2>3. CommitsSoundly(c)
    BY <1>2, <2>2 DEF LoadedSound, HolderSound, View, CommitsSoundly
  <2> QED BY <2>2, <2>3, DoneStands
<1>4. CASE ClaimBlocked(c)
  <2>1. MarkFailed(c, View(c)) /\ View(c).status # "completed"
    BY <1>4 DEF ClaimBlocked
  <2>2. /\ row'.status = "failed"
        /\ Done(c) /\ lock' # c /\ \E new : Save(c, new)
    BY <1>1, <2>1, MarkFailedStatus
  <2>3. CommitsSoundly(c)
    BY <1>2, <2>1, <2>2 DEF HolderSound, View, CommitsSoundly
  <2> QED BY <2>2, <2>3, DoneStands
<1> QED BY <1>3, <1>4

\* What else ends a transaction.
LEMMA EndingStands ==
    ASSUME Inv, Standing, NEW s \in Sessions,
           \/ Record(s) \/ Resolve(s) \/ RecoverLegacy(s) \/ AbandonClaim(s)
           \/ EndCycle(s) \/ ClaimFinished(s) \/ Conflict(s) \/ Crash(s)
    PROVE  Stands(s)
<1>a. /\ row \in Rows /\ draft \in Rows /\ seen \in [Sessions -> Rows] /\ s # Nobody
      /\ HolderSound(s) /\ row.status # "approved"
  BY NamesAssumption DEF Inv, TypeOK, NamesAssumption, Standing
<1>1. CASE Record(s)
  <2>1. lock = s /\ out[s] \in {"confirmed", "refused", "ambiguous"}
    BY <1>1 DEF Record, Inv, Owning, Mutating, Honest, HonestOut
  <2>2. Outcome(draft, s).status \in {"completed", "failed"}
    BY <1>a, <2>1 DEF Outcome, Rows
  <2>3. Save(s, Outcome(draft, s)) /\ Done(s)
    BY <1>1 DEF Record
  <2>4. lock' # s /\ CommitsSoundly(s)
    BY <1>a, <2>1, <2>2, <2>3 DEF Save, HolderSound, CommitsSoundly
  <2> QED BY <2>3, <2>4, DoneStands
<1>2. CASE Resolve(s)
  <2>1. PICK verdict \in Verdicts(out[s]) : Save(s, Resolved(row, verdict))
    BY <1>2 DEF Resolve
  <2>2. row.status = "failed" /\ Done(s)
    BY <1>2 DEF Resolve
  <2>3. Resolved(row, verdict).status \in {"completed", "failed"}
    BY <1>a, <2>2 DEF Resolved, StillUnknown, Confirmed, NotApplied, Rows
  <2>4. lock' # s /\ CommitsSoundly(s)
    BY <1>a, <2>1, <2>2, <2>3 DEF Save, CommitsSoundly
  <2> QED BY <2>1, <2>2, <2>4, DoneStands
<1>3. CASE RecoverLegacy(s)
  <2>1. PICK recon \in {seen[s].recon, "UNKNOWN"} :
            Save(s, [row EXCEPT !.status = "failed", !.recon = recon])
    BY <1>3 DEF RecoverLegacy
  <2>2. row.status = "executing" /\ Done(s)
    BY <1>3 DEF RecoverLegacy
  <2>3. [row EXCEPT !.status = "failed", !.recon = recon].status = "failed"
    BY <1>a DEF Rows
  <2>4. lock' # s /\ CommitsSoundly(s)
    BY <1>a, <2>1, <2>2, <2>3 DEF Save, CommitsSoundly
  <2> QED BY <2>1, <2>2, <2>4, DoneStands
<1>4. CASE AbandonClaim(s)
  <2>1. lock = s /\ Mutating(s) /\ Save(s, draft) /\ Done(s)
    BY <1>4 DEF AbandonClaim, Inv, Owning, Mutating
  <2>2. lock' # s /\ CommitsSoundly(s)
    BY <1>a, <2>1 DEF Save, HolderSound, CommitsSoundly
  <2> QED BY <2>1, <2>2, DoneStands
<1>5. CASE EndCycle(s)
  <2>1. /\ Done(s)
        /\ \/ lock = s /\ Save(s, draft) /\ draft.status \in {"failed", "completed"}
           \/ lock # s /\ UNCHANGED db
    BY <1>5, <1>a DEF EndCycle, HolderSound
  <2>2. lock' # s /\ CommitsSoundly(s)
    BY <1>a, <2>1 DEF Save, HolderSound, CommitsSoundly, db
  <2> QED BY <2>1, <2>2, DoneStands
<1>6. CASE ClaimFinished(s) \/ Conflict(s)
  <2>1. lock = Nobody /\ Done(s) /\ UNCHANGED db
    BY <1>6 DEF ClaimFinished, Conflict
  <2>2. lock' # s /\ CommitsSoundly(s)
    BY <1>a, <2>1 DEF CommitsSoundly, db
  <2> QED BY <2>1, <2>2, DoneStands
<1>7. CASE Crash(s)
  <2>1. Done(s) /\ Discard(s)
    BY <1>7 DEF Crash
  <2>2. lock' # s /\ CommitsSoundly(s)
    BY <1>a, <2>1 DEF CommitsSoundly, Discard
  <2> QED BY <2>1, <2>2, DoneStands
<1> QED BY <1>1, <1>2, <1>3, <1>4, <1>5, <1>6, <1>7
\* A request that goes on: it has loaded the action, approved it, claimed it or
\* called the provider.
LEMMA RequestStands ==
    ASSUME Inv, Standing, NoLateDecision, NEW c \in Callers,
           (\E o \in Ops : Load(c, o)) \/ Approve(c) \/ Claim(c) \/ Call(c)
    PROVE  Stands(c)
<1> DEFINE rest == \A d \in Sessions \ {c} : /\ pc'[d] = pc[d] /\ op'[d] = op[d]
                                             /\ seen'[d] = seen[d] /\ out'[d] = out[d]
<1>a. /\ c \in Sessions /\ c # Nobody /\ row \in Rows /\ draft \in Rows
      /\ seen \in [Sessions -> Rows]
      /\ pc[c] = "idle" => lock # c
      /\ LoadedSound(c) /\ HolderSound(c) /\ row.status # "approved"
  BY NamesAssumption DEF Inv, TypeOK, NamesAssumption, Standing, Sessions
<1>b. ASSUME (\E new : Save(c, new) \/ Hold(c, new)) \/ UNCHANGED db, rest
      PROVE  OthersRest(c)
  BY <1>a, <1>b, StoreIsOnes DEF OthersRest
<1>1. CASE \E o \in Ops : Load(c, o)
  <2>1. PICK o \in Ops : Load(c, o)
    BY <1>1
  <2>2. /\ pc[c] = "idle" /\ Admits(o, row) /\ UNCHANGED db
        /\ pc'[c] = IF o = "execute" THEN "ready" ELSE "loaded"
        /\ seen'[c] = row
        /\ rest
    BY <1>a, <2>1 DEF Load, Goto, Inv, TypeOK
  <2>3. o = "execute" => row.status = "failed"
    BY <1>a, <2>2 DEF Admits
  <2>4. OthersRest(c)
    BY <1>b, <2>2
  <2>5. row' = row /\ lock' = lock /\ lock # c
    BY <1>a, <2>2 DEF db
  <2>6. LoadedSound(c)' /\ HolderSound(c)'
    BY <1>a, <2>2, <2>3, <2>5 DEF LoadedSound, HolderSound
  <2> QED BY <1>a, <2>4, <2>5, <2>6 DEF Stands, CommitsSoundly
<1>2. CASE Approve(c)
  <2> DEFINE approved == [seen[c] EXCEPT !.status = "approved"]
             new      == Flush(row, seen[c], approved)
  <2>1. seen[c].status # "approved" /\ row.status # "completed" /\ seen[c] \in Rows
    <3>1. pc[c] = "loaded" /\ op[c] = "approve"
      BY <1>2 DEF Approve
    <3> HIDE DEF new, approved
    <3>2. seen[c].status # "approved" /\ seen[c] \in Rows
      BY <1>a, <3>1 DEF LoadedSound
    <3>3. row.status # "completed"
      BY <3>1 DEF NoLateDecision, Deciding
    <3> QED BY <3>2, <3>3
  <2>2. approved \in Rows /\ approved.status = "approved"
    <3>1. "approved" \in Statuses
      BY DEF Statuses
    <3> QED BY <2>1, <3>1 DEF Rows
  <2>3. new.status = "approved"
    <3> HIDE DEF approved
    <3> QED BY <1>a, <2>1, <2>2, FlushedStatus
  <2>4. /\ Hold(c, new) /\ pc'[c] = "ready" /\ seen'[c] = approved
        /\ rest
    BY <1>2, <1>a DEF Approve, Goto, Inv, TypeOK
  <2> HIDE DEF new, approved
  <2>5. OthersRest(c)
    BY <1>b, <2>4
  <2>6. lock' = c /\ draft' = new /\ row' = row
    BY <2>4 DEF Hold
  <2> QED BY <1>a, <2>1, <2>2, <2>3, <2>4, <2>5, <2>6
          DEF Stands, CommitsSoundly, LoadedSound, HolderSound, Mutating
<1>3. CASE Claim(c)
  <2> DEFINE new == [View(c) EXCEPT !.status = "executing", !.executing_at = 0]
  <2>1. View(c).status # "completed" /\ pc[c] = "ready"
    BY <1>3 DEF Claim, Claimable
  <2>2. row.status # "completed"
    BY <1>a, <2>1 DEF View, HolderSound
  <2>3. new.status = "executing"
    BY <1>a, ViewType DEF Rows
  <2>4. /\ Hold(c, new) /\ pc'[c] = "calling"
        /\ rest
    BY <1>3, <1>a DEF Claim, Goto, Inv, TypeOK
  <2> HIDE DEF new
  <2>5. OthersRest(c)
    BY <1>b, <2>4
  <2>6. lock' = c /\ draft' = new /\ row' = row
    BY <2>4 DEF Hold
  <2> QED BY <1>a, <2>2, <2>3, <2>4, <2>5, <2>6
          DEF Stands, CommitsSoundly, LoadedSound, HolderSound
<1>4. CASE Call(c)
  <2>1. lock = c /\ Mutating(c)
    BY <1>4, <1>a DEF Call, Inv, Owning, Mutating
  <2>2. /\ UNCHANGED db /\ pc'[c] = "called"
        /\ rest
    BY <1>4, <1>a DEF Call, Goto, Inv, TypeOK
  <2>3. OthersRest(c)
    BY <1>b, <2>2
  <2> QED BY <1>a, <2>1, <2>2, <2>3 DEF Stands, CommitsSoundly, LoadedSound, HolderSound, db
<1> QED BY <1>1, <1>2, <1>3, <1>4

\* A worker that goes on with its cycle.
LEMMA CycleStands ==
    ASSUME Inv, Standing, NEW w \in Sessions,
           Reap(w) \/ TakeJob(w) \/ ReadProvider(w) \/ ReadRaises(w) \/ Apply(w)
    PROVE  Stands(w)
<1>a. /\ w # Nobody /\ row \in Rows /\ draft \in Rows
      /\ pc[w] = "idle" => lock # w
      /\ LoadedSound(w) /\ HolderSound(w) /\ row.status # "approved"
  BY NamesAssumption DEF Inv, TypeOK, NamesAssumption, Standing
<1>b. /\ pc'[w] \in {"cycle", "reading", "applying"}
      /\ \A d \in Sessions \ {w} : pc'[d] = pc[d] /\ op'[d] = op[d] /\ seen'[d] = seen[d] /\ out'[d] = out[d]
  BY DEF Reap, TakeJob, ReadProvider, ReadRaises, Apply, Goto, Inv, TypeOK
<1>1. ASSUME NEW new, Hold(w, new), row.status \notin {"completed", "approved"},
             new.status \in {"failed", "completed"}
      PROVE  Stands(w)
  <2>1. OthersRest(w)
    BY <1>b, <1>1, StoreIsOnes DEF OthersRest
  <2>2. lock' = w /\ draft' = new /\ row' = row
    BY <1>1 DEF Hold
  <2> QED BY <1>b, <1>1, <2>1, <2>2
          DEF Stands, CommitsSoundly, LoadedSound, HolderSound, Mutating
<1>2. ASSUME UNCHANGED db, pc[w] \in {"idle", "cycle", "reading", "applying"} PROVE Stands(w)
  <2>1. OthersRest(w)
    BY <1>b, <1>2, StoreIsOnes DEF OthersRest
  <2>2. row' = row /\ lock' = lock /\ draft' = draft
    BY <1>2 DEF db
  <2>3. LoadedSound(w)' /\ HolderSound(w)'
    BY <1>a, <1>b, <1>2, <2>2 DEF LoadedSound, HolderSound, Mutating
  <2> QED BY <1>a, <2>1, <2>2, <2>3 DEF Stands, CommitsSoundly
<1>3. CASE Reap(w)
  <2> DEFINE new == [row EXCEPT !.status = "failed", !.executing_at = Null, !.retry_count = Bump(@)]
  <2>1. Hold(w, new) /\ row.status = "executing"
    BY <1>3 DEF Reap, Stale
  <2>2. new.status = "failed"
    BY <1>a DEF Rows
  <2> HIDE DEF new
  <2> QED BY <1>1, <2>1, <2>2
<1>4. CASE TakeJob(w) \/ ReadProvider(w) \/ ReadRaises(w)
  BY <1>2, <1>4 DEF TakeJob, ReadProvider, ReadRaises
<1>5. CASE Apply(w)
  <2>1. CASE View(w).status = "failed" /\ Hold(w, Reconciled(View(w), out[w]))
    <3>1. row.status # "completed"
      BY <1>a, <2>1 DEF View, HolderSound
    <3>2. Reconciled(View(w), out[w]).status \in {"failed", "completed"}
      BY <2>1, ViewType DEF Reconciled, StillUnknown, Confirmed, NotApplied, Rows
    <3> QED BY <1>a, <1>1, <2>1, <3>1, <3>2
  <2>2. CASE UNCHANGED db
    BY <1>2, <1>5, <2>2 DEF Apply
  <2> QED BY <1>5, <2>1, <2>2 DEF Apply
<1> QED BY <1>3, <1>4, <1>5

\* Time leaves every status alone.
LEMMA TickStands ==
    ASSUME Inv, Standing, Tick
    PROVE  Standing' /\ row'.status = row.status
<1>1. \A r \in Rows : Older(r).status = r.status
  BY DEF Older, Rows
<1>2. /\ row'.status = row.status /\ draft'.status = draft.status
      /\ UNCHANGED <<lock, pc, op, seen, out>>
  BY <1>1 DEF Tick, Inv, TypeOK
<1> QED BY <1>2 DEF Standing, LoadedSound, HolderSound, Mutating

\* Every step of a session is sound for it and leaves the others alone.
LEMMA SessionStands ==
    ASSUME Inv, Standing, NoLateDecision, Next, ~ Tick
    PROVE  \E s \in Sessions :
              /\ Stands(s)
              /\ \/ s \in Callers /\ (CallerStep(s) \/ CallerChoice(s))
                 \/ s \in Workers /\ (WorkerStep(s) \/ CrashCycle(s))
<1>a. Callers \subseteq Sessions /\ Workers \subseteq Sessions
  BY DEF Sessions
<1>1. ASSUME NEW c \in Callers, CallerStep(c) \/ CallerChoice(c) PROVE Stands(c)
  BY <1>1, <1>a, DecideStands, FailureStands, EndingStands, RequestStands DEF CallerStep, CallerChoice
<1>2. ASSUME NEW w \in Workers, WorkerStep(w) \/ CrashCycle(w) PROVE Stands(w)
  BY <1>2, <1>a, EndingStands, CycleStands DEF WorkerStep, CrashCycle
<1> QED BY <1>a, <1>1, <1>2 DEF Next

\* What a commit may never do, and what every session is about to do, stay so.
LEMMA StandingStep ==
    ASSUME Inv, Standing, NoLateDecision, [Next]_vars
    PROVE  Standing' /\ (row.status = "completed" => row'.status = "completed")
<1>1. CASE UNCHANGED vars
  BY <1>1 DEF vars, Standing, LoadedSound, HolderSound, Mutating
<1>2. CASE Tick
  BY <1>2, TickStands
<1>3. CASE Next /\ ~ Tick
  BY <1>3, SessionStands, StandingKept DEF Stands, CommitsSoundly
<1> QED BY <1>1, <1>2, <1>3

\* It stands initially.
LEMMA InitStanding == Init => Standing
<1> SUFFICES ASSUME Init PROVE Standing
  OBVIOUS
<1>1. PICK status \in InitialStatus : row = NewRow(status)
  BY DEF Init
<1>2. row.status # "approved"
  BY <1>1, NamesAssumption DEF NewRow, NamesAssumption
<1>3. \A s \in Sessions : pc[s] = "idle" /\ lock # s
  BY NamesAssumption DEF Init, NamesAssumption
<1> QED BY <1>2, <1>3 DEF Standing, LoadedSound, HolderSound

\* A completed action stays completed, unless a decision was still open when it
\* completed.
THEOREM CompletionStands == Spec /\ []NoLateDecision => CompletedIsFinal
<1>1. Inv /\ Standing /\ NoLateDecision /\ [Next]_vars => Standing'
  BY StandingStep
<1>2. Inv /\ Standing /\ NoLateDecision /\ [Next]_vars
        => [row.status = "completed" => row'.status = "completed"]_vars
  BY StandingStep
<1> QED BY <1>1, <1>2, Invariance, InitStanding, PTL DEF Spec, CompletedIsFinal

\* The mutation may have taken effect, and a session is about to record that,
\* or a doubt about it.
Unrecorded == \E s \in Sessions : pc[s] = "called" /\ out[s] # "refused"

Explained == crashes + orphans + doubts + misreads

\* Every effect but one has been explained; that one is on record, or about to
\* be.
Accounts ==
    applied <= Explained + (IF row.status = "completed" \/ Unrecorded THEN 1 ELSE 0)

\* The counters are numbers, two of them up to Cap.
LEMMA CountersType ==
    ASSUME Inv
    PROVE  /\ applied \in Nat /\ crashes \in Nat /\ orphans \in Nat /\ doubts \in Nat /\ misreads \in Nat
           /\ Cap \in Nat /\ applied <= Cap /\ doubts <= Cap
BY SizesAssumption DEF Inv, TypeOK, SizesAssumption

\* Before a call nothing is unrecorded, and after it this session's only.
LEMMA OneUnrecorded ==
    ASSUME Inv, NEW s \in Sessions, lock = s, Unrecorded
    PROVE  pc[s] = "called" /\ out[s] # "refused"
BY DEF Inv, Owning, Mutating, Unrecorded

\* Every step but a call and the end of one.
LEMMA OtherStepsAccount ==
    ASSUME Inv, Accounts, NEW s \in Sessions, Stands(s), UNCHANGED counted, pc[s] # "called"
    PROVE  Accounts'
<1>1. Unrecorded => Unrecorded'
  BY DEF Unrecorded, Stands, OthersRest
<1>2. Explained' = Explained /\ applied' = applied
  BY DEF Explained, counted
<1>3. row.status = "completed" => row'.status = "completed"
  BY DEF Stands, CommitsSoundly
<1> QED BY <1>1, <1>2, <1>3, CountersType DEF Accounts, Explained

\* A call takes effect once at most, and a refusal that did is a misread one.
LEMMA CallAccounts ==
    ASSUME Inv, Standing, Accounts, NEW s \in Sessions, Call(s)
    PROVE  Accounts'
<1>1. PICK answer \in {"confirmed", "refused", "ambiguous"}, took \in BOOLEAN :
         /\ answer = "confirmed" => took
         /\ misreads' = misreads + (IF answer = "refused" /\ took THEN 1 ELSE 0)
         /\ out' = [out EXCEPT ![s] = answer]
         /\ applied' = IF took THEN Bump(applied) ELSE applied
  BY DEF Call
<1>2. pc[s] = "calling" /\ lock = s /\ pc'[s] = "called" /\ out'[s] = answer
  BY <1>1 DEF Call, Goto, Inv, TypeOK, Owning, Mutating
<1>3. row.status # "completed" /\ ~ Unrecorded
  BY <1>2, OneUnrecorded DEF Standing, HolderSound
<1>4. applied <= Explained
  BY <1>3, CountersType DEF Accounts, Explained
<1>5. applied' <= applied + 1 /\ (~ took => applied' = applied)
  BY <1>1, CountersType DEF Bump
<1>6. Explained' = Explained + (IF answer = "refused" /\ took THEN 1 ELSE 0)
  BY <1>1, CountersType DEF Call, Explained
<1>7. answer # "refused" => Unrecorded'
  BY <1>2 DEF Unrecorded
<1>8. applied' \in Nat /\ Explained \in Nat /\ Explained' \in Nat
  BY <1>1, <1>6, CountersType DEF Bump, Explained
<1> QED BY <1>4, <1>5, <1>6, <1>7, <1>8, CountersType DEF Accounts

\* What was unrecorded is put on record, as a completion or as a doubt.
LEMMA RecordAccounts ==
    ASSUME Inv, Standing, Accounts, NEW s \in Sessions, Record(s)
    PROVE  Accounts'
<1>1. /\ lock = s /\ pc[s] = "called" /\ out[s] \in {"confirmed", "refused", "ambiguous"}
      /\ draft \in Rows
  BY DEF Record, Inv, TypeOK, Owning, Mutating, Honest, HonestOut
<1>2. row.status # "completed"
  BY <1>1 DEF Standing, HolderSound
<1>3. /\ row' = Outcome(draft, s) /\ applied' = applied
      /\ UNCHANGED <<crashes, orphans, misreads>>
      /\ doubts' = IF out[s] = "ambiguous" THEN Bump(doubts) ELSE doubts
  BY DEF Record, Save
<1>4. CASE out[s] = "confirmed"
  <2>1. row'.status = "completed"
    BY <1>1, <1>3, <1>4 DEF Outcome, Rows
  <2>2. Explained' = Explained
    BY <1>3, <1>4 DEF Explained
  <2> QED BY <1>3, <2>1, <2>2, CountersType DEF Accounts, Explained
<1>5. CASE out[s] = "refused"
  <2>1. ~ Unrecorded
    BY <1>1, <1>5, OneUnrecorded
  <2>2. Explained' = Explained
    BY <1>3, <1>5 DEF Explained
  <2> QED BY <1>2, <1>3, <2>1, <2>2, CountersType DEF Accounts, Explained
<1>6. CASE out[s] = "ambiguous"
  <2>1. doubts' = IF doubts < Cap THEN doubts + 1 ELSE doubts
    BY <1>3, <1>6 DEF Bump
  <2>2. CASE doubts < Cap
    <3>1. Explained' = Explained + 1
      BY <1>3, <2>1, <2>2, CountersType DEF Explained
    <3> QED BY <1>3, <3>1, CountersType DEF Accounts, Explained
  <2>3. CASE ~ (doubts < Cap)
    <3>1. Explained' = Explained /\ Explained >= Cap /\ Explained \in Nat
      BY <1>3, <2>1, <2>3, CountersType DEF Explained
    <3> QED BY <1>3, <3>1, CountersType DEF Accounts
  <2> QED BY <2>2, <2>3
<1> QED BY <1>1, <1>4, <1>5, <1>6

\* Every step keeps the accounts.
LEMMA AccountsStep ==
    ASSUME Inv, Standing, NoLateDecision, Accounts, [Next]_vars
    PROVE  Accounts'
<1>1. CASE UNCHANGED vars
  BY <1>1 DEF vars, Accounts, Unrecorded, Explained
<1>2. CASE Tick
  <2>1. row'.status = row.status
    BY <1>2, TickStands
  <2> QED BY <1>2, <2>1 DEF Tick, Accounts, Unrecorded, Explained, counted
<1>3. CASE Next /\ ~ Tick
  <2>1. PICK s \in Sessions :
           /\ Stands(s)
           /\ \/ s \in Callers /\ (CallerStep(s) \/ CallerChoice(s))
              \/ s \in Workers /\ (WorkerStep(s) \/ CrashCycle(s))
    BY <1>3, SessionStands
  <2>2. CASE Call(s)
    BY <2>2, CallAccounts
  <2>3. CASE Record(s)
    BY <2>3, RecordAccounts
  <2>4. CASE Crash(s) \/ AbandonClaim(s)
    <3>1. Explained' = Explained + 1 /\ applied' = applied
      BY <2>4, CountersType DEF Crash, AbandonClaim, Explained
    <3>2. Explained \in Nat
      BY CountersType DEF Explained
    <3> QED BY <3>1, <3>2, CountersType DEF Accounts
  <2>5. CASE ~ (Call(s) \/ Record(s) \/ Crash(s) \/ AbandonClaim(s))
    <3>1. UNCHANGED counted /\ pc[s] # "called"
      <4>1. CASE CallerStep(s)
        BY <2>5, <4>1 DEF CallerStep, Decide, Approve, Claim, ClaimFinished, ClaimBlocked,
                          MarkFailed, Resolve, RecoverLegacy, Conflict
      <4>2. CASE CallerChoice(s)
        BY <2>5, <4>2 DEF CallerChoice, Load, CheckFails, MarkFailed
      <4>3. CASE WorkerStep(s) \/ CrashCycle(s)
        BY <2>5, <4>3 DEF WorkerStep, CrashCycle, Reap, TakeJob, ReadProvider, ReadRaises, Apply, EndCycle
      <4> QED BY <2>1, <4>1, <4>2, <4>3
    <3> QED BY <2>1, <3>1, OtherStepsAccount
  <2> QED BY <2>2, <2>3, <2>4, <2>5
<1> QED BY <1>1, <1>2, <1>3

\* Nothing has happened yet.
LEMMA InitAccounts == Init => Accounts
<1> SUFFICES ASSUME Init PROVE Accounts
  OBVIOUS
<1>1. \A s \in Sessions : pc[s] = "idle"
  BY DEF Init
<1> QED BY <1>1 DEF Init, Accounts, Explained, Unrecorded

\* The mutation takes effect once, and once more for every lost transaction,
\* abandoned claim, doubtful outcome and success taken for a refusal, unless a
\* decision was still open when the action completed.
THEOREM EffectsAreExplained == Spec /\ []NoLateDecision => []EffectsAccounted
<1>1. Inv /\ Standing /\ NoLateDecision /\ Accounts /\ [Next]_vars => Standing' /\ Accounts'
  BY StandingStep, AccountsStep
<1>2. Inv /\ Accounts => EffectsAccounted
  <2> SUFFICES ASSUME Inv, Accounts PROVE EffectsAccounted
    OBVIOUS
  <2>1. Explained \in Nat
    BY CountersType DEF Explained
  <2>2. applied <= Explained + 1
    BY <2>1, CountersType DEF Accounts
  <2> QED BY <2>2, CountersType DEF EffectsAccounted, Explained
<1> QED BY <1>1, <1>2, Invariance, InitStanding, InitAccounts, PTL DEF Spec

-----------------------------------------------------------------------------
(* When that is certain: nobody approves, or one request approves a new    *)
(* action and nobody rejects or cancels it.                                *)

DecidedOnce ==
    \/ Budget["approve"] = 0
    \/ /\ InitialStatus \subseteq {"pending"} /\ Budget["approve"] = 1
       /\ Budget["reject"] = 0 /\ Budget["cancel"] = 0

NobodyDecides == \A s \in Sessions : ~ Deciding(s)

\* The action waits for a decision, or has been turned down, and all that goes
\* on are decisions.
Undecided ==
    /\ row.status \in {"pending", "rejected", "cancelled"}
    /\ lock = Nobody /\ job = NoJob
    /\ \A s \in Sessions : pc[s] # "idle" => Deciding(s)

\* Without an approval, either that is so, or the action can never again be
\* decided on.
Unapproved ==
    /\ left["approve"] = 0 /\ \A s \in Sessions : Deciding(s) => op[s] # "approve"
    /\ Undecided \/ (NobodyDecides /\ row.status \in {"failed", "executing", "completed"})

\* With one approval, it is the first that happens, and the only decision.
OneApproval ==
    /\ left["reject"] = 0 /\ left["cancel"] = 0 /\ left["approve"] \in {0, 1}
    /\ \A s \in Sessions : Deciding(s) => op[s] = "approve"
    /\ \A s, t \in Sessions : Deciding(s) /\ Deciding(t) => s = t
    /\ left["approve"] = 1 => NobodyDecides
    /\ Undecided \/ (NobodyDecides /\ left["approve"] = 0)

\* While the action is undecided, requests load it to decide, decide, or fail.
LEMMA UndecidedStep ==
    ASSUME Inv, Undecided, NEW s \in Sessions,
           \/ s \in Callers /\ (CallerStep(s) \/ CallerChoice(s))
           \/ s \in Workers /\ (WorkerStep(s) \/ CrashCycle(s))
    PROVE  \/ \E o \in {"approve", "reject", "cancel"} : Load(s, o)
           \/ Deciding(s) /\ (Decide(s) \/ Approve(s) \/ Crash(s))
<1>1. pc[s] # "idle" => pc[s] = "loaded" /\ op[s] \in {"approve", "reject", "cancel"}
  BY DEF Undecided, Deciding
<1>2. CASE CallerStep(s)
  BY <1>1, <1>2 DEF CallerStep, Deciding, Decide, Approve, Claim, ClaimFinished, ClaimBlocked, Call, Record,
                    Resolve, RecoverLegacy, Conflict
<1>3. CASE CallerChoice(s)
  <2>1. CASE \E o \in Ops : Load(s, o)
    <3>1. PICK o \in Ops : Load(s, o)
      BY <2>1
    <3>2. Admits(o, row) /\ row.status \in {"pending", "rejected", "cancelled"}
      BY <3>1 DEF Load, Undecided
    <3>3. o \in {"approve", "reject", "cancel"}
      BY <3>2 DEF Admits
    <3> QED BY <3>1, <3>3
  <2>2. CASE CheckFails(s) \/ Crash(s) \/ AbandonClaim(s)
    BY <1>1, <2>2 DEF CheckFails, Crash, AbandonClaim, Deciding
  <2> QED BY <1>3, <2>1, <2>2 DEF CallerChoice
<1>4. CASE WorkerStep(s)
  BY <1>1, <1>4 DEF WorkerStep, Reap, Stale, TakeJob, ReadProvider, ReadRaises, Apply, EndCycle, NoJob, Undecided
<1>5. CASE CrashCycle(s)
  BY <1>1, <1>5 DEF CrashCycle, Crash, Deciding
<1> QED BY <1>2, <1>3, <1>4, <1>5

\* A session comes to decide only by loading the action for it.
LEMMA DecidersLoad ==
    ASSUME Inv, NEW s \in Sessions,
           \/ s \in Callers /\ (CallerStep(s) \/ CallerChoice(s))
           \/ s \in Workers /\ (WorkerStep(s) \/ CrashCycle(s)),
           Deciding(s)'
    PROVE  \E o \in {"approve", "reject", "cancel"} : Load(s, o)
<1>a. pc \in [Sessions -> {"idle", "loaded", "ready", "calling", "called", "cycle", "reading", "applying"}]
      /\ op \in [Sessions -> Ops \cup {"none", "reconcile"}]
  BY DEF Inv, TypeOK
<1>b. pc'[s] = "loaded" /\ op'[s] \in {"approve", "reject", "cancel"}
  BY DEF Deciding
<1>1. ~ Done(s)
  BY <1>a, <1>b DEF Done
<1>2. ~ (CallerStep(s) \/ WorkerStep(s) \/ CrashCycle(s) \/ CheckFails(s) \/ AbandonClaim(s) \/ Crash(s))
  BY <1>a, <1>b, <1>1
     DEF CallerStep, WorkerStep, CrashCycle, CheckFails, AbandonClaim, Crash, Decide, Approve, Claim,
         ClaimFinished, ClaimBlocked, MarkFailed, Call, Record, Resolve, RecoverLegacy, Conflict,
         Reap, TakeJob, ReadProvider, ReadRaises, Apply, EndCycle, Goto
<1>3. PICK o \in Ops : Load(s, o)
  BY <1>2 DEF CallerChoice
<1>4. op'[s] = o
  BY <1>3, <1>a DEF Load
<1> QED BY <1>b, <1>3, <1>4

\* Such a step leaves the action undecided, unless it is the approval.
LEMMA DecidingSteps ==
    ASSUME Inv, Undecided, NEW s \in Sessions, Stands(s),
           \/ \E o \in {"approve", "reject", "cancel"} : Load(s, o)
           \/ Deciding(s) /\ (Decide(s) \/ Crash(s))
    PROVE  Undecided'
<1>a. /\ row \in Rows /\ seen[s] \in Rows /\ s # Nobody
      /\ \A d \in Sessions \ {s} : pc'[d] = pc[d] /\ op'[d] = op[d]
  BY NamesAssumption DEF Inv, TypeOK, NamesAssumption, Stands, OthersRest
<1>1. ASSUME pc'[s] # "idle" => Deciding(s)' PROVE \A d \in Sessions : pc'[d] # "idle" => Deciding(d)'
  BY <1>a, <1>1 DEF Undecided, Deciding
<1>2. CASE \E o \in {"approve", "reject", "cancel"} : Load(s, o)
  <2>1. PICK o \in {"approve", "reject", "cancel"} : Load(s, o)
    BY <1>2
  <2>2. pc'[s] = "loaded" /\ op'[s] = o /\ UNCHANGED <<db, job>>
    BY <2>1 DEF Load, Goto, Inv, TypeOK
  <2> QED BY <2>2, <1>1 DEF Undecided, Deciding, db
<1>3. CASE Decide(s)
  <2> DEFINE verdict == IF op[s] = "reject" THEN "rejected" ELSE "cancelled"
             decided == [seen[s] EXCEPT !.status = verdict]
             new     == Flush(row, seen[s], decided)
  <2>1. Save(s, new) /\ Done(s) /\ job' = job
    BY <1>3 DEF Decide
  <2>2. new.status \in {row.status, "rejected", "cancelled"}
    <3>1. verdict \in Statuses /\ verdict \in {"rejected", "cancelled"}
      BY DEF Statuses
    <3>2. decided \in Rows /\ decided.status = verdict
      <4> HIDE DEF verdict
      <4> QED BY <1>a, <3>1 DEF Rows
    <3> HIDE DEF decided, verdict
    <3> QED BY <1>a, <3>1, <3>2, FlushedStatus
  <2> HIDE DEF new
  <2>3. pc'[s] = "idle"
    BY <2>1 DEF Done, Inv, TypeOK
  <2> QED BY <1>1, <2>1, <2>2, <2>3 DEF Undecided, Save
<1>4. CASE Crash(s)
  <2>1. pc'[s] = "idle" /\ job' = job /\ Discard(s)
    BY <1>4 DEF Crash, Done, Inv, TypeOK
  <2> QED BY <1>a, <1>1, <2>1 DEF Undecided, Discard
<1> QED BY <1>2, <1>3, <1>4

\* Only a load spends a request.
LEMMA LeftStep ==
    ASSUME Inv, NEW s \in Sessions,
           \/ s \in Callers /\ (CallerStep(s) \/ CallerChoice(s))
           \/ s \in Workers /\ (WorkerStep(s) \/ CrashCycle(s))
    PROVE  /\ left' \in [Ops -> Nat]
           /\ \A o \in Ops : left'[o] = left[o] \/ Load(s, o)
           /\ \A o \in Ops : Load(s, o) => /\ left[o] > 0 /\ left'[o] = left[o] - 1
                                           /\ op'[s] = o /\ Admits(o, row)
<1>a. left \in [Ops -> Nat] /\ op \in [Sessions -> Ops \cup {"none", "reconcile"}]
  BY DEF Inv, TypeOK
<1>1. ASSUME NEW o \in Ops, Load(s, o)
      PROVE  /\ left[o] > 0 /\ left' = [left EXCEPT ![o] = left[o] - 1]
             /\ op'[s] = o /\ Admits(o, row)
  BY <1>a, <1>1 DEF Load
<1>2. left' = left \/ \E o \in Ops : Load(s, o)
  BY DEF CallerStep, CallerChoice, WorkerStep, CrashCycle, CheckFails, AbandonClaim, Crash, Decide, Approve,
         Claim, ClaimFinished, ClaimBlocked, MarkFailed, Call, Record, Resolve, RecoverLegacy, Conflict,
         Reap, TakeJob, ReadProvider, ReadRaises, Apply, EndCycle
<1> QED BY <1>a, <1>1, <1>2

\* Without an approval left, the action stays undecided or beyond decisions.
LEMMA UnapprovedStep ==
    ASSUME Inv, Standing, NoLateDecision, Unapproved, [Next]_vars
    PROVE  Unapproved'
<1>1. CASE UNCHANGED vars
  BY <1>1 DEF vars, Unapproved, Undecided, NobodyDecides, Deciding
<1>2. CASE Tick
  <2>1. row'.status = row.status /\ UNCHANGED <<lock, job, pc, op, left>>
    BY <1>2, TickStands DEF Tick
  <2> QED BY <2>1 DEF Unapproved, Undecided, NobodyDecides, Deciding
<1>3. CASE Next /\ ~ Tick
  <2>1. PICK s \in Sessions :
           /\ Stands(s)
           /\ \/ s \in Callers /\ (CallerStep(s) \/ CallerChoice(s))
              \/ s \in Workers /\ (WorkerStep(s) \/ CrashCycle(s))
    BY <1>3, SessionStands
  <2>2. "approve" \in Ops /\ left["approve"] = 0 /\ row.status # "approved"
    BY DEF Ops, Unapproved, Standing
  <2>3. left'["approve"] = 0 /\ ~ Load(s, "approve")
    BY <2>1, <2>2, LeftStep
  <2>4. ASSUME NEW d \in Sessions, d # s PROVE pc'[d] = pc[d] /\ op'[d] = op[d]
    BY <2>1, <2>4 DEF Stands, OthersRest
  <2>5. Deciding(s)' => \E o \in {"reject", "cancel"} : Load(s, o)
    BY <2>1, <2>3, DecidersLoad
  <2>6. \A o \in {"reject", "cancel"} : Load(s, o) => op'[s] = o /\ Admits(o, row)
    BY <2>1, LeftStep DEF Ops
  <2>7. \A d \in Sessions : Deciding(d)' => op'[d] # "approve"
    BY <2>4, <2>5, <2>6 DEF Unapproved, Deciding
  <2>8. CASE Undecided
    <3>1. ~ (Deciding(s) /\ Approve(s))
      BY DEF Unapproved, Approve
    <3>2. Undecided'
      BY <2>1, <2>8, <3>1, UndecidedStep, DecidingSteps
    <3> QED BY <2>3, <2>7, <3>2 DEF Unapproved
  <2>9. CASE NobodyDecides /\ row.status \in {"failed", "executing", "completed"}
    <3>1. ~ Deciding(s)'
      BY <2>2, <2>5, <2>6, <2>9 DEF Admits
    <3>2. NobodyDecides'
      BY <2>4, <2>9, <3>1 DEF NobodyDecides, Deciding
    <3>3. row'.status \in {"failed", "executing", "completed"}
      BY <2>1, <2>9 DEF Stands, CommitsSoundly, NobodyDecides
    <3> QED BY <2>3, <2>7, <3>2, <3>3 DEF Unapproved
  <2> QED BY <2>8, <2>9 DEF Unapproved
<1> QED BY <1>1, <1>2, <1>3

\* With one approval and no other decision, it stays the only one.
LEMMA OneApprovalStep ==
    ASSUME Inv, Standing, NoLateDecision, OneApproval, [Next]_vars
    PROVE  OneApproval'
<1>1. CASE UNCHANGED vars
  BY <1>1 DEF vars, OneApproval, Undecided, NobodyDecides, Deciding
<1>2. CASE Tick
  <2>1. row'.status = row.status /\ UNCHANGED <<lock, job, pc, op, left>>
    BY <1>2, TickStands DEF Tick
  <2> QED BY <2>1 DEF OneApproval, Undecided, NobodyDecides, Deciding
<1>3. CASE Next /\ ~ Tick
  <2>1. PICK s \in Sessions :
           /\ Stands(s)
           /\ \/ s \in Callers /\ (CallerStep(s) \/ CallerChoice(s))
              \/ s \in Workers /\ (WorkerStep(s) \/ CrashCycle(s))
    BY <1>3, SessionStands
  <2>2. /\ {"approve", "reject", "cancel"} \subseteq Ops
        /\ left["reject"] = 0 /\ left["cancel"] = 0 /\ left["approve"] \in {0, 1}
    BY DEF Ops, OneApproval
  <2>3. /\ left'["reject"] = 0 /\ left'["cancel"] = 0
        /\ ~ Load(s, "reject") /\ ~ Load(s, "cancel")
    BY <2>1, <2>2, LeftStep
  <2>4. /\ left'["approve"] \in {0, 1} /\ left'["approve"] <= left["approve"]
        /\ Load(s, "approve") => left["approve"] = 1 /\ left'["approve"] = 0 /\ op'[s] = "approve"
    BY <2>1, <2>2, LeftStep
  <2>5. ASSUME NEW d \in Sessions, d # s PROVE pc'[d] = pc[d] /\ op'[d] = op[d]
    BY <2>1, <2>5 DEF Stands, OthersRest
  <2>6. Deciding(s)' => Load(s, "approve")
    BY <2>1, <2>3, DecidersLoad
  <2>7. \A d \in Sessions : Deciding(d)' => op'[d] = "approve"
    BY <2>4, <2>5, <2>6 DEF OneApproval, Deciding
  <2>8. \A d \in Sessions : Deciding(d)' /\ d # s => Deciding(d)
    BY <2>5 DEF Deciding
  <2>9. left["approve"] = 1 => NobodyDecides
    BY DEF OneApproval
  <2>10. \A d, e \in Sessions : Deciding(d)' /\ Deciding(e)' => d = e
    <3>1. CASE Deciding(s)'
      BY <2>4, <2>6, <2>8, <2>9, <3>1 DEF NobodyDecides
    <3>2. CASE ~ Deciding(s)'
      BY <2>8, <3>2 DEF OneApproval
    <3> QED BY <3>1, <3>2
  <2>11. left'["approve"] = 1 => NobodyDecides'
    BY <2>2, <2>4, <2>6, <2>8, <2>9 DEF NobodyDecides
  <2>12. Undecided' \/ (NobodyDecides' /\ left'["approve"] = 0)
    <3>1. CASE Undecided /\ ~ Approve(s)
      <4>1. ~ Decide(s)
        BY DEF OneApproval, Decide, Deciding
      <4> QED BY <2>1, <3>1, <4>1, UndecidedStep, DecidingSteps
    <3>2. CASE Undecided /\ Approve(s)
      <4>1. Deciding(s) /\ pc'[s] = "ready"
        BY <2>1, <3>2 DEF Approve, Deciding, Goto, Inv, TypeOK
      <4>2. left["approve"] = 0
        BY <2>1, <2>2, <2>9, <4>1 DEF NobodyDecides
      <4>3. NobodyDecides'
        BY <2>1, <2>8, <4>1 DEF NobodyDecides, OneApproval, Deciding
      <4> QED BY <2>2, <2>4, <4>2, <4>3
    <3>3. CASE NobodyDecides /\ left["approve"] = 0
      BY <2>2, <2>4, <2>6, <2>8, <3>3 DEF NobodyDecides
    <3> QED BY <3>1, <3>2, <3>3 DEF OneApproval
  <2> QED BY <2>3, <2>4, <2>7, <2>10, <2>11, <2>12 DEF OneApproval
<1> QED BY <1>1, <1>2, <1>3

\* With one decision at most, or none that approves, no decision is late.
THEOREM OneDecisionIsInTime ==
    ASSUME DecidedOnce
    PROVE  Spec => []NoLateDecision
<1>a. Unapproved \/ OneApproval => NoLateDecision
  BY DEF Unapproved, OneApproval, Undecided, NobodyDecides, NoLateDecision, Sessions
<1>b. Init => /\ left = Budget /\ lock = Nobody /\ job = NoJob /\ NobodyDecides
              /\ \A s \in Sessions : pc[s] = "idle"
              /\ row.status \in InitialStatus
  BY DEF Init, NobodyDecides, Deciding, NewRow
<1>1. CASE Budget["approve"] = 0
  <2>1. Init => Unapproved
    BY <1>b, <1>1, NamesAssumption DEF Unapproved, NobodyDecides, Undecided, NamesAssumption
  <2>2. Inv /\ Standing /\ Unapproved /\ [Next]_vars => Standing' /\ Unapproved'
    BY <1>a, StandingStep, UnapprovedStep
  <2>3. Unapproved => NoLateDecision
    BY <1>a
  <2> QED BY <2>1, <2>2, <2>3, Invariance, InitStanding, PTL DEF Spec
<1>2. CASE /\ InitialStatus \subseteq {"pending"} /\ Budget["approve"] = 1
           /\ Budget["reject"] = 0 /\ Budget["cancel"] = 0
  <2>1. Init => OneApproval
    BY <1>b, <1>2 DEF OneApproval, NobodyDecides, Undecided
  <2>2. Inv /\ Standing /\ OneApproval /\ [Next]_vars => Standing' /\ OneApproval'
    BY <1>a, StandingStep, OneApprovalStep
  <2>3. OneApproval => NoLateDecision
    BY <1>a
  <2> QED BY <2>1, <2>2, <2>3, Invariance, InitStanding, PTL DEF Spec
<1> QED BY <1>1, <1>2 DEF DecidedOnce

\* Where nobody approves again, a completed action stays completed, whatever
\* retries, reconciliations and verdicts race.
COROLLARY OneDecisionCompletes ==
    ASSUME DecidedOnce
    PROVE  Spec => CompletedIsFinal
BY OneDecisionIsInTime, CompletionStands, PTL

\* Where nobody approves again, concurrent retries alone never repeat the
\* mutation.
COROLLARY OneDecisionRepeatsNothing ==
    ASSUME DecidedOnce
    PROVE  Spec => []EffectsAccounted
BY OneDecisionIsInTime, EffectsAreExplained, PTL

-----------------------------------------------------------------------------
(* The first doubt is in somebody's hands: the safety half of              *)
(* FirstDoubtIsChecked.                                                    *)

InDoubt(r) == r.recon = "PENDING"

\* A doubt that is not settled is one that the reconciliation job, when it
\* runs, does not skip; and the job waits, or has spent all its attempts.
FirstDoubtHasAJob ==
    InDoubt(row) /\ doubts = 1 /\ orphans = 0 =>
        /\ row.status = "failed"
        /\ \/ job.status = "queued"
           \/ job.status = "failed" /\ job.attempts >= JobAttempts

\* No reject or cancel is about to be written over an action in doubt.
NoStaleVerdict ==
    \A c \in Callers : pc[c] = "loaded" /\ op[c] \in {"reject", "cancel"} => ~ InDoubt(row)

\* There was one doubt at most, and no claim has been abandoned.
Calm == orphans = 0 /\ doubts <= 1

\* What is committed, and the lock holder's version of it.
RowTended ==
    /\ doubts = 0 => job = NoJob /\ ~ InDoubt(row)
    /\ InDoubt(row) => row.status = "failed" /\ job.status \in {"queued", "failed"}
    /\ row.status # "approved"
    /\ row.status = "executing" => row.executing_at = Null
    /\ lock # Nobody /\ InDoubt(draft) => InDoubt(row)

\* What a request has loaded brings no doubt back, and a worker that ends the
\* job has settled the doubt, unless its look at the provider raised.
SessionTends(s) ==
    /\ pc[s] = "loaded" =>
         seen[s].status # "approved" /\ (op[s] = "legacy" => ~ InDoubt(seen[s]))
    /\ pc[s] = "ready" =>
         \/ seen[s].status = "approved" /\ draft.status = "approved" /\ lock = s
         \/ seen[s].status = "failed" /\ lock # s
    /\ op[s] = "reconcile" => job # NoJob
    /\ pc[s] \in {"reading", "applying"} => op[s] = "reconcile" /\ lock # s
    /\ pc[s] = "cycle" /\ op[s] # "reconcile" => lock # s
    /\ pc[s] = "cycle" /\ lock = s => draft.status \in {"failed", "completed"}
    /\ pc[s] = "cycle" /\ op[s] = "reconcile" /\ InDoubt(row) =>
         \/ lock = s /\ ~ InDoubt(draft)
         \/ lock # s /\ out[s] = "raised"

Tended == Calm => RowTended /\ \A s \in Sessions : SessionTends(s)

\* A step of s that tends to the doubt.
Cares(s) ==
    /\ OthersRest(s)
    /\ Calm' => /\ Calm
                /\ job # NoJob => job' # NoJob
                /\ InDoubt(row)' => InDoubt(row) \/ job = NoJob
                /\ RowTended' /\ SessionTends(s)'

LEMMA TendedKept ==
    ASSUME Inv, Tended, NEW s \in Sessions, Cares(s)
    PROVE  Tended'
<1>1. SUFFICES ASSUME Calm', NEW d \in Sessions, d # s PROVE SessionTends(d)'
  BY DEF Cares, Tended
<1>2. SessionTends(d) /\ RowTended
  BY <1>1 DEF Cares, Tended
<1>3. /\ pc'[d] = pc[d] /\ op'[d] = op[d] /\ seen'[d] = seen[d] /\ out'[d] = out[d]
      /\ lock = d => lock' = d /\ draft' = draft /\ row' = row
      /\ lock # d => lock' # d
      /\ job # NoJob => job' # NoJob
      /\ InDoubt(row)' => InDoubt(row) \/ job = NoJob
  BY <1>1 DEF Cares, OthersRest
<1> QED BY <1>2, <1>3 DEF SessionTends, InDoubt

\* Flushing leaves the columns alone that were not assigned.
LEMMA FlushedColumns ==
    ASSUME NEW now \in Rows, NEW was \in Rows, NEW new \in Rows
    PROVE  /\ new.recon = was.recon => Flush(now, was, new).recon = now.recon
           /\ Flush(now, was, new).executing_at \in {now.executing_at, new.executing_at}
           /\ new.executing_at = was.executing_at =>
                 Flush(now, was, new).executing_at = now.executing_at
BY DEF Flush, Rows

\* Whoever looks sees a doubt only where one is committed.
LEMMA DoubtIsCommitted ==
    ASSUME NEW s \in Sessions, RowTended, InDoubt(View(s))
    PROVE  InDoubt(row)
BY NamesAssumption DEF NamesAssumption, RowTended, View, InDoubt

\* A session that is done leaves the others alone, and knows nothing any more.
LEMMA DoneTends ==
    ASSUME Inv, NEW s \in Sessions, Done(s), lock' # s,
           (\E new : Save(s, new)) \/ Discard(s) \/ UNCHANGED db
    PROVE  OthersRest(s) /\ SessionTends(s)'
<1>1. pc'[s] = "idle" /\ op'[s] = "none" /\ \A d \in Sessions \ {s} :
        pc'[d] = pc[d] /\ op'[d] = op[d] /\ seen'[d] = seen[d] /\ out'[d] = out[d]
  BY DEF Done, Inv, TypeOK
<1>2. OthersRest(s)
  BY <1>1, StoreIsOnes DEF OthersRest
<1> QED BY <1>1, <1>2 DEF SessionTends

\* A reject or cancel changes the status of an action that is not in doubt.
LEMMA DecideCares ==
    ASSUME Inv, Tended, Calm, NoStaleVerdict, NEW c \in Callers, Decide(c)
    PROVE  Cares(c)
<1> DEFINE verdict == IF op[c] = "reject" THEN "rejected" ELSE "cancelled"
           decided == [seen[c] EXCEPT !.status = verdict]
           new     == Flush(row, seen[c], decided)
<1>1. c \in Sessions /\ seen[c] \in Rows /\ row \in Rows /\ c # Nobody
  BY NamesAssumption DEF Inv, TypeOK, Sessions, NamesAssumption
<1>2. RowTended /\ ~ InDoubt(row)
  BY DEF Tended, Decide, NoStaleVerdict
<1>3. /\ new.status \in {row.status, "rejected", "cancelled"}
      /\ new.recon = row.recon /\ new.executing_at = row.executing_at
  <2>1. verdict \in Statuses /\ verdict \in {"rejected", "cancelled"}
    BY DEF Statuses
  <2>2. /\ decided \in Rows /\ decided.status = verdict
        /\ decided.recon = seen[c].recon /\ decided.executing_at = seen[c].executing_at
    <3> HIDE DEF verdict
    <3> QED BY <1>1, <2>1 DEF Rows
  <2> HIDE DEF decided, verdict
  <2> QED BY <1>1, <2>1, <2>2, FlushedStatus, FlushedColumns
<1>4. Save(c, new) /\ Done(c) /\ job' = job /\ doubts' = doubts /\ orphans' = orphans
  BY DEF Decide, counted
<1> HIDE DEF new
<1>5. row' = new /\ lock' = Nobody
  BY <1>4 DEF Save
<1>6. RowTended'
  BY <1>2, <1>3, <1>4, <1>5 DEF RowTended, InDoubt
<1>7. OthersRest(c) /\ SessionTends(c)'
  BY <1>1, <1>4, <1>5, DoneTends
<1> QED BY <1>2, <1>3, <1>4, <1>5, <1>6, <1>7 DEF Cares, Calm, InDoubt

\* An action that a request could not execute is failed, or stays as it is, and
\* a doubt about it stays one.
LEMMA FailureCares ==
    ASSUME Inv, Tended, Calm, NEW c \in Sessions, CheckFails(c) \/ ClaimBlocked(c)
    PROVE  Cares(c)
<1>a. /\ row \in Rows /\ draft \in Rows /\ View(c) \in Rows /\ seen[c] \in Rows
      /\ c # Nobody /\ RowTended /\ SessionTends(c) /\ pc[c] = "ready"
  BY ViewType, NamesAssumption DEF Inv, TypeOK, Tended, CheckFails, ClaimBlocked, NamesAssumption
<1>1. ASSUME NEW loaded \in Rows, MarkFailed(c, loaded)
      PROVE  /\ row'.recon = View(c).recon /\ row'.executing_at \in {View(c).executing_at, Null}
             /\ row'.status = IF loaded.status = "failed" THEN View(c).status ELSE "failed"
             /\ Done(c) /\ lock' = Nobody /\ (\E new : Save(c, new))
             /\ job' = job /\ doubts' = doubts /\ orphans' = orphans
  <2> DEFINE failed == [loaded EXCEPT !.status = "failed", !.executing_at = Null]
             new    == Flush(View(c), loaded, failed)
  <2>1. /\ failed \in Rows /\ failed.status = "failed"
        /\ failed.recon = loaded.recon /\ failed.executing_at = Null
    <3>1. "failed" \in Statuses
      BY DEF Statuses
    <3> QED BY <1>1, <3>1, RowOperations DEF Rows
  <2>2. /\ new.recon = View(c).recon /\ new.executing_at \in {View(c).executing_at, Null}
        /\ new.status = IF loaded.status = "failed" THEN View(c).status ELSE "failed"
    <3> HIDE DEF failed
    <3> QED BY <1>1, <1>a, <2>1, FlushedStatus, FlushedColumns
  <2>3. Save(c, new) /\ Done(c) /\ UNCHANGED <<job, left, counted>>
    BY <1>1 DEF MarkFailed
  <2> HIDE DEF new
  <2> QED BY <2>2, <2>3 DEF Save, counted
<1>2. ASSUME \/ row'.status = "failed"
             \/ row'.status = row.status /\ row'.executing_at \in {row.executing_at, Null},
             row'.recon = View(c).recon, Done(c), lock' = Nobody, \E new : Save(c, new),
             job' = job /\ doubts' = doubts /\ orphans' = orphans
      PROVE  Cares(c)
  <2>1. InDoubt(row)' => InDoubt(row)
    BY <1>a, <1>2, DoubtIsCommitted DEF InDoubt
  <2>2. RowTended'
    BY <1>a, <1>2, <2>1 DEF RowTended, InDoubt
  <2>3. OthersRest(c) /\ SessionTends(c)'
    BY <1>a, <1>2, DoneTends
  <2> QED BY <1>2, <2>1, <2>2, <2>3 DEF Cares, Calm
<1>3. CASE CheckFails(c)
  <2>1. MarkFailed(c, seen[c])
    BY <1>3 DEF CheckFails
  <2>2. seen[c].status = "failed" => View(c) = row
    BY <1>a DEF SessionTends, View
  <2> QED BY <1>a, <1>1, <1>2, <2>1, <2>2
<1>4. CASE ClaimBlocked(c)
  <2>1. MarkFailed(c, View(c))
    BY <1>4 DEF ClaimBlocked
  <2> QED BY <1>a, <1>1, <1>2, <2>1
<1> QED BY <1>3, <1>4

\* An outcome that is in doubt is the first one, and enqueues the job.
LEMMA RecordCares ==
    ASSUME Cap > 1, Inv, Tended, Calm, NEW s \in Sessions, Record(s)
    PROVE  Cares(s)
<1>a. /\ s # Nobody /\ draft \in Rows /\ RowTended
      /\ lock = s /\ out[s] \in {"confirmed", "refused", "ambiguous"}
  BY NamesAssumption
     DEF Record, Inv, TypeOK, Owning, Mutating, Honest, HonestOut, NamesAssumption, Tended
<1>b. doubts \in Nat /\ Cap \in Nat
  BY CountersType
<1>1. /\ row' = Outcome(draft, s) /\ lock' = Nobody /\ Done(s) /\ Save(s, Outcome(draft, s))
      /\ orphans' = orphans
      /\ job' = IF out[s] = "ambiguous" /\ job = NoJob THEN NewJob ELSE job
      /\ doubts' = IF out[s] = "ambiguous" THEN Bump(doubts) ELSE doubts
  BY DEF Record, Save
<1>2. OthersRest(s) /\ SessionTends(s)'
  BY <1>1, <1>a, DoneTends
<1>3. CASE out[s] = "ambiguous"
  <2>1. row'.status = "failed"
    BY <1>a, <1>1, <1>3 DEF Outcome, Rows
  <2>2. Calm' => doubts = 0 /\ doubts' = 1
    BY <1>1, <1>3, <1>b DEF Calm, Bump
  <2>3. Calm' => job = NoJob /\ job' # NoJob /\ job'.status = "queued"
    BY <1>a, <1>1, <1>3, <2>2, AttemptType DEF RowTended, NewJob
  <2> QED BY <1>1, <1>2, <2>1, <2>2, <2>3 DEF Cares, Calm, RowTended
<1>4. CASE out[s] # "ambiguous"
  <2>1. /\ row'.status \in {"completed", "failed"}
        /\ row'.recon \in {"none", draft.recon} /\ (row'.status = "completed" => row'.recon = "none")
    BY <1>a, <1>1, <1>4 DEF Outcome, Rows
  <2>2. InDoubt(row)' => InDoubt(row) /\ row'.status = "failed"
    BY <1>a, <2>1 DEF RowTended, InDoubt
  <2>3. doubts' = doubts /\ job' = job
    BY <1>1, <1>4
  <2>4. RowTended'
    BY <1>1, <1>a, <2>1, <2>2, <2>3 DEF RowTended, InDoubt
  <2> QED BY <1>1, <1>2, <2>2, <2>3, <2>4 DEF Cares, Calm
<1> QED BY <1>3, <1>4

\* An operator settles a doubt or calls it unknown.
LEMMA OperatorCares ==
    ASSUME Inv, Tended, Calm, NEW s \in Sessions, Resolve(s) \/ RecoverLegacy(s)
    PROVE  Cares(s)
<1>a. /\ s # Nobody /\ row \in Rows /\ RowTended /\ SessionTends(s)
  BY NamesAssumption DEF Inv, TypeOK, NamesAssumption, Tended
<1>b. Done(s) /\ job' = job /\ doubts' = doubts /\ orphans' = orphans
  BY DEF Resolve, RecoverLegacy, counted
<1>1. ASSUME NEW new, Save(s, new), new.status \in {"completed", "failed"}, ~ InDoubt(new)
      PROVE  Cares(s)
  <2>1. row' = new /\ lock' = Nobody
    BY <1>1 DEF Save
  <2>2. RowTended'
    BY <1>a, <1>b, <1>1, <2>1 DEF RowTended, InDoubt
  <2>3. OthersRest(s) /\ SessionTends(s)'
    BY <1>a, <1>b, <1>1, <2>1, DoneTends
  <2> QED BY <1>b, <1>1, <2>1, <2>2, <2>3 DEF Cares, Calm, InDoubt
<1>2. CASE Resolve(s)
  <2>1. PICK verdict \in Verdicts(out[s]) : Save(s, Resolved(row, verdict))
    BY <1>2 DEF Resolve
  <2>2. row.status = "failed"
    BY <1>2 DEF Resolve
  <2>3. Resolved(row, verdict).status \in {"completed", "failed"} /\ ~ InDoubt(Resolved(row, verdict))
    BY <1>a, <2>2 DEF Resolved, StillUnknown, Confirmed, NotApplied, Rows, InDoubt
  <2> QED BY <1>1, <2>1, <2>3
<1>3. CASE RecoverLegacy(s)
  <2>1. PICK recon \in {seen[s].recon, "UNKNOWN"} :
            Save(s, [row EXCEPT !.status = "failed", !.recon = recon])
    BY <1>3 DEF RecoverLegacy
  <2>2. recon # "PENDING"
    BY <1>a, <1>3 DEF RecoverLegacy, SessionTends, InDoubt
  <2>3. /\ [row EXCEPT !.status = "failed", !.recon = recon].status = "failed"
        /\ ~ InDoubt([row EXCEPT !.status = "failed", !.recon = recon])
    BY <1>a, <2>2 DEF Rows, InDoubt
  <2> QED BY <1>1, <2>1, <2>3
<1> QED BY <1>2, <1>3

\* What else ends a transaction.
LEMMA EndingCares ==
    ASSUME Inv, Tended, Calm, NEW s \in Sessions,
           AbandonClaim(s) \/ EndCycle(s) \/ ClaimFinished(s) \/ Conflict(s) \/ Crash(s)
    PROVE  Cares(s)
<1>a. /\ s # Nobody /\ row \in Rows /\ draft \in Rows /\ RowTended /\ SessionTends(s)
  BY NamesAssumption DEF Inv, TypeOK, NamesAssumption, Tended
<1>1. CASE AbandonClaim(s)
  <2>1. lock = s /\ Save(s, draft) /\ Done(s) /\ orphans' = orphans + 1
    BY <1>1 DEF AbandonClaim, Inv, Owning, Mutating
  <2>2. ~ Calm'
    BY <2>1, CountersType DEF Calm
  <2>3. lock' # s
    BY <1>a, <2>1 DEF Save
  <2> QED BY <2>1, <2>2, <2>3, DoneTends DEF Cares
<1>2. CASE EndCycle(s)
  <2>1. /\ Done(s) /\ doubts' = doubts /\ orphans' = orphans /\ pc[s] = "cycle"
        /\ job' = IF op[s] = "reconcile" THEN Attempted(job, out[s] = "raised") ELSE job
        /\ \/ lock = s /\ Save(s, draft)
           \/ lock # s /\ UNCHANGED db
    BY <1>2 DEF EndCycle, counted
  <2>a. /\ op[s] = "reconcile" => job # NoJob /\ job' # NoJob
        /\ op[s] = "reconcile" /\ out[s] = "raised" => job'.status \in {"queued", "failed"}
    BY <1>a, <2>1, AttemptType DEF SessionTends, Inv, TypeOK
  <2>2. CASE lock = s
    <3>1. row' = draft /\ lock' = Nobody /\ Save(s, draft)
      BY <2>1, <2>2 DEF Save
    <3>2. /\ op[s] = "reconcile" /\ draft.status \in {"failed", "completed"}
          /\ ~ InDoubt(draft)
      BY <1>a, <2>1, <2>2 DEF SessionTends, RowTended
    <3>3. RowTended'
      BY <1>a, <2>1, <2>a, <3>1, <3>2 DEF RowTended, InDoubt, SessionTends
    <3>4. OthersRest(s) /\ SessionTends(s)'
      BY <1>a, <2>1, <3>1, DoneTends
    <3> QED BY <2>1, <2>a, <3>1, <3>2, <3>3, <3>4 DEF Cares, Calm, InDoubt
  <2>3. CASE lock # s
    <3>1. row' = row /\ draft' = draft /\ lock' = lock /\ UNCHANGED db
      BY <2>1, <2>3 DEF db
    <3>2. op[s] = "reconcile" => ~ InDoubt(row) \/ out[s] = "raised"
      BY <1>a, <2>1, <2>3 DEF SessionTends
    <3>3. RowTended'
      BY <1>a, <2>1, <2>a, <3>1, <3>2 DEF RowTended, InDoubt
    <3>4. OthersRest(s) /\ SessionTends(s)'
      BY <1>a, <2>1, <2>3, <3>1, DoneTends
    <3> QED BY <2>1, <2>a, <3>1, <3>3, <3>4 DEF Cares, Calm, InDoubt
  <2> QED BY <2>2, <2>3
<1>3. CASE ClaimFinished(s) \/ Conflict(s)
  <2>1. /\ lock = Nobody /\ Done(s) /\ UNCHANGED db /\ job' = job
        /\ doubts' = doubts /\ orphans' = orphans
    BY <1>3 DEF ClaimFinished, Conflict, counted
  <2>2. row' = row /\ draft' = draft /\ lock' = lock
    BY <2>1 DEF db
  <2>3. RowTended' /\ OthersRest(s) /\ SessionTends(s)'
    BY <1>a, <2>1, <2>2, DoneTends DEF RowTended, InDoubt
  <2> QED BY <2>1, <2>2, <2>3 DEF Cares, Calm, InDoubt
<1>4. CASE Crash(s)
  <2>1. Done(s) /\ Discard(s) /\ job' = job /\ doubts' = doubts /\ orphans' = orphans
    BY <1>4 DEF Crash
  <2>2. row' = row /\ lock' # s /\ (lock' # Nobody => lock' = lock /\ draft' = draft)
    BY <1>a, <2>1 DEF Discard
  <2>3. RowTended'
    BY <1>a, <2>1, <2>2 DEF RowTended, InDoubt
  <2>4. OthersRest(s) /\ SessionTends(s)'
    BY <2>1, <2>2, DoneTends
  <2> QED BY <2>1, <2>2, <2>3, <2>4 DEF Cares, Calm, InDoubt
<1> QED BY <1>1, <1>2, <1>3, <1>4

\* A request that goes on leaves what is committed alone, and takes a doubt
\* only from there.
LEMMA RequestCares ==
    ASSUME Inv, Tended, Calm, NEW c \in Sessions,
           (\E o \in Ops : Load(c, o)) \/ Approve(c) \/ Claim(c) \/ Call(c)
    PROVE  Cares(c)
<1>a. /\ c # Nobody /\ row \in Rows /\ draft \in Rows /\ seen \in [Sessions -> Rows]
      /\ pc[c] = "idle" => lock # c
      /\ RowTended /\ SessionTends(c)
  BY NamesAssumption DEF Inv, TypeOK, NamesAssumption, Tended
<1>b. /\ \A d \in Sessions \ {c} : /\ pc'[d] = pc[d] /\ op'[d] = op[d]
                                   /\ seen'[d] = seen[d] /\ out'[d] = out[d]
      /\ job' = job /\ doubts' = doubts /\ orphans' = orphans /\ row' = row
  BY DEF Load, Approve, Claim, Call, Hold, Goto, counted, db, Inv, TypeOK
<1>c. ASSUME (\E new : Save(c, new) \/ Hold(c, new)) \/ UNCHANGED db
      PROVE  OthersRest(c)
  BY <1>b, <1>c, StoreIsOnes DEF OthersRest
<1>1. CASE \E o \in Ops : Load(c, o)
  <2>1. PICK o \in Ops : Load(c, o)
    BY <1>1
  <2>2. /\ pc[c] = "idle" /\ Admits(o, row) /\ UNCHANGED db
        /\ pc'[c] = IF o = "execute" THEN "ready" ELSE "loaded"
        /\ seen'[c] = row /\ op'[c] = o
    BY <1>a, <2>1 DEF Load, Goto, Inv, TypeOK
  <2>3. lock' = lock /\ draft' = draft /\ lock # c /\ OthersRest(c)
    BY <1>a, <1>c, <2>2 DEF db
  <2>4. /\ o = "execute" => row.status = "failed"
        /\ o = "legacy" => ~ InDoubt(row)
        /\ row.status # "approved" /\ o # "reconcile"
    BY <1>a, <2>2 DEF Admits, RowTended, Ops
  <2>5. SessionTends(c)'
    BY <1>b, <2>2, <2>3, <2>4 DEF SessionTends, InDoubt
  <2>6. RowTended'
    BY <1>a, <1>b, <2>3 DEF RowTended, InDoubt
  <2> QED BY <1>b, <2>3, <2>5, <2>6 DEF Cares, Calm, InDoubt
<1>2. ASSUME NEW new, Hold(c, new), InDoubt(new) => InDoubt(row), SessionTends(c)'
      PROVE  Cares(c)
  <2>1. OthersRest(c) /\ lock' = c /\ draft' = new
    BY <1>c, <1>2 DEF Hold
  <2>2. RowTended'
    BY <1>a, <1>b, <1>2, <2>1 DEF RowTended, InDoubt
  <2> QED BY <1>b, <1>2, <2>1, <2>2 DEF Cares, Calm, InDoubt
<1>3. CASE Approve(c)
  <2> DEFINE approved == [seen[c] EXCEPT !.status = "approved"]
             new      == Flush(row, seen[c], approved)
  <2>1. seen[c].status # "approved" /\ seen[c] \in Rows /\ op[c] = "approve"
    BY <1>a, <1>3 DEF Approve, SessionTends
  <2>2. approved \in Rows /\ approved.status = "approved" /\ approved.recon = seen[c].recon
    <3>1. "approved" \in Statuses
      BY DEF Statuses
    <3> QED BY <2>1, <3>1 DEF Rows
  <2>3. new.status = "approved" /\ new.recon = row.recon
    <3> HIDE DEF approved
    <3> QED BY <1>a, <2>1, <2>2, FlushedStatus, FlushedColumns
  <2>4. Hold(c, new) /\ pc'[c] = "ready" /\ seen'[c] = approved /\ op'[c] = op[c]
    BY <1>3, <1>a DEF Approve, Goto, Inv, TypeOK
  <2> HIDE DEF new, approved
  <2>5. lock' = c /\ draft' = new
    BY <2>4 DEF Hold
  <2>6. SessionTends(c)'
    BY <2>1, <2>2, <2>3, <2>4, <2>5 DEF SessionTends
  <2> QED BY <1>2, <2>3, <2>4, <2>6 DEF InDoubt
<1>4. CASE Claim(c)
  <2> DEFINE new == [View(c) EXCEPT !.status = "executing", !.executing_at = 0]
  <2>1. new.recon = View(c).recon
    BY <1>a, ViewType DEF Rows
  <2>2. Hold(c, new) /\ pc'[c] = "calling" /\ op' = op
    BY <1>4, <1>a DEF Claim, Goto, Inv, TypeOK
  <2> HIDE DEF new
  <2>3. InDoubt(new) => InDoubt(row)
    BY <1>a, <2>1, DoubtIsCommitted DEF InDoubt
  <2>4. SessionTends(c)'
    BY <1>a, <1>b, <2>2 DEF SessionTends
  <2> QED BY <1>2, <2>2, <2>3, <2>4
<1>5. CASE Call(c)
  <2>1. UNCHANGED db /\ pc'[c] = "called" /\ op' = op
    BY <1>5, <1>a DEF Call, Goto, Inv, TypeOK
  <2>2. lock' = lock /\ draft' = draft /\ OthersRest(c)
    BY <1>c, <2>1 DEF db
  <2>3. SessionTends(c)'
    BY <1>a, <1>b, <2>1 DEF SessionTends
  <2>4. RowTended'
    BY <1>a, <1>b, <2>2 DEF RowTended, InDoubt
  <2> QED BY <1>b, <2>2, <2>3, <2>4 DEF Cares, Calm, InDoubt
<1> QED BY <1>1, <1>3, <1>4, <1>5

\* There is nothing to reap; the job is taken for a doubt that is committed,
\* and the compare-and-swap that settles it finds the action still failed.
LEMMA CycleCares ==
    ASSUME Inv, Tended, Calm, NEW w \in Sessions,
           Reap(w) \/ TakeJob(w) \/ ReadProvider(w) \/ ReadRaises(w) \/ Apply(w)
    PROVE  Cares(w)
<1>a. /\ w # Nobody /\ row \in Rows /\ draft \in Rows
      /\ pc[w] = "idle" => lock # w
      /\ RowTended /\ SessionTends(w)
  BY NamesAssumption DEF Inv, TypeOK, NamesAssumption, Tended
<1>b. /\ \A d \in Sessions \ {w} : /\ pc'[d] = pc[d] /\ op'[d] = op[d]
                                   /\ seen'[d] = seen[d] /\ out'[d] = out[d]
      /\ job' = job /\ doubts' = doubts /\ orphans' = orphans /\ row' = row
  BY DEF Reap, TakeJob, ReadProvider, ReadRaises, Apply, Hold, Goto, counted, db, Inv, TypeOK
<1>1. ~ Reap(w)
  BY <1>a, NamesAssumption, SizesAssumption DEF Reap, Stale, RowTended, NamesAssumption, SizesAssumption
<1>2. ASSUME UNCHANGED db, SessionTends(w)'
      PROVE  Cares(w)
  <2>1. OthersRest(w) /\ lock' = lock /\ draft' = draft
    BY <1>b, <1>2, StoreIsOnes DEF OthersRest, db
  <2>2. RowTended'
    BY <1>a, <1>b, <2>1 DEF RowTended, InDoubt
  <2> QED BY <1>b, <1>2, <2>1, <2>2 DEF Cares, Calm, InDoubt
<1>3. CASE TakeJob(w)
  <2>1. /\ pc[w] \in {"idle", "cycle"} /\ op[w] = "none" /\ job.status = "queued" /\ UNCHANGED db
        /\ pc'[w] = IF View(w).status = "failed" /\ BlocksRetry(View(w)) THEN "reading" ELSE "cycle"
        /\ op'[w] = "reconcile"
    BY <1>3, <1>a DEF TakeJob, Goto, Inv, TypeOK
  <2>2. lock # w /\ View(w) = row /\ lock' = lock
    BY <1>a, <2>1 DEF SessionTends, View, db
  <2>3. InDoubt(row) => pc'[w] = "reading"
    BY <1>a, <2>1, <2>2 DEF RowTended, InDoubt, BlocksRetry, Open
  <2>4. SessionTends(w)'
    BY <1>b, <2>1, <2>2, <2>3 DEF SessionTends, InDoubt, NoJob
  <2> QED BY <1>2, <2>1, <2>4
<1>4. CASE ReadProvider(w)
  <2>1. pc[w] = "reading" /\ pc'[w] = "applying" /\ op' = op /\ UNCHANGED db
    BY <1>4, <1>a DEF ReadProvider, Goto, Inv, TypeOK
  <2>2. SessionTends(w)'
    BY <1>a, <1>b, <2>1 DEF SessionTends, db
  <2> QED BY <1>2, <2>1, <2>2
<1>6. CASE ReadRaises(w)
  <2>1. /\ pc[w] = "reading" /\ pc'[w] = "cycle" /\ op' = op /\ out'[w] = "raised"
        /\ UNCHANGED db
    BY <1>6, <1>a DEF ReadRaises, Goto, Inv, TypeOK
  <2>2. SessionTends(w)'
    BY <1>a, <1>b, <2>1 DEF SessionTends, db
  <2> QED BY <1>2, <2>1, <2>2
<1>5. CASE Apply(w)
  <2>1. /\ pc[w] = "applying" /\ pc'[w] = "cycle" /\ op' = op
        /\ out[w] \in {"applied", "not_applied", "unknown"}
    BY <1>5, <1>a DEF Apply, Goto, Inv, TypeOK, Honest, HonestOut
  <2>2. lock # w /\ View(w) = row /\ op[w] = "reconcile" /\ job # NoJob
    BY <1>a, <2>1 DEF SessionTends, View
  <2>3. CASE row.status = "failed" /\ Hold(w, Reconciled(row, out[w]))
    <3> DEFINE new == Reconciled(row, out[w])
    <3>1. new.status \in {"failed", "completed"} /\ ~ InDoubt(new)
      BY <1>a, <2>3 DEF Reconciled, StillUnknown, Confirmed, NotApplied, Rows, InDoubt
    <3>2. Hold(w, new)
      BY <2>3
    <3> HIDE DEF new
    <3>3. lock' = w /\ draft' = new /\ OthersRest(w)
      BY <1>b, <3>2, StoreIsOnes DEF Hold, OthersRest
    <3>4. SessionTends(w)'
      BY <1>b, <2>1, <2>2, <3>1, <3>3 DEF SessionTends, InDoubt
    <3>5. RowTended'
      BY <1>a, <1>b, <3>1, <3>3 DEF RowTended, InDoubt
    <3> QED BY <1>b, <3>3, <3>4, <3>5 DEF Cares, Calm, InDoubt
  <2>4. CASE row.status # "failed" /\ UNCHANGED db
    <3>1. ~ InDoubt(row) /\ lock' = lock
      BY <1>a, <2>4 DEF RowTended, db
    <3>2. SessionTends(w)'
      BY <1>b, <2>1, <2>2, <3>1 DEF SessionTends, InDoubt
    <3> QED BY <1>2, <2>4, <3>2
  <2> QED BY <1>5, <2>2, <2>3, <2>4 DEF Apply
<1> QED BY <1>1, <1>3, <1>4, <1>5, <1>6

\* Doubts and abandoned claims are not forgotten.
LEMMA CalmEndsOnce ==
    ASSUME Cap > 1, Inv, [Next]_vars, Calm'
    PROVE  Calm
<1>1. /\ doubts \in Nat /\ orphans \in Nat /\ Cap \in Nat
      /\ doubts <= Cap
  BY CountersType
<1>2. ASSUME NEW c \in Callers, CallerStep(c) \/ CallerChoice(c)
      PROVE  doubts' \in {doubts, Bump(doubts)} /\ orphans' \in {orphans, orphans + 1}
  BY <1>2 DEF CallerStep, CallerChoice, Decide, Approve, Claim, ClaimFinished, ClaimBlocked, CheckFails,
              MarkFailed, Call, Record, Resolve, RecoverLegacy, Conflict, Load, Crash, AbandonClaim, counted
<1>3. ASSUME NEW w \in Workers, WorkerStep(w) \/ CrashCycle(w)
      PROVE  doubts' = doubts /\ orphans' = orphans
  BY <1>3 DEF WorkerStep, CrashCycle, Crash, Reap, TakeJob, ReadProvider, ReadRaises, Apply, EndCycle, counted
<1>4. Tick \/ UNCHANGED vars => doubts' = doubts /\ orphans' = orphans
  BY DEF Tick, vars, counted
<1>5. doubts' \in {doubts, Bump(doubts)} /\ orphans' \in {orphans, orphans + 1}
  BY <1>2, <1>3, <1>4 DEF Next
<1>6. doubts' \in Nat /\ (doubts' <= 1 => doubts <= 1)
  BY <1>1, <1>5 DEF Bump
<1> QED BY <1>1, <1>5, <1>6 DEF Calm

\* Time settles nothing and unsettles nothing.
LEMMA TickTends ==
    ASSUME Inv, Tended, Tick
    PROVE  Tended'
<1>1. \A r \in Rows : /\ Older(r).status = r.status /\ Older(r).recon = r.recon
                      /\ r.executing_at = Null => Older(r).executing_at = Null
  BY NamesAssumption, SizesAssumption DEF Older, Rows, NamesAssumption, SizesAssumption
<1>2. /\ row'.status = row.status /\ row'.recon = row.recon
      /\ draft'.status = draft.status /\ draft'.recon = draft.recon
      /\ row.executing_at = Null => row'.executing_at = Null
      /\ UNCHANGED <<lock, job, pc, op, seen, out, doubts, orphans>>
  BY <1>1 DEF Tick, Inv, TypeOK, counted
<1>3. Calm' => Calm
  BY <1>2 DEF Calm
<1>4. RowTended => RowTended'
  BY <1>2 DEF RowTended, InDoubt
<1>5. ASSUME NEW s \in Sessions, SessionTends(s) PROVE SessionTends(s)'
  BY <1>2, <1>5 DEF SessionTends, InDoubt
<1> QED BY <1>3, <1>4, <1>5 DEF Tended

LEMMA TendedStep ==
    ASSUME Cap > 1, Inv, NoStaleVerdict, Tended, [Next]_vars
    PROVE  Tended'
<1>a. Callers \subseteq Sessions /\ Workers \subseteq Sessions
  BY DEF Sessions
<1>1. SUFFICES ASSUME Calm' PROVE Tended'
  BY DEF Tended
<1>2. Calm
  BY <1>1, CalmEndsOnce
<1>3. ASSUME NEW c \in Callers, CallerStep(c) \/ CallerChoice(c) PROVE Tended'
  <2>1. Cares(c)
    BY <1>2, <1>3, <1>a, DecideCares, FailureCares, RecordCares, OperatorCares, EndingCares, RequestCares
       DEF CallerStep, CallerChoice
  <2> QED BY <1>a, <2>1, TendedKept
<1>4. ASSUME NEW w \in Workers, WorkerStep(w) \/ CrashCycle(w) PROVE Tended'
  <2>1. Cares(w)
    BY <1>2, <1>4, <1>a, EndingCares, CycleCares DEF WorkerStep, CrashCycle
  <2> QED BY <1>a, <2>1, TendedKept
<1>5. CASE Tick
  BY <1>5, TickTends
<1>6. CASE UNCHANGED vars
  BY <1>6 DEF vars, Tended, Calm, RowTended, SessionTends, InDoubt
<1> QED BY <1>3, <1>4, <1>5, <1>6 DEF Next

LEMMA InitTended == Init => Tended
<1> SUFFICES ASSUME Init PROVE Tended
  OBVIOUS
<1>1. PICK status \in InitialStatus : row = NewRow(status)
  BY DEF Init
<1>2. RowTended
  BY <1>1, NamesAssumption DEF Init, NewRow, NamesAssumption, RowTended, InDoubt
<1>3. \A s \in Sessions : pc[s] = "idle" /\ op[s] = "none"
  BY DEF Init
<1> QED BY <1>2, <1>3 DEF Tended, SessionTends

\* Through crashes, failed checks, retries, other workers and operators, the
\* first doubt about an action is settled, or waits for a job that will look at
\* it and has attempts left, or outlived a job all of whose attempts raised:
\* unless a reject or cancel is written over it or a claim is abandoned.
THEOREM FirstDoubtIsHeld ==
    ASSUME Cap > 1
    PROVE  Spec /\ []NoStaleVerdict => []FirstDoubtHasAJob
<1>1. Inv /\ NoStaleVerdict /\ Tended /\ [Next]_vars => Tended'
  BY TendedStep
<1>2. Inv /\ Tended => FirstDoubtHasAJob
  BY DEF Inv, TypeOK, JobRows, Tended, Calm, RowTended, FirstDoubtHasAJob
<1> QED BY <1>1, <1>2, Invariance, InitTended, PTL DEF Spec

\* Where nobody rejects or cancels, that is so without condition.
NobodyRefuses ==
    /\ left["reject"] = 0 /\ left["cancel"] = 0
    /\ \A s \in Sessions : pc[s] = "loaded" => op[s] \notin {"reject", "cancel"}

LEMMA NobodyRefusesStep ==
    ASSUME Inv, NobodyRefuses, [Next]_vars
    PROVE  NobodyRefuses'
<1>a. /\ Callers \subseteq Sessions /\ Workers \subseteq Sessions
      /\ "reject" \in Ops /\ "cancel" \in Ops
  BY DEF Sessions, Ops
<1>1. CASE Tick \/ UNCHANGED vars
  BY <1>1 DEF vars, Tick, NobodyRefuses
<1>2. ASSUME NEW s \in Sessions,
             \/ s \in Callers /\ (CallerStep(s) \/ CallerChoice(s))
             \/ s \in Workers /\ (WorkerStep(s) \/ CrashCycle(s))
      PROVE  NobodyRefuses'
  <2>1. /\ ~ Load(s, "reject") /\ ~ Load(s, "cancel")
        /\ left'["reject"] = 0 /\ left'["cancel"] = 0
    BY <1>2, <1>a, LeftStep DEF NobodyRefuses
  <2>2. Load(s, "approve") => op'[s] = "approve"
    BY <1>2, LeftStep DEF Ops
  <2>3. ~ (pc'[s] = "loaded" /\ op'[s] \in {"reject", "cancel"})
    BY <1>2, <2>1, <2>2, DecidersLoad DEF Deciding
  <2>4. \A d \in Sessions \ {s} : pc'[d] = pc[d] /\ op'[d] = op[d]
    <3>1. CASE CallerStep(s) \/ CallerChoice(s)
      BY <3>1 DEF CallerStep, CallerChoice, Decide, Approve, Claim, ClaimFinished, ClaimBlocked, CheckFails,
                  MarkFailed, Call, Record, Resolve, RecoverLegacy, Conflict, Load, Crash, AbandonClaim,
                  Goto, Done, Inv, TypeOK
    <3>2. CASE WorkerStep(s) \/ CrashCycle(s)
      BY <3>2 DEF WorkerStep, CrashCycle, Crash, Reap, TakeJob, ReadProvider, ReadRaises, Apply, EndCycle,
                  Goto, Done, Inv, TypeOK
    <3> QED BY <1>2, <3>1, <3>2
  <2> QED BY <2>1, <2>3, <2>4 DEF NobodyRefuses
<1> QED BY <1>1, <1>2, <1>a DEF Next

\* Where nobody rejects or cancels the action, its first doubt is left to nobody
\* only when every attempt of its job has raised.
COROLLARY FirstDoubtIsHeldWithoutRefusals ==
    ASSUME Cap > 1, Budget["reject"] = 0, Budget["cancel"] = 0
    PROVE  Spec => []FirstDoubtHasAJob
<1>1. Init => NobodyRefuses
  BY DEF Init, NobodyRefuses
<1>2. Inv /\ NobodyRefuses /\ [Next]_vars => NobodyRefuses'
  BY NobodyRefusesStep
<1>3. NobodyRefuses => NoStaleVerdict
  BY DEF NobodyRefuses, NoStaleVerdict, Sessions
<1>4. Spec => []NoStaleVerdict
  BY <1>1, <1>2, <1>3, Invariance, PTL DEF Spec
<1> QED BY <1>4, FirstDoubtIsHeld, PTL
=============================================================================
