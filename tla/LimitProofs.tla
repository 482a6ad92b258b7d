----------------------------- MODULE LimitProofs -----------------------------
(***************************************************************************)
(* Theorems about the two kinds of limits.  UsageMetering, for any number  *)
(* of requests, plans, objects and amounts: what becomes of each unit, and *)
(* by how much a period can overrun its quota.  RateLimits, for any number *)
(* of requests and processes, any budget and any window: how many requests *)
(* a period can see.                                                       *)
(***************************************************************************)
EXTENDS UsageMetering, RateLimits, FiniteSetTheorems, TLAPS

(***************************************************************************)
(* What becomes of a unit of use.  A key is in one place at a time: in the *)
(* buffer or the open transaction of one request, on record, or lost.      *)
(***************************************************************************)
\* The types that the proofs need; keys of provider calls are numbers.
UsageKinds ==
    /\ calls \in Nat
    /\ buffer \in [Requesters -> SUBSET Nat]
    /\ rows \in [Requesters -> SUBSET Objects]
    /\ queued \in [Requesters -> SUBSET Objects] /\ backlog \subseteq Objects
    /\ DOMAIN stage = Requesters /\ DOMAIN want = Requesters
    /\ consumed \subseteq Nat

\* A call's key is new: every key that was given out is smaller.
Numbered == \A k \in consumed : k < calls

\* No key is in two places; a media job's key is its own, and only one that is
\* committed is metered.
KeysApart ==
    /\ \A r, s \in Requesters : r # s => buffer[r] \cap buffer[s] = {} /\ rows[r] \cap rows[s] = {}
    /\ \A r \in Requesters : /\ buffer[r] \cap Keys = {} /\ buffer[r] \cap lost = {}
                             /\ rows[r] \cap Keys = {} /\ queued[r] \cap Keys = {}
    /\ \A r, s \in Requesters : queued[r] \cap rows[s] = {}

\* A session that is over has nothing left in its transaction.
Ending == \A r \in Requesters : stage[r] # "serving" => rows[r] = {} /\ queued[r] = {}

UsageInv == UsageKinds /\ Numbered /\ KeysApart /\ Ending /\ UsageIsAccounted

\* The keys on record after a flush or a commit of ks.
LEMMA RecordKeys ==
    ASSUME NEW ks, Record(ks)
    PROVE  /\ Keys' = Keys \cup ks
           /\ (\A u, v \in usage : u.key = v.key => u = v) /\ ks \cap Keys = {}
                => \A u, v \in usage' : u.key = v.key => u = v
<1> DEFINE new == {[key |-> k, period |-> period] : k \in ks}
<1>1. usage' = usage \cup new
  BY DEF Record
<1>2. /\ \A u \in new : u.key \in ks
      /\ \A k \in ks : \E u \in new : u.key = k
      /\ \A u, v \in new : u.key = v.key => u = v
  <2>1. \A u \in new : u.key \in ks /\ u = [key |-> u.key, period |-> period]
    OBVIOUS
  <2>2. ASSUME NEW k \in ks PROVE \E u \in new : u.key = k
    <3>1. [key |-> k, period |-> period] \in new /\ [key |-> k, period |-> period].key = k
      OBVIOUS
    <3> QED BY <3>1
  <2>3. ASSUME NEW u \in new, NEW v \in new, u.key = v.key PROVE u = v
    BY <2>1, <2>3
  <2> QED BY <2>1, <2>2, <2>3
<1> HIDE DEF new
<1>3. Keys' = Keys \cup ks
  BY <1>1, <1>2 DEF Keys
<1>4. ASSUME \A u, v \in usage : u.key = v.key => u = v, ks \cap Keys = {}
      PROVE  \A u, v \in usage' : u.key = v.key => u = v
  <2>1. \A u \in usage : u.key \notin ks
    BY <1>4 DEF Keys
  <2> QED BY <1>1, <1>2, <1>4, <2>1
<1> QED BY <1>3, <1>4

\* Nothing is consumed initially.
LEMMA InitUsage == UsageInit => UsageInv
BY UsageAssumption
   DEF UsageInit, UsageInv, UsageKinds, Numbered, KeysApart, Ending, UsageIsAccounted, Keys

\* Steps that give out, record or lose no key.
LEMMA QuietUsage ==
    ASSUME UsageInv, UNCHANGED <<usage, buffer, rows, queued, calls, consumed, made, lost>>,
           backlog' \subseteq backlog,
           DOMAIN stage' = Requesters, DOMAIN want' = Requesters,
           \A r \in Requesters : stage'[r] # "serving" => rows[r] = {} /\ queued[r] = {}
    PROVE  UsageInv'
BY DEF UsageInv, UsageKinds, Numbered, KeysApart, Ending, UsageIsAccounted, Keys

\* Every step keeps every key in one place.
LEMMA NextUsage == UsageInv /\ [UsageNext]_usageVars => UsageInv'
<1> SUFFICES ASSUME UsageInv, [UsageNext]_usageVars PROVE UsageInv'
  OBVIOUS
<1>a. /\ calls \in Nat /\ consumed \subseteq Nat
      /\ buffer \in [Requesters -> SUBSET Nat] /\ rows \in [Requesters -> SUBSET Objects]
      /\ queued \in [Requesters -> SUBSET Objects] /\ backlog \subseteq Objects
      /\ DOMAIN stage = Requesters /\ DOMAIN want = Requesters
      /\ Objects \cap Nat = {}
  BY UsageAssumption DEF UsageInv, UsageKinds, UsageAssumption
<1>b. \A r \in Requesters : stage[r] # "serving" => rows[r] = {} /\ queued[r] = {}
  BY DEF UsageInv, Ending
<1>1. CASE \/ UNCHANGED usageVars \/ ReadSubscription \/ Lapse \/ NextPeriod
           \/ \E n \in PlanLimits : ChangePlan(n)
           \/ \E n \in 1..MostUnits : Refuse(n)
           \/ \E k \in Objects : DropWork(k)
  <2>1. /\ UNCHANGED <<usage, buffer, rows, queued, calls, consumed, made, lost, stage, want>>
        /\ backlog' \subseteq backlog
    BY <1>1 DEF usageVars, ReadSubscription, Lapse, NextPeriod, ChangePlan, Refuse, DropWork,
                plan, traced, bounded, jobs
  <2> QED BY <2>1, <1>a, <1>b, QuietUsage
<1>2. ASSUME NEW r \in Requesters, BeginUse(r) \/ \E n \in 1..MostUnits : Admit(r, n)
      PROVE  UsageInv'
  BY <1>2, <1>a, <1>b, QuietUsage DEF BeginUse, Admit, traced, bounded, jobs
<1>3. ASSUME NEW r \in Requesters, CallProvider(r) PROVE UsageInv'
  <2>1. /\ calls' = calls + 1 /\ consumed' = consumed \cup {calls}
        /\ buffer' = [buffer EXCEPT ![r] = @ \cup {calls}]
        /\ UNCHANGED <<usage, stage, rows, queued, backlog, made, lost>> /\ DOMAIN want' = Requesters
    BY <1>3, <1>a DEF CallProvider, StartUnit, plan, jobs
  <2>2. calls \notin consumed
    BY <1>a DEF UsageInv, Numbered
  <2>3. calls \notin Keys /\ calls \notin lost /\ \A s \in Requesters : calls \notin buffer[s]
    BY <2>2, <1>a DEF UsageInv, UsageIsAccounted
  <2>a. UsageKinds' /\ Ending'
    BY <2>1, <1>a DEF UsageInv, UsageKinds, Ending
  <2>b. Numbered'
    BY <2>1, <1>a DEF UsageInv, UsageKinds, Numbered
  <2>4. UsageKinds' /\ Numbered' /\ Ending'
    BY <2>a, <2>b
  <2>5. Keys' = Keys
    BY <2>1 DEF Keys
  <2>6. KeysApart'
    BY <2>1, <2>3, <2>5, <1>a DEF UsageInv, KeysApart
  <2>7. UNION {buffer'[s] : s \in Requesters} = (UNION {buffer[s] : s \in Requesters}) \cup {calls}
    BY <2>1, <1>a
  <2>8. UsageIsAccounted'
    BY <2>1, <2>5, <2>7 DEF UsageInv, UsageIsAccounted
  <2> QED BY <2>4, <2>6, <2>8 DEF UsageInv
<1>4. ASSUME NEW r \in Requesters, NEW k \in Objects, MeterObject(r, k) PROVE UsageInv'
  <2>1. /\ stage[r] = "serving" /\ k \notin Keys /\ \A s \in Requesters : k \notin rows[s]
        /\ \A s \in Requesters : k \notin queued[s]
        /\ rows' = [rows EXCEPT ![r] = @ \cup {k}] /\ DOMAIN want' = Requesters
        /\ UNCHANGED <<usage, stage, buffer, queued, backlog, calls, consumed, made, lost>>
    BY <1>4, <1>a DEF MeterObject, Fresh, Queued, StartUnit, plan, bounded, traced, jobs
  <2>2. Keys' = Keys
    BY <2>1 DEF Keys
  <2>3. UsageKinds' /\ Numbered' /\ Ending'
    BY <2>1, <1>a DEF UsageInv, UsageKinds, Numbered, Ending
  <2>4. KeysApart'
    BY <2>1, <2>2, <1>a DEF UsageInv, KeysApart
  <2>5. UsageIsAccounted'
    BY <2>1, <2>2 DEF UsageInv, UsageIsAccounted
  <2> QED BY <2>3, <2>4, <2>5 DEF UsageInv
<1>9. ASSUME NEW r \in Requesters, NEW k \in Objects, QueueWork(r, k) PROVE UsageInv'
  <2>1. /\ stage[r] = "serving" /\ k \notin Keys
        /\ \A s \in Requesters : k \notin rows[s] /\ k \notin queued[s]
        /\ queued' = [queued EXCEPT ![r] = @ \cup {k}] /\ DOMAIN want' = Requesters
        /\ UNCHANGED <<usage, stage, buffer, rows, backlog, calls, consumed, made, lost>>
    <3>1. k \notin Keys /\ k \notin Pending
      BY <1>9 DEF QueueWork
    <3>2. \A s \in Requesters : k \notin rows[s] /\ k \notin queued[s]
      BY <3>1 DEF Pending
    <3> QED BY <1>9, <1>a, <3>1, <3>2 DEF QueueWork, StartUnit, plan, bounded, traced
  <2>2. Keys' = Keys
    BY <2>1 DEF Keys
  <2>3. UsageKinds' /\ Numbered' /\ Ending'
    BY <2>1, <1>a DEF UsageInv, UsageKinds, Numbered, Ending
  <2>4. KeysApart'
    BY <2>1, <2>2, <1>a DEF UsageInv, KeysApart
  <2>5. UsageIsAccounted'
    BY <2>1, <2>2 DEF UsageInv, UsageIsAccounted
  <2> QED BY <2>3, <2>4, <2>5 DEF UsageInv
<1>5. ASSUME NEW r \in Requesters, CommitRequest(r) PROVE UsageInv'
  <2>1. /\ stage' = [stage EXCEPT ![r] = "over"] /\ DOMAIN want' = Requesters
        /\ rows' = [rows EXCEPT ![r] = {}] /\ made' = made \cup rows[r]
        /\ queued' = [queued EXCEPT ![r] = {}] /\ backlog' = (backlog \cup queued[r]) \ rows[r]
        /\ UNCHANGED <<buffer, calls, consumed, lost>>
        /\ Record(rows[r])
    BY <1>5, <1>a DEF CommitRequest, EndRequest, bounded
  <2>2. Keys' = Keys \cup rows[r] /\ rows[r] \subseteq Objects /\ rows[r] \cap Keys = {}
    BY <2>1, <1>a, RecordKeys DEF UsageInv, KeysApart
  <2>3. UsageKinds' /\ Numbered' /\ Ending'
    BY <2>1, <1>a DEF UsageInv, UsageKinds, Numbered, Ending
  <2>4. \A s \in Requesters : buffer[s] \cap rows[r] = {}
    BY <1>a
  <2>5. KeysApart'
    BY <2>1, <2>2, <2>4, <1>a DEF UsageInv, KeysApart
  <2>6. \A u, v \in usage' : u.key = v.key => u = v
    BY <2>1, <2>2, RecordKeys DEF UsageInv, UsageIsAccounted
  <2>7. lost \cap rows[r] = {}
    BY <1>a, <2>2 DEF UsageInv, UsageIsAccounted
  <2>8. made' \cap backlog' = {}
    <3>1. made \cap queued[r] = {} /\ made \cap backlog = {}
      BY DEF UsageInv, UsageIsAccounted, KeysApart
    <3> QED BY <2>1, <3>1
  <2>9. consumed' = (Keys' \ Objects) \cup lost' \cup UNION {buffer'[s] : s \in Requesters}
    BY <2>1, <2>2 DEF UsageInv, UsageIsAccounted
  <2>10. Keys' \cap Objects = made' /\ lost' \cap Keys' = {}
    BY <2>1, <2>2, <2>7 DEF UsageInv, UsageIsAccounted
  <2>11. UsageIsAccounted'
    BY <2>6, <2>8, <2>9, <2>10 DEF UsageIsAccounted
  <2> QED BY <2>3, <2>5, <2>11 DEF UsageInv
<1>6. ASSUME NEW r \in Requesters, AbortRequest(r) PROVE UsageInv'
  <2>1. /\ stage' = [stage EXCEPT ![r] = "over"] /\ DOMAIN want' = Requesters
        /\ rows' = [rows EXCEPT ![r] = {}] /\ queued' = [queued EXCEPT ![r] = {}]
        /\ UNCHANGED <<usage, buffer, backlog, calls, consumed, made, lost>>
    BY <1>6, <1>a DEF AbortRequest, EndRequest, bounded, traced
  <2> QED BY <2>1, <1>a DEF UsageInv, UsageKinds, Numbered, KeysApart, Ending, UsageIsAccounted, Keys
<1>7. ASSUME NEW r \in Requesters, Flush(r) PROVE UsageInv'
  <2>1. /\ stage' = [stage EXCEPT ![r] = "idle"] /\ stage[r] = "over"
        /\ buffer' = [buffer EXCEPT ![r] = {}]
        /\ UNCHANGED <<want, rows, queued, backlog, calls, consumed, made, lost>>
        /\ Record(buffer[r] \ Keys)
    BY <1>7 DEF Flush, bounded, traced, jobs
  <2>2. /\ buffer[r] \cap Keys = {} /\ buffer[r] \cap lost = {} /\ buffer[r] \cap Objects = {}
        /\ buffer[r] \ Keys = buffer[r]
    BY <1>a DEF UsageInv, KeysApart
  <2>3. Keys' = Keys \cup buffer[r] /\ \A u, v \in usage' : u.key = v.key => u = v
    BY <2>1, <2>2, RecordKeys DEF UsageInv, UsageIsAccounted
  <2>4. UsageKinds' /\ Numbered' /\ Ending'
    BY <2>1, <1>a DEF UsageInv, UsageKinds, Numbered, Ending
  <2>5. KeysApart'
    BY <2>1, <2>2, <2>3, <1>a DEF UsageInv, KeysApart
  <2>6. buffer[r] \cup UNION {buffer'[s] : s \in Requesters} = UNION {buffer[s] : s \in Requesters}
    BY <2>1, <1>a
  <2>7. UsageIsAccounted'
    BY <2>1, <2>2, <2>3, <2>6 DEF UsageInv, UsageIsAccounted
  <2> QED BY <2>4, <2>5, <2>7 DEF UsageInv
<1>8. ASSUME NEW r \in Requesters, FlushFails(r) \/ ProcessDies(r) PROVE UsageInv'
  <2>1. /\ stage' = [stage EXCEPT ![r] = "idle"] /\ DOMAIN want' = Requesters
        /\ rows' = [rows EXCEPT ![r] = {}] /\ buffer' = [buffer EXCEPT ![r] = {}]
        /\ lost' = lost \cup buffer[r] /\ queued' = [queued EXCEPT ![r] = {}]
        /\ UNCHANGED <<usage, backlog, calls, consumed, made>>
    BY <1>8, <1>a DEF FlushFails, ProcessDies, Fault, plan
  <2>2. Keys' = Keys
    BY <2>1 DEF Keys
  <2>3. UsageKinds' /\ Numbered' /\ Ending'
    BY <2>1, <1>a DEF UsageInv, UsageKinds, Numbered, Ending
  <2>4. KeysApart'
    BY <2>1, <2>2, <1>a DEF UsageInv, KeysApart
  <2>5. buffer[r] \cup UNION {buffer'[s] : s \in Requesters} = UNION {buffer[s] : s \in Requesters}
    BY <2>1, <1>a
  <2>6. buffer[r] \cap Keys = {}
    BY DEF UsageInv, KeysApart
  <2>7. UsageIsAccounted'
    BY <2>1, <2>2, <2>5, <2>6 DEF UsageInv, UsageIsAccounted
  <2> QED BY <2>3, <2>4, <2>7 DEF UsageInv
<1> QED BY <1>1, <1>2, <1>3, <1>4, <1>5, <1>6, <1>7, <1>8, <1>9 DEF UsageNext

\* Usage is counted once: every provider call is on record, buffered or lost
\* with a failed flush or a dead process, an object is on record exactly when
\* it was committed, and no media job that is still to come has an object.
THEOREM UsageIsCountedOnce == UsageSpec => []UsageIsAccounted
<1>1. UsageInv => UsageIsAccounted
  BY DEF UsageInv
<1> QED BY <1>1, InitUsage, NextUsage, PTL DEF UsageSpec

-----------------------------------------------------------------------------
(* The quota.                                                              *)

\* What is in flight and on record is finite; a request is admitted for units
\* only while it is served; no month has begun before its time.
Countable ==
    /\ limit \in PlanLimits /\ topLimit \in PlanLimits /\ limit <= topLimit
    /\ period \in Nat /\ overlap \in Nat /\ unasked \in Nat
    /\ \A u \in usage : u.period \in Nat /\ u.period <= period
    /\ want \in [Requesters -> 0..MostUnits]
    /\ \A r \in Requesters : stage[r] # "serving" => want[r] = 0
    /\ IsFiniteSet(usage) /\ IsFiniteSet(Pending) /\ IsFiniteSet(Admitted)

QuotaInv == Countable /\ OverrunIsOverlap

OfPeriod == {u \in usage : u.period = period}

\* The counts are numbers.
LEMMA QuotaCounts ==
    ASSUME QuotaInv
    PROVE  /\ Used \in Nat /\ Cardinality(Pending) \in Nat /\ Cardinality(Admitted) \in Nat
           /\ InFlight \in Nat /\ InFlight = Cardinality(Pending) + Cardinality(Admitted)
           /\ limit \in Nat /\ topLimit \in Nat /\ overlap \in Nat /\ unasked \in Nat
           /\ Used = Cardinality(OfPeriod) /\ IsFiniteSet(OfPeriod)
<1>1. OfPeriod \in SUBSET usage /\ IsFiniteSet(usage)
  BY DEF OfPeriod, QuotaInv, Countable
<1>2. IsFiniteSet(OfPeriod) /\ Cardinality(OfPeriod) \in Nat
  BY <1>1, FS_Subset, FS_CardinalityType
<1>3. Cardinality(Pending) \in Nat /\ Cardinality(Admitted) \in Nat
  BY FS_CardinalityType DEF QuotaInv, Countable
<1> QED BY <1>2, <1>3, UsageAssumption DEF UsageAssumption, Used, OfPeriod, InFlight, QuotaInv, Countable

\* A step that records nothing and has no more units in flight than it started
\* unasked.
LEMMA NoMoreInFlight ==
    ASSUME QuotaInv, UNCHANGED <<usage, period, limit, topLimit, overlap>>, unasked' \in Nat,
           want' \in [Requesters -> 0..MostUnits],
           \A r \in Requesters : stage'[r] # "serving" => want'[r] = 0,
           IsFiniteSet(Pending'), IsFiniteSet(Admitted'),
           Cardinality(Pending') + Cardinality(Admitted') + unasked
               <= Cardinality(Pending) + Cardinality(Admitted) + unasked'
    PROVE  QuotaInv'
<1>1. Countable'
  BY DEF QuotaInv, Countable
<1>2. Used' = Used
  BY DEF Used
<1>3. /\ Cardinality(Pending') \in Nat /\ Cardinality(Admitted') \in Nat
      /\ InFlight' = Cardinality(Pending') + Cardinality(Admitted')
  BY FS_CardinalityType DEF InFlight
<1>4. Used + InFlight <= topLimit + overlap + unasked
  BY DEF QuotaInv, OverrunIsOverlap
<1>5. Used' + InFlight' <= topLimit' + overlap' + unasked'
  BY <1>2, <1>3, <1>4, QuotaCounts
<1> QED BY <1>1, <1>5 DEF QuotaInv, OverrunIsOverlap

\* A consumed unit is one less to come.
LEMMA OneLess ==
    ASSUME QuotaInv, NEW r \in Requesters, want[r] > 0, want' = [want EXCEPT ![r] = @ - 1]
    PROVE  /\ want' \in [Requesters -> 0..MostUnits] /\ want'[r] < want[r]
           /\ \A s \in Requesters : want'[s] <= want[s]
           /\ IsFiniteSet(Admitted') /\ Cardinality(Admitted') <= Cardinality(Admitted) - 1
<1>1. want \in [Requesters -> 0..MostUnits] /\ MostUnits \in Nat /\ IsFiniteSet(Admitted)
  BY UsageAssumption DEF QuotaInv, Countable, UsageAssumption
<1>2. /\ want' \in [Requesters -> 0..MostUnits] /\ want'[r] = want[r] - 1
      /\ \A s \in Requesters : s # r => want'[s] = want[s]
  BY <1>1
<1> DEFINE unit == <<r, want[r]>>
<1>3. unit \in Admitted
  BY <1>1 DEF Admitted
<1>4. Admitted' \in SUBSET (Admitted \ {unit})
  <2> SUFFICES ASSUME NEW s \in Requesters, NEW n \in 1..MostUnits, n <= want'[s]
               PROVE  <<s, n>> \in Admitted /\ <<s, n>> # unit
    BY DEF Admitted
  <2>1. n <= want[s] /\ (s = r => n # want[r])
    BY <1>1, <1>2
  <2> QED BY <2>1 DEF Admitted
<1> HIDE DEF unit
<1>5. /\ IsFiniteSet(Admitted \ {unit})
      /\ Cardinality(Admitted \ {unit}) = Cardinality(Admitted) - 1
  BY <1>1, <1>3, FS_RemoveElement
<1>6. IsFiniteSet(Admitted') /\ Cardinality(Admitted') <= Cardinality(Admitted \ {unit})
  BY <1>4, <1>5, FS_Subset
<1> QED BY <1>1, <1>2, <1>5, <1>6, QuotaCounts

\* A request that ends has no unit to come.
LEMMA NoneToCome ==
    ASSUME QuotaInv, NEW r \in Requesters, want' = [want EXCEPT ![r] = 0]
    PROVE  /\ want' \in [Requesters -> 0..MostUnits] /\ want'[r] = 0
           /\ \A s \in Requesters : s # r => want'[s] = want[s]
           /\ IsFiniteSet(Admitted') /\ Cardinality(Admitted') <= Cardinality(Admitted)
           /\ Cardinality(Admitted') \in Nat
<1>1. want \in [Requesters -> 0..MostUnits] /\ MostUnits \in Nat /\ IsFiniteSet(Admitted)
  BY UsageAssumption DEF QuotaInv, Countable, UsageAssumption
<1>2. /\ want' \in [Requesters -> 0..MostUnits] /\ want'[r] = 0
      /\ \A s \in Requesters : s # r => want'[s] = want[s]
  BY <1>1
<1>3. Admitted' \in SUBSET Admitted
  BY <1>1, <1>2 DEF Admitted
<1> QED BY <1>1, <1>2, <1>3, FS_Subset, FS_CardinalityType

\* As many records as keys are new in the period.
LEMMA RecordCount ==
    ASSUME QuotaInv, NEW ks, IsFiniteSet(ks), Record(ks), period' = period
    PROVE  /\ IsFiniteSet(usage') /\ Used' \in Nat /\ Used' <= Used + Cardinality(ks)
           /\ \A u \in usage' : u.period \in Nat /\ u.period <= period
<1> DEFINE new == {[key |-> k, period |-> period] : k \in ks}
           f == [k \in ks |-> [key |-> k, period |-> period]]
<1>1. usage' = usage \cup new
  BY DEF Record
<1>2. /\ IsFiniteSet(new) /\ Cardinality(new) \in Nat /\ Cardinality(ks) \in Nat
      /\ Cardinality(new) <= Cardinality(ks)
  <2>1. f \in Surjection(ks, new)
    BY DEF Surjection
  <2> HIDE DEF f, new
  <2> QED BY <2>1, FS_Surjection, FS_CardinalityType
<1>3. \A u \in new : u.period = period
  OBVIOUS
<1> HIDE DEF new
<1>4. IsFiniteSet(usage') /\ \A u \in usage' : u.period \in Nat /\ u.period <= period
  <2>1. IsFiniteSet(usage) /\ IsFiniteSet(usage \cup new)
    BY <1>2, FS_Union DEF QuotaInv, Countable
  <2>2. period \in Nat /\ \A u \in usage : u.period \in Nat /\ u.period <= period
    BY DEF QuotaInv, Countable
  <2> QED BY <1>1, <1>3, <2>1, <2>2
<1>5. OfPeriod' \in SUBSET (OfPeriod \cup new)
  BY <1>1 DEF OfPeriod
<1>6. /\ IsFiniteSet(OfPeriod \cup new)
      /\ Cardinality(OfPeriod \cup new)
           = Cardinality(OfPeriod) + Cardinality(new) - Cardinality(OfPeriod \cap new)
      /\ Cardinality(OfPeriod \cap new) \in Nat
  BY <1>2, QuotaCounts, FS_Union, FS_Intersection, FS_CardinalityType
<1>7. /\ Cardinality(OfPeriod') <= Cardinality(OfPeriod \cup new)
      /\ Cardinality(OfPeriod') \in Nat /\ Cardinality(OfPeriod \cup new) \in Nat
  BY <1>5, <1>6, FS_Subset, FS_CardinalityType
<1>8. Used' = Cardinality(OfPeriod') /\ Used = Cardinality(OfPeriod) /\ Used \in Nat
  BY QuotaCounts DEF Used, OfPeriod
<1> QED BY <1>2, <1>4, <1>6, <1>7, <1>8

\* What is recorded was in flight: it is counted once, before and after.
LEMMA RecordStep ==
    ASSUME QuotaInv, NEW ks \in SUBSET Pending, Record(ks), Pending' \subseteq Pending \ ks,
           UNCHANGED <<period, limit, topLimit, overlap, unasked>>,
           want' \in [Requesters -> 0..MostUnits],
           \A r \in Requesters : stage'[r] # "serving" => want'[r] = 0,
           IsFiniteSet(Admitted'), Cardinality(Admitted') <= Cardinality(Admitted)
    PROVE  QuotaInv'
<1>1. IsFiniteSet(Pending) /\ IsFiniteSet(ks) /\ Pending \cap ks = ks
  BY FS_Subset DEF QuotaInv, Countable
<1>2. /\ IsFiniteSet(usage') /\ Used' \in Nat /\ Used' <= Used + Cardinality(ks)
      /\ \A u \in usage' : u.period \in Nat /\ u.period <= period
  BY <1>1, RecordCount
<1>3. /\ IsFiniteSet(Pending \ ks)
      /\ Cardinality(Pending \ ks) = Cardinality(Pending) - Cardinality(Pending \cap ks)
  BY <1>1, FS_Difference
<1>4. Pending' \in SUBSET (Pending \ ks)
  OBVIOUS
<1>5. IsFiniteSet(Pending') /\ Cardinality(Pending') <= Cardinality(Pending \ ks)
  BY <1>3, <1>4, FS_Subset
<1>6. /\ Cardinality(Pending') \in Nat /\ Cardinality(ks) \in Nat /\ Cardinality(Admitted') \in Nat
      /\ InFlight' = Cardinality(Pending') + Cardinality(Admitted')
  BY <1>1, <1>5, FS_CardinalityType DEF InFlight
<1>7. Countable'
  BY <1>2, <1>5 DEF QuotaInv, Countable
<1>8. Cardinality(Pending') <= Cardinality(Pending) - Cardinality(ks)
  BY <1>1, <1>3, <1>5
<1>9. Used + InFlight <= topLimit + overlap + unasked
  BY DEF QuotaInv, OverrunIsOverlap
<1>10. Used' + InFlight' <= topLimit' + overlap' + unasked'
  BY <1>2, <1>6, <1>8, <1>9, QuotaCounts
<1> QED BY <1>7, <1>10 DEF QuotaInv, OverrunIsOverlap

\* The greater of two numbers.
LEMMA GreaterOfTwo ==
    ASSUME NEW a \in Nat, NEW b \in Nat
    PROVE  Max({a, b}) \in {a, b} /\ a <= Max({a, b}) /\ b <= Max({a, b})
<1>1. \E x \in {a, b} : \A y \in {a, b} : x >= y
  <2>1. a >= b \/ b >= a
    OBVIOUS
  <2>2. a >= a /\ b >= b
    OBVIOUS
  <2> QED BY <2>1, <2>2
<1>2. Max({a, b}) \in {a, b} /\ \A y \in {a, b} : Max({a, b}) >= y
  BY <1>1 DEF Max
<1> QED BY <1>2

\* A request is admitted on what is on record, next to what is in flight.
LEMMA AdmitStep ==
    ASSUME UsageInv, QuotaInv, NEW r \in Requesters, NEW n \in 1..MostUnits, Admit(r, n)
    PROVE  QuotaInv'
<1>1. /\ stage[r] = "idle" /\ Used + n <= limit
      /\ stage' = [stage EXCEPT ![r] = "serving"] /\ want' = [want EXCEPT ![r] = n]
      /\ overlap' = Max({overlap, InFlight}) /\ unasked' = 0
      /\ UNCHANGED <<limit, topLimit, period, usage, buffer, rows, queued, backlog>>
  BY DEF Admit, Fits, plan, jobs
<1>2. /\ want \in [Requesters -> 0..MostUnits] /\ MostUnits \in Nat /\ want[r] = 0
      /\ IsFiniteSet(Admitted) /\ limit <= topLimit /\ n \in Nat
  BY <1>1, UsageAssumption DEF QuotaInv, Countable, UsageAssumption
<1>3. Pending' = Pending /\ Used' = Used
  BY <1>1 DEF Pending, Used
<1>4. Admitted' \in SUBSET (Admitted \cup ({r} \X (1..n)))
  <2> SUFFICES ASSUME NEW s \in Requesters, NEW i \in 1..MostUnits, i <= want'[s]
               PROVE  <<s, i>> \in Admitted \cup ({r} \X (1..n))
    BY DEF Admitted
  <2>1. CASE s = r
    BY <1>1, <1>2, <2>1
  <2>2. CASE s # r
    BY <1>1, <1>2, <2>2 DEF Admitted
  <2> QED BY <2>1, <2>2
<1>5. IsFiniteSet({r} \X (1..n)) /\ Cardinality({r} \X (1..n)) = n
  <2>1. IsFiniteSet({r}) /\ Cardinality({r}) = 1
    BY FS_Singleton
  <2>2. IsFiniteSet(1..n) /\ Cardinality(1..n) = n
    BY FS_Interval
  <2>3. /\ IsFiniteSet({r} \X (1..n))
        /\ Cardinality({r} \X (1..n)) = Cardinality({r}) * Cardinality(1..n)
    BY <2>1, <2>2, FS_Product
  <2> QED BY <1>2, <2>1, <2>2, <2>3
<1>6. /\ IsFiniteSet(Admitted \cup ({r} \X (1..n)))
      /\ Cardinality(Admitted \cup ({r} \X (1..n)))
           = Cardinality(Admitted) + Cardinality({r} \X (1..n)) - Cardinality(Admitted \cap ({r} \X (1..n)))
      /\ Cardinality(Admitted \cap ({r} \X (1..n))) \in Nat
  BY <1>2, <1>5, FS_Union, FS_Intersection, FS_CardinalityType
<1>7. /\ IsFiniteSet(Admitted') /\ Cardinality(Admitted') \in Nat
      /\ Cardinality(Admitted') <= Cardinality(Admitted \cup ({r} \X (1..n)))
      /\ Cardinality(Admitted \cup ({r} \X (1..n))) \in Nat
  BY <1>4, <1>6, FS_Subset, FS_CardinalityType
<1>8. Cardinality(Admitted') <= Cardinality(Admitted) + n
  BY <1>2, <1>5, <1>6, <1>7, QuotaCounts
<1>9. overlap' \in Nat /\ InFlight <= overlap'
  BY <1>1, QuotaCounts, GreaterOfTwo
<1>10. Countable'
  <2>1. want' \in [Requesters -> 0..MostUnits]
    BY <1>1, <1>2
  <2>2. \A s \in Requesters : stage'[s] # "serving" => want'[s] = 0
    <3>1. \A s \in Requesters : s # r => want'[s] = want[s]
      BY <1>1, <1>2
    <3>2. \A s \in Requesters : stage'[s] # "serving" => s # r /\ stage[s] # "serving"
      BY <1>1 DEF UsageInv, UsageKinds
    <3> QED BY <3>1, <3>2 DEF QuotaInv, Countable
  <2> QED BY <1>1, <1>3, <1>7, <1>9, <2>1, <2>2 DEF QuotaInv, Countable
<1>11. InFlight' = Cardinality(Pending) + Cardinality(Admitted')
  BY <1>3 DEF InFlight
<1>12. Used' + InFlight' <= topLimit' + overlap' + unasked'
  BY <1>1, <1>2, <1>3, <1>7, <1>8, <1>9, <1>11, QuotaCounts
<1> QED BY <1>10, <1>12 DEF QuotaInv, OverrunIsOverlap

\* The plan, the status or the month changes.
LEMMA PlanStep ==
    ASSUME QuotaInv, ReadSubscription \/ Lapse \/ NextPeriod \/ \E n \in PlanLimits : ChangePlan(n)
    PROVE  QuotaInv'
<1>1. UNCHANGED <<usage, stage, want, buffer, rows, queued, backlog, overlap, unasked>>
  BY DEF ReadSubscription, Lapse, NextPeriod, ChangePlan, jobs
<1>2. Pending' = Pending /\ Admitted' = Admitted /\ InFlight' = InFlight
  BY <1>1 DEF Pending, Admitted, InFlight
<1>3. CASE ReadSubscription \/ Lapse
  <2>1. UNCHANGED <<limit, topLimit, period>>
    BY <1>3 DEF ReadSubscription, Lapse
  <2>2. Used' = Used
    BY <1>1, <2>1 DEF Used
  <2> QED BY <1>1, <1>2, <2>1, <2>2 DEF QuotaInv, Countable, OverrunIsOverlap
<1>4. CASE NextPeriod
  <2>1. period' = period + 1 /\ UNCHANGED <<limit, topLimit>> /\ period \in Nat
    BY <1>4 DEF NextPeriod, QuotaInv, Countable
  <2>2. \A u \in usage : u.period \in Nat /\ u.period < period + 1
    BY <2>1 DEF QuotaInv, Countable
  <2>3. Used' = 0
    <3>1. {u \in usage' : u.period = period'} = {}
      BY <1>1, <2>1, <2>2
    <3> QED BY <3>1, FS_EmptySet DEF Used
  <2>4. Countable'
    BY <1>1, <1>2, <2>1, <2>2 DEF QuotaInv, Countable
  <2>5. Used + InFlight <= topLimit + overlap + unasked
    BY DEF QuotaInv, OverrunIsOverlap
  <2>6. Used' + InFlight' <= topLimit' + overlap' + unasked'
    BY <1>1, <1>2, <2>1, <2>3, <2>5, QuotaCounts
  <2> QED BY <2>4, <2>6 DEF QuotaInv, OverrunIsOverlap
<1>5. ASSUME NEW n \in PlanLimits, ChangePlan(n) PROVE QuotaInv'
  <2>1. limit' = n /\ topLimit' = Max({topLimit, n}) /\ period' = period /\ n \in Nat
    BY <1>5, UsageAssumption DEF ChangePlan, UsageAssumption
  <2>2. topLimit' \in {topLimit, n} /\ topLimit <= topLimit' /\ limit' <= topLimit'
    BY <2>1, QuotaCounts, GreaterOfTwo
  <2>3. Used' = Used
    BY <1>1, <2>1 DEF Used
  <2>4. Countable'
    BY <1>1, <1>2, <2>1, <2>2 DEF QuotaInv, Countable
  <2>5. Used + InFlight <= topLimit + overlap + unasked
    BY DEF QuotaInv, OverrunIsOverlap
  <2>6. topLimit' \in Nat
    BY <2>1, <2>2, QuotaCounts
  <2>7. Used' + InFlight' <= topLimit' + overlap' + unasked'
    BY <1>1, <1>2, <2>2, <2>3, <2>5, <2>6, QuotaCounts
  <2> QED BY <2>4, <2>7 DEF QuotaInv, OverrunIsOverlap
<1> QED BY <1>3, <1>4, <1>5

\* A key joins what is pending as a unit is started, asked for or not.
LEMMA ConsumeStep ==
    ASSUME QuotaInv, NEW r \in Requesters, NEW k, stage[r] = "serving",
           StartUnit(r), Pending' = Pending \cup {k},
           UNCHANGED <<usage, period, limit, topLimit, overlap, stage>>
    PROVE  QuotaInv'
<1>1. /\ IsFiniteSet(Pending \cup {k})
      /\ Cardinality(Pending \cup {k}) = IF k \in Pending THEN Cardinality(Pending)
                                         ELSE Cardinality(Pending) + 1
  BY FS_AddElement DEF QuotaInv, Countable
<1>2. /\ IsFiniteSet(Pending') /\ Cardinality(Pending') <= Cardinality(Pending) + 1
      /\ Cardinality(Pending') \in Nat
  BY <1>1, QuotaCounts
<1>3. want \in [Requesters -> 0..MostUnits] /\ MostUnits \in Nat /\ IsFiniteSet(Admitted)
  BY UsageAssumption DEF QuotaInv, Countable, UsageAssumption
<1>4. CASE want[r] > 0
  <2>1. want' = [want EXCEPT ![r] = @ - 1] /\ unasked' = unasked
    BY <1>3, <1>4 DEF StartUnit
  <2>2. /\ want' \in [Requesters -> 0..MostUnits] /\ \A s \in Requesters : want'[s] <= want[s]
        /\ IsFiniteSet(Admitted') /\ Cardinality(Admitted') <= Cardinality(Admitted) - 1
    BY <1>4, <2>1, OneLess
  <2>3. Cardinality(Pending') + Cardinality(Admitted') + unasked
            <= Cardinality(Pending) + Cardinality(Admitted) + unasked'
    BY <1>2, <2>1, <2>2, QuotaCounts, FS_CardinalityType
  <2>4. \A s \in Requesters : stage'[s] # "serving" => want'[s] = 0
    <3> SUFFICES ASSUME NEW s \in Requesters, stage[s] # "serving" PROVE want'[s] = 0
      OBVIOUS
    <3>1. s # r /\ want[s] = 0
      BY DEF QuotaInv, Countable
    <3> QED BY <1>3, <2>1, <3>1
  <2>5. unasked' \in Nat
    BY <2>1, QuotaCounts
  <2> QED BY <1>2, <2>2, <2>3, <2>4, <2>5, NoMoreInFlight
<1>5. CASE ~ (want[r] > 0)
  <2>1. want' = want /\ unasked' = unasked + 1
    BY <1>3, <1>5 DEF StartUnit
  <2>2. Admitted' = Admitted
    BY <2>1 DEF Admitted
  <2>3. Cardinality(Pending') + Cardinality(Admitted') + unasked
            <= Cardinality(Pending) + Cardinality(Admitted) + unasked'
    BY <1>2, <2>1, <2>2, QuotaCounts
  <2>4. \A s \in Requesters : stage'[s] # "serving" => want'[s] = 0
    BY <2>1 DEF QuotaInv, Countable
  <2>5. unasked' \in Nat
    BY <2>1, QuotaCounts
  <2> QED BY <1>2, <1>3, <2>1, <2>2, <2>3, <2>4, <2>5, NoMoreInFlight
<1> QED BY <1>4, <1>5

\* A request ends and records nothing: less is in flight.
LEMMA UsageDropStep ==
    ASSUME UsageInv, QuotaInv, NEW r \in Requesters, want' = [want EXCEPT ![r] = 0],
           Pending' \subseteq Pending, UNCHANGED <<usage, period, limit, topLimit, overlap, unasked>>,
           NEW next, stage' = [stage EXCEPT ![r] = next]
    PROVE  QuotaInv'
<1>1. /\ want' \in [Requesters -> 0..MostUnits] /\ want'[r] = 0
      /\ \A s \in Requesters : s # r => want'[s] = want[s]
      /\ IsFiniteSet(Admitted') /\ Cardinality(Admitted') <= Cardinality(Admitted)
      /\ Cardinality(Admitted') \in Nat
  BY NoneToCome
<1>2. IsFiniteSet(Pending) /\ Pending' \in SUBSET Pending
  BY DEF QuotaInv, Countable
<1>3. /\ IsFiniteSet(Pending') /\ Cardinality(Pending') <= Cardinality(Pending)
      /\ Cardinality(Pending') \in Nat
  BY <1>2, FS_Subset, FS_CardinalityType
<1>4. /\ unasked' \in Nat
      /\ Cardinality(Pending') + Cardinality(Admitted') + unasked
             <= Cardinality(Pending) + Cardinality(Admitted) + unasked'
  BY <1>1, <1>3, QuotaCounts
<1>5. \A s \in Requesters : stage'[s] # "serving" => want'[s] = 0
  <2>1. \A s \in Requesters : s # r => stage'[s] = stage[s]
    BY DEF UsageInv, UsageKinds
  <2> QED BY <1>1, <2>1 DEF QuotaInv, Countable
<1> QED BY <1>1, <1>3, <1>4, <1>5, NoMoreInFlight

\* Where a key is in flight, and where it is after a step.
LEMMA PendingKeys ==
    \A k : k \in Pending <=> k \in backlog \/ \E s \in Requesters : k \in buffer[s] \cup rows[s] \cup queued[s]
<1> SUFFICES ASSUME NEW k
             PROVE  k \in Pending <=> k \in backlog \/ \E s \in Requesters : k \in buffer[s] \cup rows[s] \cup queued[s]
  OBVIOUS
<1> DEFINE all == {buffer[s] \cup rows[s] \cup queued[s] : s \in Requesters}
<1>1. \A s \in Requesters : buffer[s] \cup rows[s] \cup queued[s] \in all
  OBVIOUS
<1>2. \A x \in all : \E s \in Requesters : x = buffer[s] \cup rows[s] \cup queued[s]
  OBVIOUS
<1>3. Pending = backlog \cup UNION all
  BY DEF Pending
<1> HIDE DEF all
<1>4. k \in UNION all <=> \E x \in all : k \in x
  BY Zenon
<1>5. ASSUME NEW x \in all, k \in x
      PROVE  \E s \in Requesters : k \in buffer[s] \cup rows[s] \cup queued[s]
  BY <1>2, <1>5
<1>6. ASSUME NEW s \in Requesters, k \in buffer[s] \cup rows[s] \cup queued[s]
      PROVE  \E x \in all : k \in x
  BY <1>1, <1>6
<1> QED BY <1>3, <1>4, <1>5, <1>6

LEMMA PendingNext ==
    \A k : k \in Pending' <=> k \in backlog' \/ \E s \in Requesters : k \in buffer'[s] \cup rows'[s] \cup queued'[s]
<1> SUFFICES ASSUME NEW k
             PROVE  k \in Pending' <=> k \in backlog' \/ \E s \in Requesters : k \in buffer'[s] \cup rows'[s] \cup queued'[s]
  OBVIOUS
<1> DEFINE all == {buffer'[s] \cup rows'[s] \cup queued'[s] : s \in Requesters}
<1>1. \A s \in Requesters : buffer'[s] \cup rows'[s] \cup queued'[s] \in all
  OBVIOUS
<1>2. \A x \in all : \E s \in Requesters : x = buffer'[s] \cup rows'[s] \cup queued'[s]
  OBVIOUS
<1>3. Pending' = backlog' \cup UNION all
  BY DEF Pending
<1> HIDE DEF all
<1>4. k \in UNION all <=> \E x \in all : k \in x
  BY Zenon
<1>5. ASSUME NEW x \in all, k \in x
      PROVE  \E s \in Requesters : k \in buffer'[s] \cup rows'[s] \cup queued'[s]
  BY <1>2, <1>5
<1>6. ASSUME NEW s \in Requesters, k \in buffer'[s] \cup rows'[s] \cup queued'[s]
      PROVE  \E x \in all : k \in x
  BY <1>1, <1>6
<1> QED BY <1>3, <1>4, <1>5, <1>6

\* A session starts a unit, or has less than before.
LEMMA OneMoreKey ==
    ASSUME NEW r \in Requesters, NEW k,
           DOMAIN buffer = Requesters, DOMAIN rows = Requesters, DOMAIN queued = Requesters,
           UNCHANGED backlog,
           \/ buffer' = [buffer EXCEPT ![r] = @ \cup {k}] /\ UNCHANGED <<rows, queued>>
           \/ rows' = [rows EXCEPT ![r] = @ \cup {k}] /\ UNCHANGED <<buffer, queued>>
           \/ queued' = [queued EXCEPT ![r] = @ \cup {k}] /\ UNCHANGED <<buffer, rows>>
    PROVE  Pending' = Pending \cup {k}
<1>1. /\ \A s \in Requesters : buffer[s] \cup rows[s] \cup queued[s] \subseteq buffer'[s] \cup rows'[s] \cup queued'[s]
      /\ \A s \in Requesters : buffer'[s] \cup rows'[s] \cup queued'[s] \subseteq buffer[s] \cup rows[s] \cup queued[s] \cup {k}
      /\ k \in buffer'[r] \cup rows'[r] \cup queued'[r]
  <2>1. CASE buffer' = [buffer EXCEPT ![r] = @ \cup {k}] /\ UNCHANGED <<rows, queued>>
    BY <2>1
  <2>2. CASE rows' = [rows EXCEPT ![r] = @ \cup {k}] /\ UNCHANGED <<buffer, queued>>
    BY <2>2
  <2>3. CASE queued' = [queued EXCEPT ![r] = @ \cup {k}] /\ UNCHANGED <<buffer, rows>>
    BY <2>3
  <2> QED BY <2>1, <2>2, <2>3
<1>2. ASSUME NEW x, x \in Pending' PROVE x \in Pending \/ x = k
  <2>1. CASE x \in backlog'
    BY <2>1, PendingKeys
  <2>2. ASSUME NEW s \in Requesters, x \in buffer'[s] \cup rows'[s] \cup queued'[s]
        PROVE  x \in Pending \/ x = k
    <3>1. x \in buffer[s] \cup rows[s] \cup queued[s] \/ x = k
      BY <1>1, <2>2
    <3> QED BY <3>1, PendingKeys
  <2> QED BY <1>2, <2>1, <2>2, PendingNext
<1>3. ASSUME NEW x, x \in Pending \/ x = k PROVE x \in Pending'
  <2>1. CASE x = k
    BY <1>1, <2>1, PendingNext
  <2>2. CASE x \in backlog
    BY <2>2, PendingNext
  <2>3. ASSUME NEW s \in Requesters, x \in buffer[s] \cup rows[s] \cup queued[s] PROVE x \in Pending'
    BY <1>1, <2>3, PendingNext
  <2> QED BY <1>3, <2>1, <2>2, <2>3, PendingKeys
<1> QED BY <1>2, <1>3

LEMMA FewerKeys ==
    ASSUME NEW ks, \A k \in backlog' : k \in Pending \ ks,
           \A s \in Requesters : \A k \in buffer'[s] \cup rows'[s] \cup queued'[s] : k \in Pending \ ks
    PROVE  Pending' \subseteq Pending \ ks
  BY PendingNext

\* Only the request that moves has other keys than before.
LEMMA PendingParts ==
    ASSUME UsageInv, NEW r \in Requesters
    PROVE  /\ buffer[r] \subseteq Pending /\ rows[r] \subseteq Pending
           /\ backlog \cap buffer[r] = {}
           /\ \A s \in Requesters : /\ buffer[s] \cap rows[r] = {} /\ queued[s] \cap rows[r] = {}
                                    /\ queued[s] \cap buffer[r] = {}
                                    /\ s # r => buffer[s] \cap buffer[r] = {} /\ rows[s] \cap rows[r] = {}
<1>1. /\ buffer[r] \subseteq Nat /\ rows[r] \subseteq Objects /\ Objects \cap Nat = {}
      /\ backlog \subseteq Objects /\ \A s \in Requesters : queued[s] \subseteq Objects
  BY UsageAssumption DEF UsageInv, UsageKinds, UsageAssumption
<1>2. \A s \in Requesters : buffer[s] \subseteq Nat
  BY DEF UsageInv, UsageKinds
<1>3. buffer[r] \subseteq Pending /\ rows[r] \subseteq Pending
  BY DEF Pending
<1> QED BY <1>1, <1>2, <1>3 DEF UsageInv, KeysApart

\* Every step keeps the quota.
LEMMA QuotaStep == UsageInv /\ QuotaInv /\ [UsageNext]_usageVars => QuotaInv'
<1> SUFFICES ASSUME UsageInv, QuotaInv, [UsageNext]_usageVars PROVE QuotaInv'
  OBVIOUS
<1>a. /\ buffer \in [Requesters -> SUBSET Nat] /\ rows \in [Requesters -> SUBSET Objects]
      /\ queued \in [Requesters -> SUBSET Objects]
      /\ DOMAIN stage = Requesters
  BY DEF UsageInv, UsageKinds
<1>1. CASE ReadSubscription \/ Lapse \/ NextPeriod \/ \E n \in PlanLimits : ChangePlan(n)
  BY <1>1, PlanStep
<1>2. CASE UNCHANGED usageVars \/ \E n \in 1..MostUnits : Refuse(n)
  <2>1. UNCHANGED <<usage, period, limit, topLimit, overlap, unasked, stage, want, buffer, rows,
                   queued, backlog>>
    BY <1>2 DEF usageVars, Refuse, plan, jobs
  <2> QED BY <2>1 DEF QuotaInv, Countable, OverrunIsOverlap, Used, InFlight, Pending, Admitted
<1>3. ASSUME NEW r \in Requesters, NEW n \in 1..MostUnits, Admit(r, n) PROVE QuotaInv'
  BY <1>3, AdmitStep
<1>4. ASSUME NEW r \in Requesters, CallProvider(r) PROVE QuotaInv'
  <2>1. /\ stage[r] = "serving" /\ StartUnit(r)
        /\ buffer' = [buffer EXCEPT ![r] = @ \cup {calls}]
        /\ UNCHANGED <<usage, period, limit, topLimit, overlap, stage, rows, queued, backlog>>
    BY <1>4 DEF CallProvider, plan, jobs
  <2>2. Pending' = Pending \cup {calls}
    BY <1>a, <2>1, OneMoreKey
  <2> QED BY <2>1, <2>2, ConsumeStep
<1>5. ASSUME NEW r \in Requesters, NEW k \in Objects, MeterObject(r, k) PROVE QuotaInv'
  <2>1. /\ stage[r] = "serving" /\ rows' = [rows EXCEPT ![r] = @ \cup {k}]
        /\ IF k \in backlog THEN UNCHANGED <<want, unasked>> ELSE StartUnit(r)
        /\ UNCHANGED <<usage, period, limit, topLimit, overlap, stage, buffer, queued, backlog>>
    BY <1>5 DEF MeterObject, plan, jobs
  <2>2. Pending' = Pending \cup {k}
    BY <1>a, <2>1, OneMoreKey
  <2>3. CASE k \in backlog
    <3>1. Pending' = Pending /\ Admitted' = Admitted
      BY <2>1, <2>2, <2>3, PendingKeys DEF Admitted
    <3>2. Used' = Used /\ InFlight' = InFlight
      BY <2>1, <3>1 DEF Used, InFlight
    <3> QED BY <2>1, <2>3, <3>1, <3>2 DEF QuotaInv, Countable, OverrunIsOverlap
  <2>4. CASE k \notin backlog
    BY <2>1, <2>2, <2>4, ConsumeStep
  <2> QED BY <2>3, <2>4
<1>10. ASSUME NEW r \in Requesters, NEW k \in Objects, QueueWork(r, k) PROVE QuotaInv'
  <2>1. /\ stage[r] = "serving" /\ queued' = [queued EXCEPT ![r] = @ \cup {k}] /\ StartUnit(r)
        /\ UNCHANGED <<usage, period, limit, topLimit, overlap, stage, buffer, rows, backlog>>
    BY <1>10 DEF QueueWork, plan
  <2>2. Pending' = Pending \cup {k}
    BY <1>a, <2>1, OneMoreKey
  <2> QED BY <2>1, <2>2, ConsumeStep
<1>11. ASSUME NEW k \in Objects, DropWork(k) PROVE QuotaInv'
  <2>1. /\ backlog' = backlog \ {k}
        /\ UNCHANGED <<usage, period, limit, topLimit, overlap, unasked, stage, want, buffer, rows, queued>>
    BY <1>11 DEF DropWork, plan
  <2>2. Pending' \in SUBSET Pending /\ Admitted' = Admitted /\ IsFiniteSet(Pending)
    <3>1. Admitted' = Admitted /\ IsFiniteSet(Pending)
      BY <2>1 DEF Admitted, QuotaInv, Countable
    <3>2. Pending' \subseteq Pending
      BY <2>1, PendingKeys, PendingNext
    <3> QED BY <3>1, <3>2
  <2>3. /\ IsFiniteSet(Pending') /\ Cardinality(Pending') <= Cardinality(Pending)
        /\ Cardinality(Pending') \in Nat
    BY <2>2, FS_Subset, FS_CardinalityType
  <2>4. /\ unasked' \in Nat
        /\ Cardinality(Pending') + Cardinality(Admitted') + unasked
               <= Cardinality(Pending) + Cardinality(Admitted) + unasked'
    BY <2>1, <2>2, <2>3, QuotaCounts
  <2>5. /\ want' \in [Requesters -> 0..MostUnits] /\ IsFiniteSet(Admitted')
        /\ \A r \in Requesters : stage'[r] # "serving" => want'[r] = 0
    BY <2>1, <2>2 DEF QuotaInv, Countable
  <2> QED BY <2>1, <2>3, <2>4, <2>5, NoMoreInFlight
<1>12. ASSUME NEW r \in Requesters, BeginUse(r) PROVE QuotaInv'
  <2>1. /\ stage[r] = "idle" /\ stage' = [stage EXCEPT ![r] = "serving"]
        /\ UNCHANGED <<usage, period, limit, topLimit, overlap, unasked, want, buffer, rows, queued, backlog>>
    BY <1>12 DEF BeginUse, plan, jobs
  <2>2. Pending' = Pending /\ Admitted' = Admitted
    BY <2>1 DEF Pending, Admitted
  <2>3. Used' = Used /\ InFlight' = InFlight
    BY <2>1, <2>2 DEF Used, InFlight
  <2>4. \A s \in Requesters : stage'[s] # "serving" => want'[s] = 0
    BY <1>a, <2>1 DEF QuotaInv, Countable
  <2> QED BY <2>1, <2>2, <2>3, <2>4 DEF QuotaInv, Countable, OverrunIsOverlap
<1>6. ASSUME NEW r \in Requesters, CommitRequest(r) PROVE QuotaInv'
  <2>1. /\ stage' = [stage EXCEPT ![r] = "over"] /\ want' = [want EXCEPT ![r] = 0]
        /\ rows' = [rows EXCEPT ![r] = {}] /\ Record(rows[r])
        /\ queued' = [queued EXCEPT ![r] = {}] /\ backlog' = (backlog \cup queued[r]) \ rows[r]
        /\ UNCHANGED <<buffer, period, limit, topLimit, overlap, unasked>>
    BY <1>6 DEF CommitRequest, EndRequest, plan, Record
  <2>2. rows[r] \in SUBSET Pending /\ Pending' \subseteq Pending \ rows[r]
    <3>1. /\ rows[r] \in SUBSET Pending
          /\ \A s \in Requesters : /\ buffer[s] \cap rows[r] = {} /\ queued[s] \cap rows[r] = {}
                                   /\ s # r => rows[s] \cap rows[r] = {}
      BY PendingParts
    <3>2. \A k \in backlog' : k \in Pending \ rows[r]
      <4>1. \A k \in queued[r] : k \in Pending
        BY PendingKeys
      <4> QED BY <2>1, <4>1, PendingKeys
    <3>3. ASSUME NEW s \in Requesters, NEW k \in buffer'[s] \cup rows'[s] \cup queued'[s]
          PROVE  k \in Pending \ rows[r]
      <4>1. k \in buffer[s] \cup rows[s] \cup queued[s] /\ k \notin rows[r]
        BY <1>a, <2>1, <3>1, <3>3
      <4> QED BY <4>1, PendingKeys
    <3> QED BY <3>1, <3>2, <3>3, FewerKeys
  <2>3. /\ want' \in [Requesters -> 0..MostUnits] /\ want'[r] = 0
        /\ \A s \in Requesters : s # r => want'[s] = want[s]
        /\ IsFiniteSet(Admitted') /\ Cardinality(Admitted') <= Cardinality(Admitted)
    BY <2>1, NoneToCome
  <2>4. \A s \in Requesters : stage'[s] # "serving" => want'[s] = 0
    BY <1>a, <2>1, <2>3 DEF QuotaInv, Countable
  <2> QED BY <2>1, <2>2, <2>3, <2>4, RecordStep
<1>7. ASSUME NEW r \in Requesters, AbortRequest(r) PROVE QuotaInv'
  <2>1. /\ stage' = [stage EXCEPT ![r] = "over"] /\ want' = [want EXCEPT ![r] = 0]
        /\ rows' = [rows EXCEPT ![r] = {}] /\ queued' = [queued EXCEPT ![r] = {}]
        /\ UNCHANGED <<usage, buffer, backlog, period, limit, topLimit, overlap, unasked>>
    BY <1>7 DEF AbortRequest, EndRequest, plan
  <2>2. Pending' \subseteq Pending
    <3>1. \A s \in Requesters : buffer'[s] \cup rows'[s] \cup queued'[s] \subseteq buffer[s] \cup rows[s] \cup queued[s]
      BY <1>a, <2>1
    <3> QED BY <2>1, <3>1, PendingKeys, PendingNext
  <2> QED BY <2>1, <2>2, UsageDropStep
<1>8. ASSUME NEW r \in Requesters, Flush(r) PROVE QuotaInv'
  <2>1. /\ stage' = [stage EXCEPT ![r] = "idle"] /\ buffer' = [buffer EXCEPT ![r] = {}]
        /\ stage[r] = "over" /\ Record(buffer[r] \ Keys)
        /\ UNCHANGED <<want, rows, queued, backlog, period, limit, topLimit, overlap, unasked>>
    BY <1>8 DEF Flush, plan, jobs
  <2>2. buffer[r] \ Keys = buffer[r]
    BY DEF UsageInv, KeysApart
  <2>3. buffer[r] \in SUBSET Pending /\ Record(buffer[r])
    BY <2>1, <2>2, PendingParts
  <2>4. Pending' \subseteq Pending \ buffer[r]
    <3>1. \A s \in Requesters : rows[s] \cap buffer[r] = {} /\ queued[s] \cap buffer[r] = {}
      BY PendingParts
    <3>2. /\ backlog \cap buffer[r] = {}
          /\ \A s \in Requesters : s # r => buffer[s] \cap buffer[r] = {}
      BY PendingParts
    <3>3. \A k \in backlog' : k \in Pending \ buffer[r]
      BY <2>1, <3>2, PendingKeys
    <3>4. ASSUME NEW s \in Requesters, NEW k \in buffer'[s] \cup rows'[s] \cup queued'[s]
          PROVE  k \in Pending \ buffer[r]
      <4>1. k \in buffer[s] \cup rows[s] \cup queued[s] /\ k \notin buffer[r]
        BY <1>a, <2>1, <3>1, <3>2, <3>4
      <4> QED BY <4>1, PendingKeys
    <3> QED BY <3>3, <3>4, FewerKeys
  <2>5. want \in [Requesters -> 0..MostUnits] /\ IsFiniteSet(Admitted)
    BY DEF QuotaInv, Countable
  <2>6. Admitted' = Admitted /\ Cardinality(Admitted) <= Cardinality(Admitted)
    BY <2>1, QuotaCounts DEF Admitted
  <2>7. \A s \in Requesters : stage'[s] # "serving" => want'[s] = 0
    BY <1>a, <2>1, QuotaCounts DEF QuotaInv, Countable
  <2> QED BY <2>1, <2>3, <2>4, <2>5, <2>6, <2>7, RecordStep
<1>9. ASSUME NEW r \in Requesters, FlushFails(r) \/ ProcessDies(r) PROVE QuotaInv'
  <2>1. /\ stage' = [stage EXCEPT ![r] = "idle"] /\ want' = [want EXCEPT ![r] = 0]
        /\ rows' = [rows EXCEPT ![r] = {}] /\ buffer' = [buffer EXCEPT ![r] = {}]
        /\ queued' = [queued EXCEPT ![r] = {}]
        /\ UNCHANGED <<usage, backlog, period, limit, topLimit, overlap, unasked>>
    BY <1>9 DEF FlushFails, ProcessDies, Fault, plan
  <2>2. Pending' \subseteq Pending
    <3>1. \A s \in Requesters : buffer'[s] \cup rows'[s] \cup queued'[s] \subseteq buffer[s] \cup rows[s] \cup queued[s]
      BY <1>a, <2>1
    <3> QED BY <2>1, <3>1, PendingKeys, PendingNext
  <2> QED BY <2>1, <2>2, UsageDropStep
<1> QED BY <1>1, <1>2, <1>3, <1>4, <1>5, <1>6, <1>7, <1>8, <1>9, <1>10, <1>11, <1>12
         DEF UsageNext

\* Nothing is used or in flight initially.
LEMMA InitQuota == UsageInit => QuotaInv
<1> SUFFICES ASSUME UsageInit PROVE QuotaInv
  OBVIOUS
<1>1. Pending = {} /\ Admitted = {} /\ usage = {}
  BY UsageAssumption DEF UsageInit, Pending, Admitted, UsageAssumption
<1>2. IsFiniteSet({}) /\ Cardinality({}) = 0
  BY FS_EmptySet
<1>3. Used = 0 /\ InFlight = 0
  <2>1. {u \in usage : u.period = period} = {}
    BY <1>1
  <2> QED BY <1>1, <1>2, <2>1 DEF Used, InFlight
<1>4. limit \in Nat /\ limit \in PlanLimits /\ topLimit = limit /\ overlap = 0 /\ period = 0
      /\ unasked = 0
  BY UsageAssumption DEF UsageInit, UsageAssumption
<1>5. want \in [Requesters -> 0..MostUnits] /\ \A r \in Requesters : want[r] = 0
  BY UsageAssumption DEF UsageInit, UsageAssumption
<1>6. Countable
  BY <1>1, <1>2, <1>4, <1>5 DEF Countable
<1> QED BY <1>3, <1>4, <1>6 DEF QuotaInv, OverrunIsOverlap

\* require_quota checks before the work, once, and the work is metered after it,
\* in whatever session finishes it: a period exceeds the limit in force at most
\* by the units that were in flight or queued when a request was admitted, and
\* the units started since the last admission without being asked for.
THEOREM OverrunIsBounded == UsageSpec => []OverrunIsOverlap
<1>1. QuotaInv => OverrunIsOverlap
  BY DEF QuotaInv
<1> QED BY <1>1, InitUsage, NextUsage, InitQuota, QuotaStep, PTL DEF UsageSpec

\* A new usage record is one of the current month.
LEMMA RecordTypes ==
    ASSUME UsageTypeOK, NEW ks \in SUBSET (Objects \cup Nat), Record(ks)
    PROVE  usage' \subseteq [key : Objects \cup Nat, period : 0..MaxPeriods]
<1>1. \A k \in ks : [key |-> k, period |-> period] \in [key : Objects \cup Nat, period : 0..MaxPeriods]
  BY DEF UsageTypeOK
<1> QED BY <1>1 DEF UsageTypeOK, Record

\* A unit is started.
LEMMA StartTypes ==
    ASSUME UsageTypeOK, QuotaInv, NEW r \in Requesters, StartUnit(r)
    PROVE  want' \in [Requesters -> 0..MostUnits] /\ unasked' \in Nat
<1>1. want \in [Requesters -> 0..MostUnits] /\ unasked \in Nat /\ MostUnits \in Nat
  BY QuotaCounts, UsageAssumption DEF UsageTypeOK, UsageAssumption
<1>2. (IF want[r] > 0 THEN want[r] - 1 ELSE want[r]) \in 0..MostUnits
  BY <1>1
<1> QED BY <1>1, <1>2 DEF StartUnit

LEMMA UsageTypesStep ==
    UsageTypeOK /\ UsageInv /\ QuotaInv /\ [UsageNext]_usageVars => UsageTypeOK'
<1> SUFFICES ASSUME UsageTypeOK, UsageInv, QuotaInv, [UsageNext]_usageVars PROVE UsageTypeOK'
  OBVIOUS
<1>a. /\ MaxCalls \in Nat /\ MaxPeriods \in Nat /\ MaxUsageFaults \in Nat /\ MostUnits \in Nat
      /\ PlanLimits \subseteq Nat /\ overlap \in Nat /\ topLimit \in Nat
  BY UsageAssumption, QuotaCounts DEF UsageAssumption
<1>b. /\ buffer \in [Requesters -> SUBSET Nat] /\ rows \in [Requesters -> SUBSET Objects]
      /\ queued \in [Requesters -> SUBSET Objects] /\ backlog \subseteq Objects /\ unasked \in Nat
  BY QuotaCounts DEF UsageInv, UsageKinds
<1>1. CASE UNCHANGED usageVars
  BY <1>1 DEF usageVars, UsageTypeOK
<1>2. CASE \/ ReadSubscription \/ Lapse \/ NextPeriod
           \/ \E n \in 1..MostUnits : Refuse(n)
  <2>1. CASE ReadSubscription
    BY <2>1 DEF ReadSubscription, EffectiveStatus, Expired, bounded, traced, jobs, UsageTypeOK
  <2>2. CASE Lapse
    BY <2>2 DEF Lapse, bounded, traced, jobs, UsageTypeOK
  <2>3. CASE NextPeriod
    BY <1>a, <2>3 DEF NextPeriod, bounded, traced, jobs, UsageTypeOK
  <2>4. ASSUME NEW n \in 1..MostUnits, Refuse(n) PROVE UsageTypeOK'
    BY <2>4 DEF Refuse, plan, traced, jobs, UsageTypeOK
  <2> QED BY <1>2, <2>1, <2>2, <2>3, <2>4
<1>3. ASSUME NEW n \in PlanLimits, ChangePlan(n) PROVE UsageTypeOK'
  <2>1. /\ limit' = n /\ topLimit' = Max({topLimit, n}) /\ n \in Nat
        /\ UNCHANGED <<status, lapsed, period, usage, stage, want, queued, backlog, calls, faults,
                     overlap, unasked>>
    BY <1>a, <1>3 DEF ChangePlan, bounded, jobs
  <2>2. topLimit' \in {topLimit, n}
    BY <1>a, <2>1, GreaterOfTwo
  <2> QED BY <2>1, <2>2 DEF UsageTypeOK
<1>4. ASSUME NEW r \in Requesters, NEW n \in 1..MostUnits, Admit(r, n) PROVE UsageTypeOK'
  <2>1. /\ stage' = [stage EXCEPT ![r] = "serving"] /\ want' = [want EXCEPT ![r] = n]
        /\ overlap' = Max({overlap, InFlight}) /\ unasked' = 0
        /\ UNCHANGED <<limit, topLimit, status, lapsed, period, usage, queued, backlog, calls, faults>>
    BY <1>4 DEF Admit, plan, jobs
  <2>2. overlap' \in {overlap, InFlight} /\ InFlight \in Nat
    BY <1>a, <2>1, QuotaCounts, GreaterOfTwo
  <2>3. n \in 0..MostUnits
    BY <1>a
  <2> QED BY <1>a, <2>1, <2>2, <2>3 DEF UsageTypeOK
<1>5. ASSUME NEW r \in Requesters, CallProvider(r) PROVE UsageTypeOK'
  <2>1. /\ calls < MaxCalls /\ calls' = calls + 1 /\ StartUnit(r)
        /\ UNCHANGED <<limit, topLimit, status, lapsed, period, usage, stage, queued, backlog,
                       faults, overlap>>
    BY <1>5 DEF CallProvider, plan, jobs
  <2>2. calls' \in 0..MaxCalls
    BY <1>a, <2>1 DEF UsageTypeOK
  <2> QED BY <2>1, <2>2, StartTypes DEF UsageTypeOK
<1>6. ASSUME NEW r \in Requesters, NEW k \in Objects, MeterObject(r, k) PROVE UsageTypeOK'
  <2>1. /\ StartUnit(r) \/ UNCHANGED <<want, unasked>>
        /\ UNCHANGED <<limit, topLimit, status, lapsed, period, usage, stage, queued, backlog,
                       calls, faults, overlap>>
    BY <1>6 DEF MeterObject, plan, bounded, jobs
  <2> QED BY <1>b, <2>1, StartTypes DEF UsageTypeOK
<1>10. ASSUME NEW r \in Requesters, NEW k \in Objects, QueueWork(r, k) PROVE UsageTypeOK'
  <2>1. /\ StartUnit(r) /\ queued' = [queued EXCEPT ![r] = @ \cup {k}]
        /\ UNCHANGED <<limit, topLimit, status, lapsed, period, usage, stage, backlog,
                       calls, faults, overlap>>
    BY <1>10 DEF QueueWork, plan, bounded
  <2>2. queued' \in [Requesters -> SUBSET Objects]
    BY <1>b, <2>1
  <2> QED BY <2>1, <2>2, StartTypes DEF UsageTypeOK
<1>11. CASE (\E k \in Objects : DropWork(k)) \/ (\E r \in Requesters : BeginUse(r))
  <2>1. /\ backlog' \subseteq backlog
        /\ stage' \in [Requesters -> {"idle", "serving", "over"}]
        /\ UNCHANGED <<limit, topLimit, status, lapsed, period, usage, want, queued,
                       calls, faults, overlap, unasked>>
    BY <1>11 DEF DropWork, BeginUse, plan, bounded, jobs, UsageTypeOK
  <2> QED BY <1>b, <2>1 DEF UsageTypeOK
<1>7. ASSUME NEW r \in Requesters, CommitRequest(r) \/ AbortRequest(r) PROVE UsageTypeOK'
  <2>1. /\ stage' = [stage EXCEPT ![r] = "over"] /\ want' = [want EXCEPT ![r] = 0]
        /\ Record(rows[r]) \/ usage' = usage
        /\ queued' = [queued EXCEPT ![r] = {}] /\ backlog' \subseteq backlog \cup queued[r]
        /\ UNCHANGED <<limit, topLimit, status, lapsed, period, calls, faults, overlap, unasked>>
    BY <1>7 DEF CommitRequest, AbortRequest, EndRequest, plan, bounded
  <2>2. rows[r] \in SUBSET (Objects \cup Nat)
    BY <1>b
  <2>3. usage' \subseteq [key : Objects \cup Nat, period : 0..MaxPeriods]
    <3>1. CASE Record(rows[r])
      BY <2>2, <3>1, RecordTypes
    <3>2. CASE usage' = usage
      BY <3>2 DEF UsageTypeOK
    <3> QED BY <2>1, <3>1, <3>2
  <2>4. backlog' \subseteq Objects /\ queued' \in [Requesters -> SUBSET Objects]
    BY <1>b, <2>1
  <2>5. want' \in [Requesters -> 0..MostUnits] /\ stage' \in [Requesters -> {"idle", "serving", "over"}]
    BY <1>a, <2>1 DEF UsageTypeOK
  <2> QED BY <1>b, <2>1, <2>3, <2>4, <2>5 DEF UsageTypeOK
<1>8. ASSUME NEW r \in Requesters, Flush(r) PROVE UsageTypeOK'
  <2>1. /\ stage' = [stage EXCEPT ![r] = "idle"] /\ Record(buffer[r] \ Keys)
        /\ UNCHANGED <<limit, topLimit, status, lapsed, period, want, queued, backlog, calls, faults,
                       overlap, unasked>>
    BY <1>8 DEF Flush, plan, bounded, jobs
  <2>2. buffer[r] \ Keys \in SUBSET (Objects \cup Nat)
    BY <1>b
  <2>3. usage' \subseteq [key : Objects \cup Nat, period : 0..MaxPeriods]
    BY <2>1, <2>2, RecordTypes
  <2> QED BY <2>1, <2>3 DEF UsageTypeOK
<1>9. ASSUME NEW r \in Requesters, FlushFails(r) \/ ProcessDies(r) PROVE UsageTypeOK'
  <2>1. /\ stage' = [stage EXCEPT ![r] = "idle"] /\ want' = [want EXCEPT ![r] = 0]
        /\ faults < MaxUsageFaults /\ faults' = faults + 1 /\ queued' = [queued EXCEPT ![r] = {}]
        /\ UNCHANGED <<limit, topLimit, status, lapsed, period, usage, backlog, calls, overlap, unasked>>
    BY <1>9 DEF FlushFails, ProcessDies, Fault, plan
  <2>2. faults' \in 0..MaxUsageFaults /\ 0 \in 0..MostUnits
    BY <1>a, <2>1 DEF UsageTypeOK
  <2> QED BY <2>1, <2>2 DEF UsageTypeOK
<1> QED BY <1>1, <1>2, <1>3, <1>4, <1>5, <1>6, <1>7, <1>8, <1>9, <1>10, <1>11
         DEF UsageNext

\* Whatever is recorded, flushed or lost: usage records are of months that have
\* begun, and media jobs are of objects.
THEOREM UsageTypes == UsageSpec => []UsageTypeOK
<1>1. UsageInit => UsageTypeOK
  <2>1. SUFFICES ASSUME UsageInit PROVE UsageTypeOK
    OBVIOUS
  <2>2. /\ 0 \in 0..MaxPeriods /\ 0 \in 0..MaxCalls /\ 0 \in 0..MaxUsageFaults /\ 0 \in 0..MostUnits
    BY UsageAssumption DEF UsageAssumption
  <2>3. /\ stage \in [Requesters -> {"idle", "serving", "over"}]
        /\ want \in [Requesters -> 0..MostUnits] /\ usage = {}
    BY <2>1, <2>2 DEF UsageInit
  <2> QED BY <2>1, <2>2, <2>3 DEF UsageInit, UsageTypeOK
<1> QED BY <1>1, InitUsage, NextUsage, InitQuota, QuotaStep, UsageTypesStep, PTL DEF UsageSpec

-----------------------------------------------------------------------------
(***************************************************************************)
(* Rate limits: windows, and the hits that are counted in them.            *)
(***************************************************************************)
\* A window's name is a number, and a later moment's window is no earlier one.
LEMMA SlotOf ==
    ASSUME NEW t \in Nat
    PROVE  /\ Slot(t) \in Nat
           /\ Window * Slot(t) <= t /\ t < Window * Slot(t) + Window
<1>1. Window \in Nat /\ Window > 0
  BY LimitAssumption DEF LimitAssumption
<1> QED BY <1>1 DEF Slot

LEMMA SlotsGrow ==
    ASSUME NEW t \in Nat, NEW u \in Nat, t <= u
    PROVE  Slot(t) <= Slot(u)
<1>1. Window \in Nat /\ Window > 0
  BY LimitAssumption DEF LimitAssumption
<1>2. /\ Slot(t) \in Nat /\ Window * Slot(t) <= t
      /\ Slot(u) \in Nat /\ u < Window * Slot(u) + Window
  BY SlotOf
<1>3. Window * Slot(t) < Window * (Slot(u) + 1)
  BY <1>1, <1>2
<1>4. \A a, b \in Nat : Window * a < Window * b => a < b
  BY <1>1
<1>5. Slot(t) < Slot(u) + 1
  BY <1>2, <1>3, <1>4
<1> QED BY <1>2, <1>5

\* A period as long as the window meets two fixed windows.
LEMMA TwoSlots ==
    ASSUME NEW t \in Nat, NEW u \in t .. (t + Window)
    PROVE  Slot(u) \in {Slot(t), Slot(t + Window)}
<1>1. Window \in Nat /\ Window > 0
  BY LimitAssumption DEF LimitAssumption
<1>2. u \in Nat /\ t + Window \in Nat /\ t <= u /\ u <= t + Window
  BY <1>1
<1>3. Slot(t) <= Slot(u) /\ Slot(u) <= Slot(t + Window)
  BY <1>2, SlotsGrow
<1>4. /\ Slot(t) \in Nat /\ Slot(u) \in Nat /\ Slot(t + Window) \in Nat
      /\ t < Window * Slot(t) + Window /\ Window * Slot(t + Window) <= t + Window
  BY <1>2, SlotOf
<1>5. Window * Slot(t + Window) < Window * (Slot(t) + 2)
  BY <1>1, <1>4
<1>6. \A a, b \in Nat : Window * a < Window * b => a < b
  BY <1>1
<1>7. Slot(t + Window) < Slot(t) + 2
  BY <1>4, <1>5, <1>6
<1> QED BY <1>3, <1>4, <1>7

-----------------------------------------------------------------------------
HitCounts == [Moments -> Nat]

\* All hits that f counts.
AllHits(f) == HitsIn(f, 0, MaxMoment)

\* A hit is a moment and a number.
LEMMA HitIs ==
    ASSUME NEW f \in HitCounts, NEW a \in Int, NEW b \in Int, NEW h
    PROVE  h \in HitsIn(f, a, b) <=>
               \E t \in Moments : a <= t /\ t <= b /\ \E n \in 1 .. f[t] : h = <<t, n>>
  BY DEF HitsIn, HitCounts, Moments

LEMMA HitParts ==
    ASSUME NEW f \in HitCounts, NEW a \in Int, NEW b \in Int, NEW h \in HitsIn(f, a, b)
    PROVE  /\ h[1] \in Moments /\ a <= h[1] /\ h[1] <= b
           /\ h[2] \in 1 .. f[h[1]] /\ h = <<h[1], h[2]>>
<1>1. PICK t \in Moments : a <= t /\ t <= b /\ \E n \in 1 .. f[t] : h = <<t, n>>
  BY HitIs
<1>2. PICK n \in 1 .. f[t] : h = <<t, n>>
  BY <1>1
<1> QED BY <1>1, <1>2

\* A period holds hits of f, those of a shorter period among them.
LEMMA HitsWithin ==
    ASSUME NEW f \in HitCounts, NEW a \in Int, NEW b \in Int, NEW c \in Int, NEW d \in Int
    PROVE  /\ HitsIn(f, a, b) \subseteq AllHits(f)
           /\ (\A h \in HitsIn(f, a, b) : c <= h[1] /\ h[1] <= d) => HitsIn(f, a, b) \subseteq HitsIn(f, c, d)
<1>1. ASSUME NEW h \in HitsIn(f, a, b), NEW x \in Int, NEW y \in Int, x <= h[1], h[1] <= y
      PROVE  h \in HitsIn(f, x, y)
  BY <1>1, HitParts, HitIs
<1>2. 0 \in Int /\ MaxMoment \in Int /\ \A t \in Moments : 0 <= t /\ t <= MaxMoment
  BY LimitAssumption DEF LimitAssumption, Moments
<1>3. HitsIn(f, a, b) \subseteq AllHits(f)
  <2> SUFFICES ASSUME NEW h \in HitsIn(f, a, b) PROVE h \in HitsIn(f, 0, MaxMoment)
    BY DEF AllHits
  <2>1. h[1] \in Moments
    BY HitParts
  <2> QED BY <1>1, <1>2, <2>1
<1> QED BY <1>1, <1>3

\* One more hit at a moment.
LEMMA OneMoreHit ==
    ASSUME NEW f \in HitCounts, NEW m \in Moments, NEW g \in HitCounts,
           g[m] = f[m] + 1, \A t \in Moments : t # m => g[t] = f[t]
    PROVE  /\ <<m, f[m] + 1>> \notin AllHits(f)
           /\ \A a, b \in Int :
                HitsIn(g, a, b) = HitsIn(f, a, b) \cup IF a <= m /\ m <= b THEN {<<m, f[m] + 1>>} ELSE {}
<1>1. f[m] \in Nat /\ g[m] = f[m] + 1 /\ \A t \in Moments : t # m => g[t] = f[t]
  BY DEF HitCounts
<1>2. ASSUME <<m, f[m] + 1>> \in AllHits(f) PROVE FALSE
  <2>1. 0 \in Int /\ MaxMoment \in Int
    BY LimitAssumption DEF LimitAssumption
  <2>2. PICK t \in Moments : \E n \in 1 .. f[t] : <<m, f[m] + 1>> = <<t, n>>
    BY <1>2, <2>1, HitIs DEF AllHits
  <2>3. PICK n \in 1 .. f[t] : <<m, f[m] + 1>> = <<t, n>>
    BY <2>2
  <2>4. t = m /\ n = f[m] + 1
    BY <2>3
  <2> QED BY <1>1, <2>3, <2>4
<1>3. ASSUME NEW a \in Int, NEW b \in Int
      PROVE  HitsIn(g, a, b) = HitsIn(f, a, b) \cup IF a <= m /\ m <= b THEN {<<m, f[m] + 1>>} ELSE {}
  <2>1. ASSUME NEW h \in HitsIn(g, a, b), h \notin HitsIn(f, a, b)
        PROVE  a <= m /\ m <= b /\ h = <<m, f[m] + 1>>
    <3>1. PICK t \in Moments : a <= t /\ t <= b /\ \E n \in 1 .. g[t] : h = <<t, n>>
      BY HitIs
    <3>2. PICK n \in 1 .. g[t] : h = <<t, n>>
      BY <3>1
    <3>3. n \notin 1 .. f[t]
      BY <2>1, <3>1, <3>2, HitIs
    <3>4. t = m
      BY <1>1, <3>2, <3>3
    <3> QED BY <1>1, <3>1, <3>2, <3>3, <3>4
  <2>2. ASSUME NEW h \in HitsIn(f, a, b) PROVE h \in HitsIn(g, a, b)
    <3>1. PICK t \in Moments : a <= t /\ t <= b /\ \E n \in 1 .. f[t] : h = <<t, n>>
      BY HitIs
    <3>2. f[t] \in Nat /\ g[t] \in Nat /\ f[t] <= g[t]
      BY <1>1 DEF HitCounts
    <3>3. \E n \in 1 .. g[t] : h = <<t, n>>
      BY <3>1, <3>2
    <3> QED BY <1>1, <3>1, <3>3, HitIs
  <2>3. ASSUME a <= m, m <= b PROVE <<m, f[m] + 1>> \in HitsIn(g, a, b)
    <3>1. f[m] + 1 \in 1 .. g[m]
      BY <1>1
    <3> QED BY <1>1, <2>3, <3>1, HitIs
  <2> QED BY <2>1, <2>2, <2>3
<1> QED BY <1>1, <1>2, <1>3

-----------------------------------------------------------------------------
\* Requests of one fixed window that Redis let in.
InSlot(k) == {h \in AllHits(passed) : Slot(h[1]) = k}

\* The processes that have counted for themselves.
Counting == {i \in Processes : AllHits(bucket[i]) # {}}

\* What is let in is finite.
Finite ==
    /\ IsFiniteSet(AllHits(passed)) /\ IsFiniteSet(Counting)
    /\ \A i \in Processes : IsFiniteSet(AllHits(bucket[i]))

\* Unless its key has expired, Redis has counted all that it let in of a
\* window, and let in no more than the limit.
AllCounted ==
    \A k \in Int \ forgotten :
        /\ Cardinality(InSlot(k)) <= Limit
        /\ k \in Slots => Cardinality(InSlot(k)) <= counter[k].count

\* A process lets in no more than the limit in any period as long as the
\* window, and nothing before its time.
SlidingHolds ==
    \A i \in Processes :
        /\ \A h \in AllHits(bucket[i]) : h[1] <= moment
        /\ \A t \in Int : Total(bucket[i], t, t + Window) <= Limit

LimitInv ==
    /\ LimitTypeOK /\ DOMAIN entered = Hitters
    /\ Finite /\ AllCounted /\ SlidingHolds

-----------------------------------------------------------------------------
LEMMA InitLimit == LimitInit => LimitInv
<1> SUFFICES ASSUME LimitInit PROVE LimitInv
  OBVIOUS
<1>1. 0 \in Moments /\ Limit \in Nat /\ MaxMoment \in Nat /\ 0 \in 0 .. MaxHits
  BY LimitAssumption DEF LimitAssumption, Moments
<1>2. ASSUME NEW f \in HitCounts, \A t \in Moments : f[t] = 0, NEW a \in Int, NEW b \in Int
      PROVE  HitsIn(f, a, b) = {}
  BY <1>2, HitIs
<1>3. /\ passed \in HitCounts /\ AllHits(passed) = {}
      /\ \A i \in Processes : bucket[i] \in HitCounts /\ \A a, b \in Int : HitsIn(bucket[i], a, b) = {}
  <2>1. passed \in HitCounts /\ \A t \in Moments : passed[t] = 0
    BY DEF LimitInit, HitCounts
  <2>2. ASSUME NEW i \in Processes PROVE bucket[i] \in HitCounts /\ \A t \in Moments : bucket[i][t] = 0
    BY DEF LimitInit, HitCounts
  <2>3. 0 \in Int /\ MaxMoment \in Int
    BY <1>1
  <2> QED BY <1>2, <2>1, <2>2, <2>3 DEF AllHits
<1>4. \A i \in Processes : AllHits(bucket[i]) = {}
  BY <1>1, <1>3 DEF AllHits
<1>5. IsFiniteSet({}) /\ Cardinality({}) = 0
  BY FS_EmptySet
<1>6. LimitTypeOK /\ DOMAIN entered = Hitters
  BY <1>1 DEF LimitInit, LimitTypeOK
<1>7. Finite
  BY <1>3, <1>4, <1>5 DEF Finite, Counting
<1>8. AllCounted
  <2>1. \A k \in Int : InSlot(k) = {}
    BY <1>3 DEF InSlot
  <2>2. \A k \in Slots : counter[k].count = 0
    BY DEF LimitInit
  <2>3. \A k \in Int : Cardinality(InSlot(k)) = 0
    BY <1>5, <2>1
  <2>4. 0 <= Limit
    BY <1>1
  <2> QED BY <2>2, <2>3, <2>4 DEF AllCounted
<1>9. SlidingHolds
  <2>1. ASSUME NEW i \in Processes, NEW t \in Int PROVE Total(bucket[i], t, t + Window) <= Limit
    <3>1. t + Window \in Int
      BY LimitAssumption DEF LimitAssumption
    <3> QED BY <1>1, <1>3, <1>5, <3>1 DEF Total
  <2> QED BY <1>4, <2>1 DEF SlidingHolds
<1> QED BY <1>6, <1>7, <1>8, <1>9 DEF LimitInv

\* Redis counts a request of a window, and lets it in if the count allows.
LEMMA RedisStep ==
    ASSUME LimitInv, NEW r \in Hitters, entered[r] # NoHit, Increment(Slot(entered[r].at)),
           NEW t, t = entered[r].at,
           \/ passed' = passed
           \/ /\ CountOf(Slot(t)) + 1 <= Limit
              /\ passed' = [passed EXCEPT ![t] = @ + 1]
    PROVE  /\ passed' \in HitCounts /\ IsFiniteSet(AllHits(passed)') /\ AllCounted'
           /\ counter' \in [Slots -> [count : Nat, until : Nat]] /\ forgotten' \subseteq Slots
<1> DEFINE k == Slot(t)
<1>1. /\ t \in Moments /\ t \in Nat /\ t <= MaxMoment /\ MaxMoment \in Nat /\ moment \in Nat
      /\ Window \in Nat /\ passed \in HitCounts /\ Limit \in Nat
  BY LimitAssumption DEF LimitInv, LimitTypeOK, Moments, LimitAssumption, HitCounts
<1>2. k \in Slots /\ k \in Int
  BY <1>1, SlotOf, SlotsGrow DEF Slots
<1>3. counter \in [Slots -> [count : Nat, until : Nat]] /\ forgotten \subseteq Slots
  BY DEF LimitInv, LimitTypeOK
<1>4. /\ counter' = [counter EXCEPT ![k] = [count |-> CountOf(k) + 1, until |-> moment + Window + 1]]
      /\ forgotten' = IF CountOf(k) < counter[k].count THEN forgotten \cup {k} ELSE forgotten
  BY DEF Increment
<1> HIDE DEF k
<1>5. CountOf(k) \in Nat /\ counter[k].count \in Nat /\ CountOf(k) <= counter[k].count
  BY <1>2, <1>3 DEF CountOf
<1>6. counter' \in [Slots -> [count : Nat, until : Nat]] /\ forgotten' \subseteq Slots
  BY <1>1, <1>2, <1>3, <1>4, <1>5
<1>7. /\ forgotten \subseteq forgotten'
      /\ k \notin forgotten' => CountOf(k) = counter[k].count
      /\ counter'[k].count = CountOf(k) + 1
      /\ \A j \in Slots : j # k => counter'[j] = counter[j]
  BY <1>2, <1>3, <1>4, <1>5
<1>8. ASSUME NEW j \in Int, j \notin forgotten'
      PROVE  /\ Cardinality(InSlot(j)) <= Limit /\ Cardinality(InSlot(j)) \in Nat /\ IsFiniteSet(InSlot(j))
             /\ j \in Slots => Cardinality(InSlot(j)) <= counter[j].count
  <2>1. InSlot(j) \in SUBSET AllHits(passed) /\ IsFiniteSet(AllHits(passed))
    BY DEF InSlot, LimitInv, Finite
  <2>2. IsFiniteSet(InSlot(j)) /\ Cardinality(InSlot(j)) \in Nat
    BY <2>1, FS_Subset, FS_CardinalityType
  <2> QED BY <1>7, <1>8, <2>2 DEF LimitInv, AllCounted
<1>9. CASE passed' = passed
  <2>1. AllHits(passed)' = AllHits(passed) /\ \A j \in Int : InSlot(j)' = InSlot(j)
    BY <1>9 DEF AllHits, InSlot, HitsIn
  <2>2. ASSUME NEW j \in Int, j \notin forgotten'
        PROVE  /\ Cardinality(InSlot(j)') <= Limit
               /\ j \in Slots => Cardinality(InSlot(j)') <= counter'[j].count
    <3>1. InSlot(j)' = InSlot(j)
      BY <2>1
    <3>2. CASE j = k
      BY <1>2, <1>5, <1>7, <1>8, <2>2, <3>1, <3>2
    <3>3. CASE j # k
      BY <1>7, <1>8, <2>2, <3>1, <3>3
    <3> QED BY <3>2, <3>3
  <2>3. AllCounted'
    BY <2>2 DEF AllCounted
  <2> QED BY <1>1, <1>6, <1>9, <2>1, <2>3 DEF LimitInv, Finite
<1>10. CASE CountOf(k) + 1 <= Limit /\ passed' = [passed EXCEPT ![t] = @ + 1]
  <2> DEFINE h == <<t, passed[t] + 1>>
  <2>0. /\ passed' \in HitCounts /\ passed'[t] = passed[t] + 1
        /\ \A u \in Moments : u # t => passed'[u] = passed[u]
    BY <1>1, <1>10 DEF HitCounts
  <2>1. /\ h \notin AllHits(passed)
        /\ \A a, b \in Int :
                HitsIn(passed', a, b) = HitsIn(passed, a, b) \cup IF a <= t /\ t <= b THEN {h} ELSE {}
    BY <1>1, <2>0, OneMoreHit
  <2>2. h[1] = t
    OBVIOUS
  <2> HIDE DEF h
  <2>3. AllHits(passed)' = AllHits(passed) \cup {h}
    <3>1. 0 \in Int /\ MaxMoment \in Int /\ 0 <= t /\ t <= MaxMoment
      BY <1>1
    <3>2. HitsIn(passed', 0, MaxMoment) = HitsIn(passed, 0, MaxMoment) \cup {h}
      BY <2>1, <3>1
    <3>3. AllHits(passed)' = HitsIn(passed', 0, MaxMoment)
      BY DEF AllHits, HitsIn, Moments
    <3> QED BY <3>2, <3>3 DEF AllHits
  <2>4. IsFiniteSet(AllHits(passed) \cup {h})
    BY FS_AddElement DEF LimitInv, Finite
  <2>5. InSlot(k)' = InSlot(k) \cup {h} /\ \A j \in Int : j # k => InSlot(j)' = InSlot(j)
    BY <2>2, <2>3 DEF InSlot, k
  <2>6. ASSUME NEW j \in Int, j \notin forgotten'
        PROVE  /\ Cardinality(InSlot(j)') <= Limit
               /\ j \in Slots => Cardinality(InSlot(j)') <= counter'[j].count
    <3>1. CASE j = k
      <4>1. IsFiniteSet(InSlot(k)) /\ h \notin InSlot(k)
        BY <1>8, <2>1, <2>6, <3>1 DEF InSlot
      <4>2. Cardinality(InSlot(k) \cup {h}) = Cardinality(InSlot(k)) + 1
        BY <4>1, FS_AddElement
      <4>3. Cardinality(InSlot(k)) <= CountOf(k) /\ Cardinality(InSlot(k)) \in Nat
        BY <1>2, <1>5, <1>7, <1>8, <2>6, <3>1
      <4>4. /\ Cardinality(InSlot(k)') = Cardinality(InSlot(k)) + 1
            /\ counter'[k].count = CountOf(k) + 1
        BY <1>7, <2>5, <4>2
      <4> QED BY <1>1, <1>5, <1>10, <3>1, <4>3, <4>4
    <3>2. CASE j # k
      BY <1>7, <1>8, <2>5, <2>6, <3>2
    <3> QED BY <3>1, <3>2
  <2>7. AllCounted'
    BY <2>6 DEF AllCounted
  <2> QED BY <1>6, <2>0, <2>3, <2>4, <2>7
<1> QED BY <1>9, <1>10 DEF k

\* A process counts a request of its own and lets it in if the period that
\* ends now has room for it.
LEMMA LocalStep ==
    ASSUME LimitInv, NEW i \in Processes, HitLocally(i), moment' = moment
    PROVE  /\ bucket' \in [Processes -> HitCounts] /\ IsFiniteSet(Counting')
           /\ \A j \in Processes : IsFiniteSet(AllHits(bucket[j])')
           /\ SlidingHolds'
<1>1. /\ bucket \in [Processes -> HitCounts] /\ moment \in Moments /\ moment \in Nat
      /\ Limit \in Nat /\ Window \in Nat /\ MaxMoment \in Nat
      /\ 0 <= moment /\ moment <= MaxMoment
  BY LimitAssumption DEF LimitInv, LimitTypeOK, Moments, LimitAssumption, HitCounts
<1>2. /\ IsFiniteSet(Counting) /\ \A j \in Processes : IsFiniteSet(AllHits(bucket[j]))
      /\ \A j \in Processes : \A h \in AllHits(bucket[j]) : h[1] <= moment
      /\ \A j \in Processes : \A t \in Int : Total(bucket[j], t, t + Window) <= Limit
  BY DEF LimitInv, Finite, SlidingHolds
<1>3. CASE bucket' = bucket
  <2>1. Counting' = Counting /\ SlidingHolds' /\ \A j \in Processes : AllHits(bucket[j])' = AllHits(bucket[j])
    BY <1>2, <1>3 DEF Counting, SlidingHolds, AllHits, Total, HitsIn
  <2> QED BY <1>1, <1>2, <1>3, <2>1
<1>4. CASE ~ (Recent(i) >= Limit) /\ bucket' = [bucket EXCEPT ![i][moment] = @ + 1]
  <2> DEFINE f == bucket[i]
             g == bucket'[i]
             h == <<moment, f[moment] + 1>>
  <2>1. /\ f \in HitCounts /\ g \in HitCounts /\ g[moment] = f[moment] + 1
        /\ \A t \in Moments : t # moment => g[t] = f[t]
        /\ bucket' \in [Processes -> HitCounts]
        /\ \A j \in Processes : j # i => bucket'[j] = bucket[j]
    BY <1>1, <1>4 DEF HitCounts
  <2>2. /\ h \notin AllHits(f)
        /\ \A a, b \in Int :
             HitsIn(g, a, b) = HitsIn(f, a, b) \cup IF a <= moment /\ moment <= b THEN {h} ELSE {}
    <3> HIDE DEF f, g
    <3> QED BY <1>1, <2>1, OneMoreHit
  <2>3. h[1] = moment
    OBVIOUS
  <2>4. /\ IsFiniteSet(AllHits(f)) /\ \A e \in AllHits(f) : e[1] <= moment
        /\ \A t \in Int : Total(f, t, t + Window) <= Limit
        /\ Cardinality(HitsIn(f, moment - Window, moment)) < Limit
    <3>1. /\ IsFiniteSet(AllHits(f)) /\ \A e \in AllHits(f) : e[1] <= moment
          /\ \A t \in Int : Total(f, t, t + Window) <= Limit
      BY <1>2
    <3>2. HitsIn(f, moment - Window, moment) \in SUBSET AllHits(f)
      <4>1. moment - Window \in Int /\ moment \in Int
        BY <1>1
      <4> HIDE DEF f
      <4> QED BY <2>1, <4>1, HitsWithin
    <3>3. Cardinality(HitsIn(f, moment - Window, moment)) \in Nat
      BY <3>1, <3>2, FS_Subset, FS_CardinalityType
    <3> QED BY <1>1, <1>4, <3>1, <3>3 DEF Recent, Total
  <2>5. \A j \in Processes : j # i => AllHits(bucket[j])' = AllHits(bucket[j])
    BY <2>1 DEF AllHits, HitsIn
  <2>6. AllHits(bucket[i])' = AllHits(g)
    BY DEF AllHits, HitsIn, Moments
  <2>7. \A t \in Int : Total(bucket[i], t, t + Window)' = Total(g, t, t + Window)
    BY DEF Total, HitsIn, Moments
  <2> HIDE DEF f, g, h
  <2>8. AllHits(g) = AllHits(f) \cup {h}
    <3>1. 0 \in Int /\ MaxMoment \in Int
      BY <1>1
    <3> QED BY <1>1, <2>2, <3>1 DEF AllHits
  <2>9. IsFiniteSet(AllHits(g)) /\ \A e \in AllHits(g) : e[1] <= moment
    BY <1>1, <2>3, <2>4, <2>8, FS_AddElement
  <2>10. ASSUME NEW t \in Int PROVE Total(g, t, t + Window) <= Limit
    <3>1. t + Window \in Int
      BY <1>1
    <3>2. HitsIn(f, t, t + Window) \in SUBSET AllHits(f)
      BY <2>1, <3>1, HitsWithin
    <3>3. IsFiniteSet(HitsIn(f, t, t + Window)) /\ Cardinality(HitsIn(f, t, t + Window)) \in Nat
      BY <2>4, <3>2, FS_Subset, FS_CardinalityType
    <3>a. HitsIn(g, t, t + Window) = HitsIn(f, t, t + Window)
              \cup IF t <= moment /\ moment <= t + Window THEN {h} ELSE {}
      BY <2>2, <3>1
    <3>4. CASE ~ (t <= moment /\ moment <= t + Window)
      <4>1. HitsIn(g, t, t + Window) = HitsIn(f, t, t + Window)
        BY <3>a, <3>4
      <4> QED BY <2>4, <4>1 DEF Total
    <3>5. CASE t <= moment /\ moment <= t + Window
      <4>1. HitsIn(g, t, t + Window) = HitsIn(f, t, t + Window) \cup {h}
        BY <3>a, <3>5
      <4>2. Cardinality(HitsIn(g, t, t + Window)) <= Cardinality(HitsIn(f, t, t + Window)) + 1
        <5>1. Cardinality(HitsIn(f, t, t + Window) \cup {h})
                  = IF h \in HitsIn(f, t, t + Window) THEN Cardinality(HitsIn(f, t, t + Window))
                    ELSE Cardinality(HitsIn(f, t, t + Window)) + 1
          BY <3>3, FS_AddElement
        <5> QED BY <3>3, <4>1, <5>1
      <4>3. moment - Window \in Int /\ moment \in Int /\ moment - Window <= t
        BY <1>1, <3>5
      <4>4. \A e \in HitsIn(f, t, t + Window) : moment - Window <= e[1] /\ e[1] <= moment
        <5> SUFFICES ASSUME NEW e \in HitsIn(f, t, t + Window)
                     PROVE  moment - Window <= e[1] /\ e[1] <= moment
          OBVIOUS
        <5>1. e[1] \in Moments /\ t <= e[1]
          BY <2>1, <3>1, HitParts
        <5>2. e[1] \in Int /\ e[1] <= moment
          BY <2>4, <3>2, <5>1 DEF Moments
        <5> QED BY <4>3, <5>1, <5>2
      <4>5. HitsIn(f, t, t + Window) \in SUBSET HitsIn(f, moment - Window, moment)
        BY <2>1, <3>1, <4>3, <4>4, HitsWithin
      <4>6. HitsIn(f, moment - Window, moment) \in SUBSET AllHits(f)
        BY <2>1, <4>3, HitsWithin
      <4>7. IsFiniteSet(HitsIn(f, moment - Window, moment))
        BY <2>4, <4>6, FS_Subset
      <4>8. /\ Cardinality(HitsIn(f, t, t + Window)) <= Cardinality(HitsIn(f, moment - Window, moment))
            /\ Cardinality(HitsIn(f, moment - Window, moment)) \in Nat
        BY <4>5, <4>7, FS_Subset, FS_CardinalityType
      <4>9. Cardinality(HitsIn(g, t, t + Window)) \in Nat
        <5>1. IsFiniteSet(HitsIn(f, t, t + Window) \cup {h})
          BY <3>3, FS_AddElement
        <5> QED BY <4>1, <5>1, FS_CardinalityType
      <4> QED BY <1>1, <2>4, <3>3, <4>2, <4>8, <4>9 DEF Total
    <3> QED BY <3>4, <3>5
  <2>11. \A j \in Processes : IsFiniteSet(AllHits(bucket[j])')
    BY <1>2, <2>5, <2>6, <2>9
  <2>12. IsFiniteSet(Counting')
    <3>1. Counting' \in SUBSET (Counting \cup {i})
      BY <2>5 DEF Counting
    <3>2. IsFiniteSet(Counting \cup {i})
      BY <1>2, FS_AddElement
    <3> QED BY <3>1, <3>2, FS_Subset
  <2>13. SlidingHolds'
    <3>1. ASSUME NEW j \in Processes
          PROVE  /\ \A e \in AllHits(bucket[j])' : e[1] <= moment
                 /\ \A t \in Int : Total(bucket[j], t, t + Window)' <= Limit
      <4>1. CASE j = i
        <5>1. \A e \in AllHits(bucket[i])' : e[1] <= moment
          BY <2>6, <2>9
        <5>2. \A t \in Int : Total(bucket[i], t, t + Window)' <= Limit
          BY <2>7, <2>10
        <5> QED BY <4>1, <5>1, <5>2
      <4>2. CASE j # i
        <5>1. AllHits(bucket[j])' = AllHits(bucket[j])
          BY <2>5, <4>2
        <5>2. \A t \in Int : Total(bucket[j], t, t + Window)' = Total(bucket[j], t, t + Window)
          BY <2>1, <4>2 DEF Total, HitsIn
        <5>3. \A t \in Int : Total(bucket[j], t, t + Window) <= Limit
          BY <1>2
        <5>4. \A e \in AllHits(bucket[j]) : e[1] <= moment
          BY <1>2
        <5> QED BY <5>1, <5>2, <5>3, <5>4
      <4> QED BY <4>1, <4>2
    <3> QED BY <3>1 DEF SlidingHolds
  <2> QED BY <2>1, <2>11, <2>12, <2>13
<1> QED BY <1>3, <1>4 DEF HitLocally

-----------------------------------------------------------------------------
\* A finite set of at most n elements can be numbered up to n.
LEMMA Numbering ==
    ASSUME NEW S, IsFiniteSet(S), NEW n \in Nat, Cardinality(S) <= n
    PROVE  \E f \in [S -> 1 .. n] : \A x, y \in S : f[x] = f[y] => x = y
<1> DEFINE c == Cardinality(S)
<1>1. c \in Nat
  BY FS_CardinalityType
<1>2. IsFiniteSet(1 .. c) /\ Cardinality(1 .. c) = c
  <2>1. 1 \in Int /\ c \in Int
    BY <1>1
  <2>2. IsFiniteSet(1 .. c) /\ Cardinality(1 .. c) = IF 1 > c THEN 0 ELSE c - 1 + 1
    BY <2>1, FS_Interval
  <2> HIDE DEF c
  <2> QED BY <1>1, <2>2
<1>3. ExistsBijection(S, 1 .. c)
  BY <1>2, FS_SameCardinalityBij
<1>4. PICK f \in [S -> 1 .. c] : \A x, y \in S : f[x] = f[y] => x = y
  BY <1>3 DEF ExistsBijection, Bijection, Injection, IsInjective
<1> HIDE DEF c
<1>5. c <= n
  BY DEF c
<1>6. \A x \in S : f[x] \in 1 .. n
  BY <1>1, <1>4, <1>5
<1>7. f \in [S -> 1 .. n]
  BY <1>4, <1>6
<1> QED BY <1>4, <1>7

\* What several have, each at most n, is at most n for each of them.
LEMMA SumBound ==
    ASSUME NEW T, IsFiniteSet(T), NEW own, NEW n \in Nat,
           \A i \in T : IsFiniteSet(own[i]) /\ Cardinality(own[i]) <= n,
           NEW U, \A u \in U : u[1] \in T /\ u[2] \in own[u[1]] /\ u = <<u[1], u[2]>>
    PROVE  Cardinality(U) \in Nat /\ Cardinality(U) <= n * Cardinality(T)
<1> DEFINE IsNumbering(i, f) == f \in [own[i] -> 1 .. n] /\ \A x, y \in own[i] : f[x] = f[y] => x = y
           F(i)  == CHOOSE f : IsNumbering(i, f)
           g     == [u \in U |-> <<u[1], F(u[1])[u[2]]>>]
<1>1. \A i \in T : IsNumbering(i, F(i))
  <2> SUFFICES ASSUME NEW i \in T PROVE \E f : IsNumbering(i, f)
    OBVIOUS
  <2>1. \E f \in [own[i] -> 1 .. n] : \A x, y \in own[i] : f[x] = f[y] => x = y
    BY Numbering
  <2> QED BY <2>1
<1>2. ASSUME NEW u \in U PROVE u[1] \in T /\ u[2] \in own[u[1]] /\ u = <<u[1], u[2]>>
  OBVIOUS
<1> HIDE DEF F
<1>3. ASSUME NEW u \in U
      PROVE  g[u] = <<u[1], F(u[1])[u[2]]>> /\ g[u] \in T \X (1 .. n)
  <2>1. F(u[1])[u[2]] \in 1 .. n
    BY <1>1, <1>2
  <2> QED BY <1>2, <2>1
<1>4. g \in [U -> T \X (1 .. n)]
  BY <1>3
<1>5. ASSUME NEW u \in U, NEW v \in U, g[u] = g[v] PROVE u = v
  <2>1. u[1] = v[1] /\ F(u[1])[u[2]] = F(v[1])[v[2]]
    BY <1>3, <1>5
  <2>2. u[2] = v[2]
    BY <1>1, <1>2, <2>1
  <2> QED BY <1>2, <2>1, <2>2
<1> HIDE DEF g
<1>6. g \in Injection(U, T \X (1 .. n))
  BY <1>4, <1>5 DEF Injection, IsInjective
<1>7. IsFiniteSet(1 .. n) /\ Cardinality(1 .. n) = n
  <2>1. 1 \in Int /\ n \in Int
    OBVIOUS
  <2>2. IsFiniteSet(1 .. n) /\ Cardinality(1 .. n) = IF 1 > n THEN 0 ELSE n - 1 + 1
    BY <2>1, FS_Interval
  <2> QED BY <2>2
<1>8. /\ IsFiniteSet(T \X (1 .. n)) /\ Cardinality(T \X (1 .. n)) = Cardinality(T) * n
      /\ Cardinality(T) \in Nat
  BY <1>7, FS_Product, FS_CardinalityType
<1>9. IsFiniteSet(U) /\ Cardinality(U) <= Cardinality(T \X (1 .. n)) /\ Cardinality(U) \in Nat
  BY <1>6, <1>8, FS_Injection, FS_CardinalityType
<1>10. Cardinality(U) <= n * Cardinality(T)
  BY <1>8, <1>9
<1> QED BY <1>9, <1>10

-----------------------------------------------------------------------------
\* What a step leaves alone stays as it was.
LEMMA PassedStands ==
    ASSUME UNCHANGED <<passed, counter, forgotten>>
    PROVE  (AllCounted' <=> AllCounted) /\ AllHits(passed)' = AllHits(passed)
<1>1. AllHits(passed)' = AllHits(passed)
  BY DEF AllHits, HitsIn
<1>2. \A k \in Int : InSlot(k)' = InSlot(k)
  BY <1>1 DEF InSlot
<1> QED BY <1>1, <1>2 DEF AllCounted

LEMMA BucketsStand ==
    ASSUME UNCHANGED bucket
    PROVE  Counting' = Counting /\ \A i \in Processes : AllHits(bucket[i])' = AllHits(bucket[i])
  BY DEF Counting, AllHits, HitsIn

LEMMA SlidingStands ==
    ASSUME LimitInv, UNCHANGED bucket, moment <= moment', moment' \in Moments
    PROVE  SlidingHolds'
<1> SUFFICES ASSUME NEW i \in Processes
             PROVE  /\ \A h \in AllHits(bucket[i])' : h[1] <= moment'
                    /\ \A t \in Int : Total(bucket[i], t, t + Window)' <= Limit
  BY DEF SlidingHolds
<1>1. AllHits(bucket[i])' = AllHits(bucket[i])
  BY DEF AllHits, HitsIn
<1>2. \A t \in Int : Total(bucket[i], t, t + Window)' = Total(bucket[i], t, t + Window)
  BY DEF Total, HitsIn
<1>3. \A t \in Int : Total(bucket[i], t, t + Window) <= Limit
  BY DEF LimitInv, SlidingHolds
<1>4. ASSUME NEW h \in AllHits(bucket[i]) PROVE h[1] <= moment'
  <2>1. bucket[i] \in HitCounts /\ moment \in Int /\ moment' \in Int /\ 0 \in Int /\ MaxMoment \in Int
    BY LimitAssumption DEF LimitInv, LimitTypeOK, HitCounts, Moments, LimitAssumption
  <2>2. h[1] \in Moments
    BY <2>1, HitParts DEF AllHits
  <2>3. h[1] <= moment
    BY DEF LimitInv, SlidingHolds
  <2> QED BY <2>1, <2>2, <2>3 DEF Moments
<1> QED BY <1>1, <1>2, <1>3, <1>4

\* A request comes, or is answered.
LEMMA EnteredStep ==
    ASSUME LimitInv, NEW r \in Hitters, NEW e, entered' = [entered EXCEPT ![r] = e],
           e = NoHit \/ e \in [on : Processes, at : Moments]
    PROVE  /\ DOMAIN entered' = Hitters
           /\ \A s \in Hitters : entered'[s] = NoHit \/ entered'[s] \in [on : Processes, at : Moments]
  BY DEF LimitInv, LimitTypeOK

LEMMA LimitStep == LimitInv /\ [LimitNext]_limitVars => LimitInv'
<1> SUFFICES ASSUME LimitInv, [LimitNext]_limitVars PROVE LimitInv'
  OBVIOUS
<1>a. LimitTypeOK /\ DOMAIN entered = Hitters /\ Finite /\ AllCounted /\ SlidingHolds
  BY DEF LimitInv
<1>b. moment \in Moments /\ moment \in Nat /\ MaxMoment \in Nat /\ MaxHits \in Nat
  BY <1>a, LimitAssumption DEF LimitTypeOK, Moments, LimitAssumption
<1>1. CASE UNCHANGED limitVars
  <2>1. LimitTypeOK' /\ DOMAIN entered' = Hitters
    BY <1>1, <1>a DEF LimitTypeOK, limitVars
  <2>2. UNCHANGED <<passed, counter, forgotten, bucket, moment>>
    BY <1>1 DEF limitVars
  <2>3. AllCounted' /\ SlidingHolds' /\ Finite'
    BY <1>a, <1>b, <2>2, PassedStands, BucketsStand, SlidingStands DEF Finite
  <2> QED BY <2>1, <2>3 DEF LimitInv
<1>2. CASE Pass
  <2>1. /\ moment' \in Moments /\ moment <= moment'
        /\ UNCHANGED <<degrade, counter, bucket, entered, passed, hits, forgotten>>
    BY <1>2, <1>b DEF Pass, Moments
  <2>2. LimitTypeOK' /\ DOMAIN entered' = Hitters
    BY <1>a, <2>1 DEF LimitTypeOK
  <2>3. AllCounted' /\ SlidingHolds' /\ Finite'
    BY <1>a, <2>1, PassedStands, BucketsStand, SlidingStands DEF Finite
  <2> QED BY <2>2, <2>3 DEF LimitInv
<1>3. ASSUME NEW r \in Hitters, NEW i \in Processes, Enter(r, i) PROVE LimitInv'
  <2>1. /\ entered' = [entered EXCEPT ![r] = [on |-> i, at |-> moment]]
        /\ hits' \in 0 .. MaxHits
        /\ UNCHANGED <<moment, degrade, counter, bucket, passed, forgotten>>
    BY <1>3, <1>a, <1>b DEF Enter, LimitTypeOK
  <2>2. [on |-> i, at |-> moment] \in [on : Processes, at : Moments]
    BY <1>b
  <2>3. /\ DOMAIN entered' = Hitters
        /\ \A s \in Hitters : entered'[s] = NoHit \/ entered'[s] \in [on : Processes, at : Moments]
    BY <2>1, <2>2, EnteredStep
  <2>4. LimitTypeOK'
    BY <1>a, <2>1, <2>3 DEF LimitTypeOK
  <2>5. AllCounted' /\ SlidingHolds' /\ Finite'
    BY <1>a, <1>b, <2>1, PassedStands, BucketsStand, SlidingStands DEF Finite
  <2> QED BY <2>3, <2>4, <2>5 DEF LimitInv
<1>4. ASSUME NEW r \in Hitters, CountedByRedis(r) PROVE LimitInv'
  <2>1. /\ entered[r] # NoHit /\ Increment(Slot(entered[r].at))
        /\ passed' = IF LetIn(CountOf(Slot(entered[r].at)) + 1)
                     THEN [passed EXCEPT ![entered[r].at] = @ + 1] ELSE passed
        /\ entered' = [entered EXCEPT ![r] = NoHit]
        /\ UNCHANGED <<moment, degrade, bucket, hits>>
    BY <1>4 DEF CountedByRedis, Leaves
  <2>2. PICK t : t = entered[r].at
    OBVIOUS
  <2>3. \/ passed' = passed
        \/ /\ CountOf(Slot(t)) + 1 <= Limit
           /\ passed' = [passed EXCEPT ![t] = @ + 1]
    BY <2>1, <2>2 DEF LetIn
  <2>4. /\ passed' \in HitCounts /\ IsFiniteSet(AllHits(passed)') /\ AllCounted'
        /\ counter' \in [Slots -> [count : Nat, until : Nat]] /\ forgotten' \subseteq Slots
    BY <2>1, <2>2, <2>3, RedisStep
  <2>5. /\ DOMAIN entered' = Hitters
        /\ \A s \in Hitters : entered'[s] = NoHit \/ entered'[s] \in [on : Processes, at : Moments]
    BY <2>1, EnteredStep
  <2>6. LimitTypeOK'
    BY <1>a, <2>1, <2>4, <2>5 DEF LimitTypeOK, HitCounts
  <2>7. SlidingHolds' /\ Finite'
    BY <1>a, <1>b, <2>1, <2>4, BucketsStand, SlidingStands DEF Finite
  <2> QED BY <2>4, <2>5, <2>6, <2>7 DEF LimitInv
<1>5. ASSUME NEW r \in Hitters, NEW counted \in BOOLEAN, Degraded(r, counted) PROVE LimitInv'
  <2>1. /\ entered[r] # NoHit /\ entered' = [entered EXCEPT ![r] = NoHit]
        /\ Increment(Slot(entered[r].at)) \/ UNCHANGED <<counter, forgotten>>
        /\ HitLocally(entered[r].on) \/ UNCHANGED bucket
        /\ UNCHANGED <<moment, degrade, passed, hits>>
    BY <1>5 DEF Degraded, Leaves
  <2>2. entered[r].on \in Processes
    BY <1>a, <2>1 DEF LimitTypeOK
  <2>3. /\ IsFiniteSet(AllHits(passed)') /\ AllCounted'
        /\ counter' \in [Slots -> [count : Nat, until : Nat]] /\ forgotten' \subseteq Slots
    <3>1. CASE Increment(Slot(entered[r].at))
      <4>1. PICK t : t = entered[r].at
        OBVIOUS
      <4> QED BY <2>1, <3>1, <4>1, RedisStep
    <3>2. CASE UNCHANGED <<counter, forgotten>>
      BY <1>a, <2>1, <3>2, PassedStands DEF Finite, LimitTypeOK
    <3> QED BY <2>1, <3>1, <3>2
  <2>4. /\ bucket' \in [Processes -> HitCounts] /\ IsFiniteSet(Counting') /\ SlidingHolds'
        /\ \A j \in Processes : IsFiniteSet(AllHits(bucket[j])')
    <3>1. CASE HitLocally(entered[r].on)
      <4>1. PICK i \in Processes : i = entered[r].on
        BY <2>2
      <4>2. HitLocally(i) /\ moment' = moment
        BY <2>1, <3>1, <4>1
      <4> QED BY <4>2, LocalStep
    <3>2. CASE UNCHANGED bucket
      BY <1>a, <1>b, <2>1, <3>2, BucketsStand, SlidingStands DEF Finite, LimitTypeOK, HitCounts
    <3> QED BY <2>1, <3>1, <3>2
  <2>5. /\ DOMAIN entered' = Hitters
        /\ \A s \in Hitters : entered'[s] = NoHit \/ entered'[s] \in [on : Processes, at : Moments]
    BY <2>1, EnteredStep
  <2>6. LimitTypeOK'
    BY <1>a, <2>1, <2>3, <2>4, <2>5 DEF LimitTypeOK, HitCounts
  <2> QED BY <2>3, <2>4, <2>5, <2>6 DEF LimitInv, Finite
<1> QED BY <1>1, <1>2, <1>3, <1>4, <1>5 DEF LimitNext

\* What was let in of two windows, and by the processes that counted alone.
LEMMA BudgetOf ==
    ASSUME LimitInv, NEW t \in 0 .. moment, forgotten \cap {Slot(t), Slot(t + Window)} = {},
           NEW own, \A i \in Processes : own[i] = HitsIn(bucket[i], t, t + Window)
    PROVE  Total(passed, t, t + Window) + Cardinality(UNION {{i} \X own[i] : i \in Processes})
               <= Limit * (2 + Cardinality({i \in Processes : own[i] # {}}))
<1>1. /\ t \in Nat /\ t + Window \in Nat /\ Limit \in Nat /\ Window \in Nat
      /\ t \in Int /\ t + Window \in Int /\ 0 \in Int /\ MaxMoment \in Int
      /\ passed \in HitCounts /\ \A i \in Processes : bucket[i] \in HitCounts
  BY LimitAssumption DEF LimitInv, LimitTypeOK, LimitAssumption, Moments, HitCounts
<1>2. Total(passed, t, t + Window) \in Nat /\ Total(passed, t, t + Window) <= Limit + Limit
  <2> DEFINE A == InSlot(Slot(t))
             B == InSlot(Slot(t + Window))
             H == HitsIn(passed, t, t + Window)
  <2>1. A \in SUBSET AllHits(passed) /\ B \in SUBSET AllHits(passed) /\ IsFiniteSet(AllHits(passed))
    BY DEF InSlot, LimitInv, Finite
  <2>2. H \subseteq A \cup B
    <3> SUFFICES ASSUME NEW h \in HitsIn(passed, t, t + Window) PROVE h \in A \cup B
      OBVIOUS
    <3>1. h \in AllHits(passed)
      BY <1>1, HitsWithin
    <3>2. h[1] \in Moments /\ t <= h[1] /\ h[1] <= t + Window
      BY <1>1, HitParts
    <3>3. h[1] \in t .. (t + Window)
      BY <1>1, <3>2 DEF Moments
    <3>4. Slot(h[1]) \in {Slot(t), Slot(t + Window)}
      BY <1>1, <3>3, TwoSlots
    <3> QED BY <3>1, <3>4 DEF InSlot
  <2>3. Slot(t) \in Int \ forgotten /\ Slot(t + Window) \in Int \ forgotten
    BY <1>1, SlotOf
  <2>4. Cardinality(A) <= Limit /\ Cardinality(B) <= Limit
    BY <2>3 DEF LimitInv, AllCounted
  <2> HIDE DEF A, B, H
  <2>5. IsFiniteSet(A) /\ IsFiniteSet(B)
    BY <2>1, FS_Subset
  <2>6. /\ IsFiniteSet(A \cup B)
        /\ Cardinality(A \cup B) = Cardinality(A) + Cardinality(B) - Cardinality(A \cap B)
        /\ Cardinality(A) \in Nat /\ Cardinality(B) \in Nat /\ Cardinality(A \cap B) \in Nat
    BY <2>5, FS_Union, FS_Intersection, FS_CardinalityType
  <2>7. Cardinality(A \cup B) <= Limit + Limit /\ Cardinality(A \cup B) \in Nat
    BY <1>1, <2>4, <2>6, FS_CardinalityType
  <2>8. H \in SUBSET (A \cup B)
    BY <2>2
  <2>9. /\ IsFiniteSet(H) /\ Cardinality(H) <= Cardinality(A \cup B) /\ Cardinality(H) \in Nat
    BY <2>6, <2>8, FS_Subset, FS_CardinalityType
  <2>10. Cardinality(H) <= Limit + Limit
    BY <1>1, <2>7, <2>9
  <2> QED BY <2>9, <2>10 DEF Total, H
<1>3. \A i \in Processes : IsFiniteSet(own[i]) /\ Cardinality(own[i]) <= Limit /\ own[i] \subseteq AllHits(bucket[i])
  <2> SUFFICES ASSUME NEW i \in Processes
               PROVE  IsFiniteSet(own[i]) /\ Cardinality(own[i]) <= Limit /\ own[i] \subseteq AllHits(bucket[i])
    OBVIOUS
  <2>1. own[i] = HitsIn(bucket[i], t, t + Window)
    OBVIOUS
  <2>2. HitsIn(bucket[i], t, t + Window) \in SUBSET AllHits(bucket[i])
    BY <1>1, HitsWithin
  <2>3. IsFiniteSet(AllHits(bucket[i])) /\ Total(bucket[i], t, t + Window) <= Limit
    BY <1>1 DEF LimitInv, Finite, SlidingHolds
  <2> QED BY <2>1, <2>2, <2>3, FS_Subset DEF Total
<1>4. PICK T : T = {i \in Processes : own[i] # {}}
  OBVIOUS
<1>5. T \in SUBSET Counting /\ IsFiniteSet(Counting)
  BY <1>3, <1>4 DEF Counting, LimitInv, Finite
<1>6. IsFiniteSet(T) /\ Cardinality(T) \in Nat
  BY <1>5, FS_Subset, FS_CardinalityType
<1>7. /\ Cardinality(UNION {{i} \X own[i] : i \in Processes}) \in Nat
      /\ Cardinality(UNION {{i} \X own[i] : i \in Processes}) <= Limit * Cardinality(T)
  <2>1. PICK U : U = UNION {{i} \X own[i] : i \in Processes}
    OBVIOUS
  <2>2. ASSUME NEW u \in U PROVE u[1] \in T /\ u[2] \in own[u[1]] /\ u = <<u[1], u[2]>>
    <3>1. PICK i \in Processes : u \in {i} \X own[i]
      BY <2>1
    <3> QED BY <1>4, <3>1
  <2>3. \A i \in T : IsFiniteSet(own[i]) /\ Cardinality(own[i]) <= Limit
    BY <1>3, <1>4
  <2>4. Cardinality(U) \in Nat /\ Cardinality(U) <= Limit * Cardinality(T)
    BY <1>1, <1>6, <2>2, <2>3, SumBound
  <2> QED BY <2>1, <2>4
<1>8. Limit * (2 + Cardinality(T)) = Limit + Limit + Limit * Cardinality(T)
      /\ Limit * Cardinality(T) \in Nat
  BY <1>1, <1>6
<1>9. Total(passed, t, t + Window) + Cardinality(UNION {{i} \X own[i] : i \in Processes})
          <= Limit * (2 + Cardinality(T))
  BY <1>1, <1>2, <1>6, <1>7, <1>8
<1> QED BY <1>4, <1>9

\* "Limits are shared across API instances": whatever the clock, the failures
\* of Redis and the restarts, no period as long as the window sees more than
\* two budgets and one more of each process that counted for itself.
THEOREM BudgetIsKept == LimitSpec => []BudgetHolds
<1>1. LimitInv => BudgetHolds
  <2> SUFFICES ASSUME LimitInv, NEW t \in 0 .. moment, NEW own,
                      own = [i \in Processes |-> HitsIn(bucket[i], t, t + Window)],
                      forgotten \cap {Slot(t), Slot(t + Window)} = {}
               PROVE  Total(passed, t, t + Window) + Cardinality(UNION {{i} \X own[i] : i \in Processes})
                          <= Limit * (2 + Cardinality({i \in Processes : own[i] # {}}))
    BY DEF BudgetHolds
  <2>1. \A i \in Processes : own[i] = HitsIn(bucket[i], t, t + Window)
    OBVIOUS
  <2> QED BY <2>1, BudgetOf
<1> QED BY <1>1, InitLimit, LimitStep, PTL DEF LimitSpec

\* Redis and the processes keep counts of what came at moments of the clock, and
\* a request in flight knows its process and the moment it came.
THEOREM LimitTypes == LimitSpec => []LimitTypeOK
<1>1. LimitInv => LimitTypeOK
  BY DEF LimitInv
<1> QED BY <1>1, InitLimit, LimitStep, PTL DEF LimitSpec
=============================================================================
