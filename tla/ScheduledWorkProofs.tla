------------------------- MODULE ScheduledWorkProofs -------------------------
(***************************************************************************)
(* Theorems about work that is scheduled: first about AutopilotScheduler,  *)
(* for any number of workers, clients, organisations and windows; then     *)
(* about MCScheduledWork, the components side by side, of which the run    *)
(* checks an instance.                                                     *)
(***************************************************************************)
EXTENDS MCScheduledWork, LeadIngestProofs, CampaignRunProofs, FiniteSetTheorems, WellFoundedInduction, TLAPS

-----------------------------------------------------------------------------
(* The autopilot scheduler.  A tick looks for cycles in flight and inserts *)
(* its own; the invariant says that what it has seen stands for as long as *)
(* it is not known to be behind.                                           *)

-----------------------------------------------------------------------------
(* The inductive invariant.                                                *)

TickJob(t)  == <<"tick", t>>
CycleJob(k) == <<"cycle", k>>

\* The job of an open cycle is waiting, and nobody else runs it: its row is
\* locked.  So it is none of the window that time will forget.
JobsHeld ==
    \A w \in TickWorkers :
        /\ \A t \in Windows : doing[w] = TickJob(t) => tick[t] = "waiting"
        /\ \A k \in CycleKeys : doing[w] = CycleJob(k) => cycle[k] = "waiting"
        /\ \A v \in TickWorkers : doing[v] = doing[w] => v = w \/ doing[w] \in {Nothing, Polled}

\* Only ticks insert cycles, at most one for each organisation.
OneEach ==
    \A w \in TickWorkers :
        /\ newCycles[w] # {} => \E t \in Windows : doing[w] = TickJob(t)
        /\ \A k, l \in newCycles[w] : OrgOf[k[1]] = OrgOf[l[1]] => k = l

\* While no cycle has been committed since a tick looked, the organisations it
\* serves have none in flight.
LookStands ==
    \A w \in TickWorkers :
        ~ behind[w] => \A k \in newCycles[w] : CyclesInFlight(OrgOf[k[1]]) = {}

SchedInv ==
    /\ SchedTypeOK /\ behind \in [TickWorkers -> BOOLEAN] /\ retries \in Nat
    /\ JobsHeld /\ OneEach /\ LookStands

\* What a step does to the number of cycles in flight.
Explains ==
    \A o \in Orgs :
        Cardinality(CyclesInFlight(o)') > Cardinality(CyclesInFlight(o)) /\ Cardinality(CyclesInFlight(o)') > 1
          => \/ retries' > retries
             \/ \E w \in TickWorkers : behind[w] /\ doing'[w] # doing[w]

-----------------------------------------------------------------------------
(* What a tick inserts.                                                    *)

\* A set of naturals has a least element.
LEMMA Least ==
    ASSUME NEW S \in SUBSET Nat, S # {}
    PROVE  Min(S) \in S
<1>1. IsWellFoundedOn(OpToRel(<, Nat), Nat)
  BY NatLessThanWellFounded
<1>2. PICK m \in S : \A y \in S : ~ (<<y, m>> \in OpToRel(<, Nat))
  BY <1>1, WFMin
<1>3. ASSUME NEW y \in S PROVE m =< y
  <2>1. <<y, m>> \notin {ss \in Nat \X Nat : ss[1] < ss[2]}
    BY <1>2 DEF OpToRel
  <2> QED BY <2>1
<1>4. \E x \in S : \A y \in S : x =< y
  BY <1>3
<1> QED BY <1>4 DEF Min

\* One cycle for each organisation that had none in flight.
LEMMA EnqueuedEffect ==
    ASSUME SchedTypeOK, NEW t \in Windows
    PROVE  /\ Enqueued(t) \subseteq CycleKeys
           /\ \A k \in Enqueued(t) : CyclesInFlight(OrgOf[k[1]]) = {}
           /\ \A k, l \in Enqueued(t) : OrgOf[k[1]] = OrgOf[l[1]] => k = l
<1> DEFINE free(o) == {c \in Targets : OrgOf[c] = o /\ cycle[c, t] = "none"}
           open == {p \in Orgs : ~ Skipped(p) /\ free(p) # {}}
<1>1. Enqueued(t) = {<<Min(free(o)), t>> : o \in open}
  BY DEF Enqueued
<1>2. ASSUME NEW o \in open PROVE /\ Min(free(o)) \in Clients /\ OrgOf[Min(free(o))] = o
                                  /\ CyclesInFlight(o) = {}
  <2>1. free(o) \in SUBSET Nat /\ free(o) # {} /\ free(o) \subseteq Clients
    BY AutopilotAssumption DEF AutopilotAssumption, SchedTypeOK, Targets
  <2>2. Min(free(o)) \in free(o)
    BY <2>1, Least
  <2>3. CyclesInFlight(o) = {}
    BY DEF Skipped
  <2> QED BY <2>1, <2>2, <2>3
<1> HIDE DEF free, open
<1>3. ASSUME NEW k \in Enqueued(t)
      PROVE  \E o \in open : k = <<Min(free(o)), t>> /\ k[1] = Min(free(o)) /\ OrgOf[k[1]] = o
  <2>1. PICK o \in open : k = <<Min(free(o)), t>>
    BY <1>1
  <2> QED BY <1>2, <2>1
<1>4. Enqueued(t) \subseteq CycleKeys
  BY <1>1, <1>2 DEF CycleKeys
<1>5. \A k \in Enqueued(t) : CyclesInFlight(OrgOf[k[1]]) = {}
  BY <1>2, <1>3
<1>6. \A k, l \in Enqueued(t) : OrgOf[k[1]] = OrgOf[l[1]] => k = l
  BY <1>3
<1> QED BY <1>4, <1>5, <1>6

-----------------------------------------------------------------------------
(* Steps.                                                                  *)

\* What a worker does tells its kind apart, and names its window or its key.
LEMMA Kinds ==
    /\ Nothing[1] = "nothing" /\ Polled[1] = "polled" /\ Nothing # Polled
    /\ \A t : TickJob(t)[1] = "tick" /\ TickJob(t)[2] = t
                /\ TickJob(t) # Nothing /\ TickJob(t) # Polled
    /\ \A k : CycleJob(k)[1] = "cycle" /\ CycleJob(k)[2] = k
                /\ CycleJob(k) # Nothing /\ CycleJob(k) # Polled
    /\ \A t, k : TickJob(t) # CycleJob(k)
BY DEF Nothing, Polled, TickJob, CycleJob

\* There are finitely many cycles.
LEMMA FiniteCycles ==
    /\ IsFiniteSet(CycleKeys)
    /\ \A S \in SUBSET CycleKeys : IsFiniteSet(S) /\ Cardinality(S) \in Nat
<1>1. IsFiniteSet(Windows) /\ IsFiniteSet(Clients)
  BY AutopilotAssumption, FS_Interval DEF AutopilotAssumption, Windows
<1>2. IsFiniteSet(CycleKeys)
  BY <1>1, FS_Product DEF CycleKeys
<1> QED BY <1>2, FS_Subset, FS_CardinalityType

\* No cycle comes in flight: there is nothing to explain.
LEMMA NoneMore ==
    ASSUME \A o \in Orgs : CyclesInFlight(o)' \subseteq CyclesInFlight(o)
    PROVE  Explains
<1> SUFFICES ASSUME NEW o \in Orgs
             PROVE  ~ (Cardinality(CyclesInFlight(o)') > Cardinality(CyclesInFlight(o)))
  BY DEF Explains
<1>1. CyclesInFlight(o) \in SUBSET CycleKeys
  BY DEF CyclesInFlight
<1>2. IsFiniteSet(CyclesInFlight(o)) /\ Cardinality(CyclesInFlight(o)) \in Nat
  BY <1>1, FiniteCycles
<1>3. CyclesInFlight(o)' \in SUBSET CyclesInFlight(o)
  OBVIOUS
<1>4. Cardinality(CyclesInFlight(o)') <= Cardinality(CyclesInFlight(o))
  BY <1>2, <1>3, FS_Subset
<1>5. Cardinality(CyclesInFlight(o)') \in Nat
  BY <1>2, <1>3, FS_Subset, FS_CardinalityType
<1> QED BY <1>2, <1>4, <1>5

\* One worker polls, takes a job, or is rolled back: the jobs stay as they are.
LEMMA WorkerStep ==
    ASSUME SchedInv, NEW w \in TickWorkers, UNCHANGED <<tick, cycle, enabled, retries>>,
           NEW job, NEW ts \in SUBSET Windows, NEW ks \in SUBSET CycleKeys, NEW late \in BOOLEAN,
           doing' = [doing EXCEPT ![w] = job],
           newTicks' = [newTicks EXCEPT ![w] = ts],
           newCycles' = [newCycles EXCEPT ![w] = ks],
           behind' = [behind EXCEPT ![w] = late],
           \/ job \in {Nothing, Polled}
           \/ \E t \in Windows : job = TickJob(t) /\ tick[t] = "waiting" /\ ~ Locked(job)
           \/ \E k \in CycleKeys : job = CycleJob(k) /\ cycle[k] = "waiting" /\ ~ Locked(job),
           ks # {} => \E t \in Windows : job = TickJob(t),
           \A k, l \in ks : OrgOf[k[1]] = OrgOf[l[1]] => k = l,
           \A k \in ks : CyclesInFlight(OrgOf[k[1]]) = {}
    PROVE  SchedInv' /\ Explains
<1>1. /\ doing'[w] = job /\ newTicks'[w] = ts /\ newCycles'[w] = ks /\ behind'[w] = late
      /\ \A v \in TickWorkers : v # w =>
           /\ doing'[v] = doing[v] /\ newTicks'[v] = newTicks[v]
           /\ newCycles'[v] = newCycles[v] /\ behind'[v] = behind[v]
  BY DEF SchedInv, SchedTypeOK
<1>2. SchedTypeOK' /\ behind' \in [TickWorkers -> BOOLEAN] /\ retries' \in Nat
  <2>1. job \in {Nothing, Polled} \cup {<<"tick", t>> : t \in Windows} \cup {<<"cycle", k>> : k \in CycleKeys}
    BY DEF TickJob, CycleJob
  <2> QED BY <2>1 DEF SchedInv, SchedTypeOK
<1>3. JobsHeld'
  <2>1. ASSUME NEW v \in TickWorkers
        PROVE  /\ \A t \in Windows : doing'[v] = TickJob(t) => tick[t] = "waiting"
               /\ \A k \in CycleKeys : doing'[v] = CycleJob(k) => cycle[k] = "waiting"
    <3>1. CASE v = w
      BY <1>1, <3>1, Kinds
    <3>2. CASE v # w
      BY <1>1, <3>2 DEF SchedInv, JobsHeld
    <3> QED BY <3>1, <3>2
  <2>2. ASSUME NEW v \in TickWorkers, v # w, doing[v] = job PROVE job \in {Nothing, Polled}
    BY <2>2 DEF Locked
  <2>3. ASSUME NEW v \in TickWorkers, NEW u \in TickWorkers, doing'[u] = doing'[v]
        PROVE  u = v \/ doing'[v] \in {Nothing, Polled}
    BY <1>1, <2>2, <2>3 DEF SchedInv, JobsHeld
  <2> QED BY <2>1, <2>3 DEF JobsHeld
<1>4. OneEach'
  BY <1>1 DEF SchedInv, OneEach
<1>5. \A o : CyclesInFlight(o)' = CyclesInFlight(o)
  BY DEF CyclesInFlight
<1>6. LookStands'
  BY <1>1, <1>5 DEF SchedInv, LookStands
<1> QED BY <1>2, <1>3, <1>4, <1>5, <1>6, NoneMore DEF SchedInv

\* Who runs no tick has inserted no cycle.
LEMMA TicksInsert ==
    ASSUME SchedInv, NEW w \in TickWorkers, doing[w][1] # "tick"
    PROVE  newCycles[w] = {}
BY Kinds DEF SchedInv, OneEach

LEMMA PollStep ==
    ASSUME SchedInv, NEW w \in TickWorkers, Poll(w)
    PROVE  SchedInv' /\ Explains
<1>1. newCycles[w] = {}
  BY TicksInsert, Kinds DEF Poll
<1>2. PICK ks \in SUBSET CycleKeys, late \in BOOLEAN :
        /\ newCycles' = [newCycles EXCEPT ![w] = ks] /\ ks = {}
        /\ behind' = [behind EXCEPT ![w] = late]
  <2>1. /\ newCycles' = [newCycles EXCEPT ![w] = {}] /\ behind' = [behind EXCEPT ![w] = behind[w]]
        /\ behind[w] \in BOOLEAN
    BY <1>1 DEF Poll, SchedInv, SchedTypeOK
  <2> QED BY <2>1
<1>3. Now \in Windows
  BY AutopilotAssumption DEF AutopilotAssumption, Now, Windows
<1>4. PICK ts \in SUBSET Windows : newTicks' = [newTicks EXCEPT ![w] = ts]
  BY <1>3 DEF Poll
<1>5. UNCHANGED <<tick, cycle, enabled, retries>> /\ doing' = [doing EXCEPT ![w] = Polled]
  BY DEF Poll, spent
<1> QED BY <1>2, <1>4, <1>5, WorkerStep

LEMMA TakeTickStep ==
    ASSUME SchedInv, NEW w \in TickWorkers, NEW t \in Windows, TakeTick(w, t)
    PROVE  SchedInv' /\ Explains
<1>1. /\ Enqueued(t) \in SUBSET CycleKeys
      /\ \A k \in Enqueued(t) : CyclesInFlight(OrgOf[k[1]]) = {}
      /\ \A k, l \in Enqueued(t) : OrgOf[k[1]] = OrgOf[l[1]] => k = l
  BY EnqueuedEffect DEF SchedInv
<1>2. Coming \in Windows
  BY AutopilotAssumption DEF AutopilotAssumption, Coming, Windows
<1>3. PICK ts \in SUBSET Windows : newTicks' = [newTicks EXCEPT ![w] = ts]
  <2>1. newTicks[w] \cup NextTick \in SUBSET Windows
    BY <1>2 DEF NextTick, SchedInv, SchedTypeOK
  <2> QED BY <2>1 DEF TakeTick
<1>4. /\ UNCHANGED <<tick, cycle, enabled, retries>> /\ doing' = [doing EXCEPT ![w] = TickJob(t)]
      /\ newCycles' = [newCycles EXCEPT ![w] = Enqueued(t)] /\ behind' = [behind EXCEPT ![w] = FALSE]
      /\ tick[t] = "waiting" /\ ~ Locked(TickJob(t))
  BY DEF TakeTick, spent, TickJob
<1> QED BY <1>1, <1>3, <1>4, WorkerStep

LEMMA TakeCycleStep ==
    ASSUME SchedInv, NEW w \in TickWorkers, NEW k \in CycleKeys, TakeCycle(w, k)
    PROVE  SchedInv' /\ Explains
<1>1. newCycles[w] = {}
  BY TicksInsert, Kinds DEF TakeCycle
<1>2. PICK ts \in SUBSET Windows, ks \in SUBSET CycleKeys, late \in BOOLEAN :
        /\ newTicks' = [newTicks EXCEPT ![w] = ts]
        /\ newCycles' = [newCycles EXCEPT ![w] = ks] /\ ks = {}
        /\ behind' = [behind EXCEPT ![w] = late]
  <2>1. /\ newCycles' = [newCycles EXCEPT ![w] = {}] /\ behind' = [behind EXCEPT ![w] = behind[w]]
        /\ newTicks' = [newTicks EXCEPT ![w] = newTicks[w]]
        /\ behind[w] \in BOOLEAN /\ newTicks[w] \in SUBSET Windows
    BY <1>1 DEF TakeCycle, SchedInv, SchedTypeOK
  <2> QED BY <2>1
<1>3. /\ UNCHANGED <<tick, cycle, enabled, retries>> /\ doing' = [doing EXCEPT ![w] = CycleJob(k)]
      /\ cycle[k] = "waiting" /\ ~ Locked(CycleJob(k))
  BY DEF TakeCycle, spent, CycleJob
<1> QED BY <1>2, <1>3, WorkerStep

\* A cycle that is lost takes with it what it has inserted.
LEMMA RollbackStep ==
    ASSUME SchedInv, NEW w \in TickWorkers, LoseWork(w) \/ LoseKeyRace(w)
    PROVE  SchedInv' /\ Explains
<1>1. /\ UNCHANGED <<tick, cycle, enabled, retries>> /\ doing' = [doing EXCEPT ![w] = Nothing]
      /\ newTicks' = [newTicks EXCEPT ![w] = {}] /\ newCycles' = [newCycles EXCEPT ![w] = {}]
      /\ behind' = [behind EXCEPT ![w] = FALSE]
  BY DEF LoseWork, LoseKeyRace, RolledBack, Ended, spent
<1> QED BY <1>1, WorkerStep

\* A commit: what it inserts is waiting, and the job it ran is what it is left
\* as; no other job is touched.
LEMMA CommitEffect ==
    ASSUME SchedInv, NEW w \in TickWorkers, NEW outcome \in JobStates,
           NEW ts \in SUBSET newTicks[w], NEW ks \in SUBSET newCycles[w], Committed(w, outcome, ts, ks)
    PROVE  /\ tick' \in [Windows -> JobStates] /\ cycle' \in [CycleKeys -> JobStates]
           /\ \A t \in Windows : tick[t] = "waiting" /\ doing[w] # TickJob(t) => tick'[t] = "waiting"
           /\ \A k \in CycleKeys : cycle[k] = "waiting" /\ doing[w] # CycleJob(k) => cycle'[k] = "waiting"
           /\ \A o : CyclesInFlight(o)' \subseteq CyclesInFlight(o) \cup {k \in ks : OrgOf[k[1]] = o}
<1>1. /\ tick \in [Windows -> JobStates] /\ cycle \in [CycleKeys -> JobStates]
      /\ "waiting" \in JobStates
  BY DEF SchedInv, SchedTypeOK, JobStates
<1>2. tick' = [t \in Windows |->
                 IF t \in ts THEN "waiting"
                 ELSE IF doing[w] = TickJob(t) THEN outcome ELSE tick[t]]
  BY DEF Committed, TickJob
<1>3. cycle' = [k \in CycleKeys |->
                 IF k \in ks THEN "waiting"
                 ELSE IF doing[w] = CycleJob(k) THEN outcome ELSE cycle[k]]
  BY DEF Committed, CycleJob
<1>4. /\ tick' \in [Windows -> JobStates] /\ cycle' \in [CycleKeys -> JobStates]
      /\ \A t \in Windows : tick[t] = "waiting" /\ doing[w] # TickJob(t) => tick'[t] = "waiting"
      /\ \A k \in CycleKeys : cycle[k] = "waiting" /\ doing[w] # CycleJob(k) => cycle'[k] = "waiting"
  BY <1>1, <1>2, <1>3
<1>5. ASSUME NEW k \in CycleKeys, cycle'[k] = "waiting", k \notin ks PROVE cycle[k] = "waiting"
  BY <1>3, <1>5 DEF SchedInv, JobsHeld
<1> QED BY <1>4, <1>5 DEF CyclesInFlight

LEMMA CommitStep ==
    ASSUME SchedInv, NEW w \in TickWorkers, NEW outcome \in JobStates,
           NEW ts \in SUBSET newTicks[w], NEW ks \in SUBSET newCycles[w],
           Committed(w, outcome, ts, ks), doing[w] # Nothing, UNCHANGED <<enabled, retries>>
    PROVE  SchedInv' /\ Explains
<1>1. /\ tick' \in [Windows -> JobStates] /\ cycle' \in [CycleKeys -> JobStates]
      /\ \A t \in Windows : tick[t] = "waiting" /\ doing[w] # TickJob(t) => tick'[t] = "waiting"
      /\ \A k \in CycleKeys : cycle[k] = "waiting" /\ doing[w] # CycleJob(k) => cycle'[k] = "waiting"
      /\ \A o : CyclesInFlight(o)' \subseteq CyclesInFlight(o) \cup {k \in ks : OrgOf[k[1]] = o}
  BY CommitEffect
<1>2. /\ doing' = [doing EXCEPT ![w] = Nothing] /\ newTicks' = [newTicks EXCEPT ![w] = {}]
      /\ newCycles' = [newCycles EXCEPT ![w] = {}]
      /\ behind' = [v \in TickWorkers |->
                      v # w /\ (behind[v] \/ (ks # {} /\ doing[v][1] = "tick"))]
  BY DEF Committed, Ended
<1>3. /\ doing'[w] = Nothing /\ newCycles'[w] = {}
      /\ \A v \in TickWorkers : v # w =>
           doing'[v] = doing[v] /\ newTicks'[v] = newTicks[v] /\ newCycles'[v] = newCycles[v]
  BY <1>2 DEF SchedInv, SchedTypeOK
<1>4. SchedTypeOK' /\ behind' \in [TickWorkers -> BOOLEAN] /\ retries' \in Nat
  BY <1>1, <1>2 DEF SchedInv, SchedTypeOK
<1>5. JobsHeld'
  <2>1. ASSUME NEW v \in TickWorkers
        PROVE  /\ \A t \in Windows : doing'[v] = TickJob(t) => tick'[t] = "waiting"
               /\ \A k \in CycleKeys : doing'[v] = CycleJob(k) => cycle'[k] = "waiting"
    <3>1. CASE v = w
      BY <1>3, <3>1, Kinds
    <3>2. CASE v # w
      <4>1. doing'[v] = doing[v] /\ (doing[v] = doing[w] => doing[v] \in {Nothing, Polled})
        BY <1>3, <3>2 DEF SchedInv, JobsHeld
      <4>2. ASSUME NEW t \in Windows, doing[v] = TickJob(t) PROVE tick'[t] = "waiting"
        BY <1>1, <4>1, <4>2, Kinds DEF SchedInv, JobsHeld
      <4>3. ASSUME NEW k \in CycleKeys, doing[v] = CycleJob(k) PROVE cycle'[k] = "waiting"
        BY <1>1, <4>1, <4>3, Kinds DEF SchedInv, JobsHeld
      <4> QED BY <4>1, <4>2, <4>3
    <3> QED BY <3>1, <3>2
  <2>2. ASSUME NEW v \in TickWorkers, NEW u \in TickWorkers, doing'[u] = doing'[v]
        PROVE  u = v \/ doing'[v] \in {Nothing, Polled}
    BY <1>3, <2>2 DEF SchedInv, JobsHeld
  <2> QED BY <2>1, <2>2 DEF JobsHeld
<1>6. OneEach'
  BY <1>3 DEF SchedInv, OneEach
<1>7. LookStands'
  <2> SUFFICES ASSUME NEW v \in TickWorkers, ~ behind'[v], NEW k \in newCycles'[v]
               PROVE  CyclesInFlight(OrgOf[k[1]])' = {}
    BY DEF LookStands
  <2>1. v # w /\ k \in newCycles[v]
    BY <1>3
  <2>2. doing[v][1] = "tick"
    BY <2>1, TicksInsert
  <2>3. ~ behind[v] /\ ks = {}
    BY <1>2, <2>1, <2>2
  <2>4. CyclesInFlight(OrgOf[k[1]]) = {}
    BY <2>1, <2>3 DEF SchedInv, LookStands
  <2> QED BY <1>1, <2>3, <2>4
<1>8. Explains
  <2> SUFFICES ASSUME NEW o \in Orgs,
                      Cardinality(CyclesInFlight(o)') > Cardinality(CyclesInFlight(o)),
                      Cardinality(CyclesInFlight(o)') > 1
               PROVE  behind[w] /\ doing'[w] # doing[w]
    BY DEF Explains
  <2>1. /\ CyclesInFlight(o) \in SUBSET CycleKeys /\ CyclesInFlight(o)' \in SUBSET CycleKeys
        /\ Cardinality(CyclesInFlight(o)) \in Nat /\ Cardinality(CyclesInFlight(o)') \in Nat
        /\ IsFiniteSet(CyclesInFlight(o))
    BY FiniteCycles DEF CyclesInFlight
  <2>2. PICK k \in ks : OrgOf[k[1]] = o
    <3> SUFFICES ASSUME \A k \in ks : OrgOf[k[1]] # o PROVE FALSE
      OBVIOUS
    <3>1. CyclesInFlight(o)' \in SUBSET CyclesInFlight(o)
      BY <1>1
    <3>2. Cardinality(CyclesInFlight(o)') <= Cardinality(CyclesInFlight(o))
      BY <2>1, <3>1, FS_Subset
    <3> QED BY <2>1, <3>2
  <2>3. CASE ~ behind[w]
    <3>1. CyclesInFlight(o) = {}
      BY <2>2, <2>3 DEF SchedInv, LookStands
    <3>2. CyclesInFlight(o)' \in SUBSET {k}
      BY <1>1, <2>2, <3>1 DEF SchedInv, OneEach
    <3>3. IsFiniteSet({k}) /\ Cardinality({k}) = 1
      BY FS_Singleton
    <3>4. Cardinality(CyclesInFlight(o)') <= 1
      BY <3>2, <3>3, FS_Subset
    <3> QED BY <2>1, <3>4
  <2> QED BY <1>3, <2>3
<1> QED BY <1>4, <1>5, <1>6, <1>7, <1>8 DEF SchedInv

\* A person retries a failed cycle, which nobody runs.
LEMMA RetryStep ==
    ASSUME SchedInv, NEW k \in CycleKeys, RetryCycle(k)
    PROVE  SchedInv' /\ Explains
<1>1. /\ cycle' = [cycle EXCEPT ![k] = "waiting"] /\ retries' = retries + 1
      /\ behind' = [w \in TickWorkers |-> behind[w] \/ doing[w][1] = "tick"]
      /\ UNCHANGED <<tick, enabled, doing, newTicks, newCycles>>
  BY DEF RetryCycle
<1>2. SchedTypeOK' /\ behind' \in [TickWorkers -> BOOLEAN] /\ retries' \in Nat
  BY <1>1 DEF SchedInv, SchedTypeOK, JobStates
<1>3. JobsHeld'
  BY <1>1 DEF SchedInv, SchedTypeOK, JobsHeld
<1>4. OneEach'
  BY <1>1 DEF SchedInv, OneEach
<1>5. \A w \in TickWorkers : newCycles[w] # {} => behind'[w]
  BY <1>1, TicksInsert
<1>6. LookStands'
  BY <1>1, <1>5 DEF LookStands
<1>7. Explains
  BY <1>1 DEF Explains, SchedInv
<1> QED BY <1>2, <1>3, <1>4, <1>6, <1>7 DEF SchedInv

LEMMA SwitchStep ==
    ASSUME SchedInv, NEW c \in Clients, Switch(c)
    PROVE  SchedInv' /\ Explains
<1>1. /\ UNCHANGED <<tick, cycle, doing, newTicks, newCycles, behind, retries>>
      /\ enabled' \subseteq enabled \cup {c}
  BY DEF Switch, drafts
<1>2. SchedTypeOK'
  BY <1>1 DEF SchedInv, SchedTypeOK
<1>3. JobsHeld' /\ OneEach' /\ LookStands'
  BY <1>1 DEF SchedInv, JobsHeld, OneEach, LookStands, CyclesInFlight
<1>4. \A o \in Orgs : CyclesInFlight(o)' = CyclesInFlight(o)
  BY <1>1 DEF CyclesInFlight
<1> QED BY <1>1, <1>2, <1>3, <1>4, NoneMore DEF SchedInv

\* Time moves a job's window, and nothing else of what a worker does.
LEMMA Moved ==
    /\ MovedBack(Nothing) = Nothing /\ MovedBack(Polled) = Polled
    /\ \A t : MovedBack(TickJob(t)) = TickJob(t - 1)
    /\ \A k : MovedBack(CycleJob(k)) = CycleJob(<<k[1], k[2] - 1>>)
<1>1. MovedBack(Nothing) = Nothing /\ MovedBack(Polled) = Polled
  BY DEF MovedBack, Nothing, Polled
<1>2. ASSUME NEW t PROVE MovedBack(TickJob(t)) = TickJob(t - 1)
  <2>1. MovedBack(TickJob(t)) = <<"tick", TickJob(t)[2] - 1>>
    BY Kinds DEF MovedBack
  <2> QED BY <2>1, Kinds DEF TickJob
<1>3. ASSUME NEW k PROVE MovedBack(CycleJob(k)) = CycleJob(<<k[1], k[2] - 1>>)
  <2>1. MovedBack(CycleJob(k)) = <<"cycle", <<CycleJob(k)[2][1], CycleJob(k)[2][2] - 1>>>>
    BY Kinds DEF MovedBack
  <2>2. CycleJob(k)[2] = k
    BY Kinds
  <2>3. MovedBack(CycleJob(k)) = <<"cycle", <<k[1], k[2] - 1>>>>
    BY <2>1, <2>2
  <2> QED BY <2>3 DEF CycleJob
<1> QED BY <1>1, <1>2, <1>3

\* Jobs are told apart by their windows and keys.
LEMMA Names ==
    /\ \A t, u : TickJob(t) = TickJob(u) => t = u
    /\ \A k, l : CycleJob(k) = CycleJob(l) => k = l
BY DEF TickJob, CycleJob

\* As many cycles, one window further on.
LEMMA ShiftedCount ==
    ASSUME NEW S \in SUBSET CycleKeys, NEW T \in SUBSET CycleKeys,
           \A k \in S : <<k[1], k[2] + 1>> \in T
    PROVE  Cardinality(S) <= Cardinality(T)
<1> DEFINE f == [k \in S |-> <<k[1], k[2] + 1>>]
<1>1. f \in [S -> T]
  OBVIOUS
<1>2. ASSUME NEW k \in S, NEW l \in S, f[k] = f[l] PROVE k = l
  <2>1. k[1] = l[1] /\ k[2] + 1 = l[2] + 1
    BY <1>2
  <2>2. PICK c \in Clients, t \in Windows : k = <<c, t>>
    BY DEF CycleKeys
  <2>3. PICK d \in Clients, u \in Windows : l = <<d, u>>
    BY DEF CycleKeys
  <2> QED BY <2>1, <2>2, <2>3 DEF Windows
<1> HIDE DEF f
<1>3. f \in Injection(S, T)
  BY <1>1, <1>2 DEF Injection, IsInjective
<1>4. IsFiniteSet(T)
  BY FiniteCycles
<1> QED BY <1>3, <1>4, FS_Injection

\* Time passes: what is worth keeping is in a window that is kept.
LEMMA WindowStep ==
    ASSUME SchedInv, NextWindow
    PROVE  SchedInv' /\ Explains
<1>1. /\ tick[0] # "waiting" /\ \A c \in Clients : cycle[c, 0] # "waiting"
      /\ \A w \in TickWorkers : 0 \notin newTicks[w] /\ \A c \in Clients : <<c, 0>> \notin newCycles[w]
      /\ tick' = [t \in Windows |-> IF t = Coming THEN "none" ELSE tick[t + 1]]
      /\ cycle' = [k \in CycleKeys |-> IF k[2] = Coming THEN "none" ELSE cycle[k[1], k[2] + 1]]
      /\ doing' = [w \in TickWorkers |-> MovedBack(doing[w])]
      /\ newTicks' = [w \in TickWorkers |-> {t - 1 : t \in newTicks[w]}]
      /\ newCycles' = [w \in TickWorkers |-> {<<k[1], k[2] - 1>> : k \in newCycles[w]}]
      /\ UNCHANGED <<enabled, behind, retries>>
  BY DEF NextWindow, spent
<1>2. /\ Depth \in Nat /\ Depth >= 3 /\ Coming = Depth - 1
      /\ \A t : t \in Windows <=> t \in Int /\ 0 <= t /\ t <= Depth - 1
  BY AutopilotAssumption DEF AutopilotAssumption, Coming, Windows
<1>3. \A c, t : <<c, t>> \in CycleKeys <=> c \in Clients /\ t \in Windows
  BY DEF CycleKeys
<1>4. ASSUME NEW k \in CycleKeys
      PROVE  k = <<k[1], k[2]>> /\ k[1] \in Clients /\ k[2] \in Windows
  BY DEF CycleKeys
<1>5. \A t \in Windows : t # Coming => t + 1 \in Windows
  BY <1>2
<1>6. \A t \in Windows : t # 0 => t - 1 \in Windows /\ t - 1 # Coming /\ (t - 1) + 1 = t
  BY <1>2
<1>7. ASSUME NEW w \in TickWorkers, NEW t \in Windows, doing[w] = TickJob(t)
      PROVE  /\ doing'[w] = TickJob(t - 1) /\ t - 1 \in Windows /\ tick'[t - 1] = "waiting"
  <2>1. tick[t] = "waiting" /\ t # 0
    BY <1>1, <1>7 DEF SchedInv, JobsHeld
  <2>2. doing'[w] = TickJob(t - 1)
    BY <1>1, <1>7, Moved
  <2> QED BY <1>1, <1>6, <2>1, <2>2
<1>8. ASSUME NEW w \in TickWorkers, NEW k \in CycleKeys, doing[w] = CycleJob(k)
      PROVE  /\ doing'[w] = CycleJob(<<k[1], k[2] - 1>>) /\ <<k[1], k[2] - 1>> \in CycleKeys
             /\ cycle'[<<k[1], k[2] - 1>>] = "waiting"
  <2>1. cycle[k] = "waiting" /\ k[2] # 0
    <3>1. cycle[k] = "waiting" /\ k = <<k[1], k[2]>> /\ k[1] \in Clients
      BY <1>4, <1>8 DEF SchedInv, JobsHeld
    <3>2. cycle[<<k[1], 0>>] # "waiting"
      BY <1>1, <3>1
    <3> QED BY <3>1, <3>2
  <2>2. doing'[w] = CycleJob(<<k[1], k[2] - 1>>)
    BY <1>1, <1>8, Moved
  <2>3. <<k[1], k[2] - 1>> \in CycleKeys /\ k[2] - 1 # Coming /\ (k[2] - 1) + 1 = k[2]
    BY <1>3, <1>4, <1>6, <2>1
  <2>4. cycle'[<<k[1], k[2] - 1>>] = cycle[<<k[1], k[2]>>]
    BY <1>1, <2>3
  <2> QED BY <1>4, <2>1, <2>2, <2>3, <2>4
<1>9. ASSUME NEW w \in TickWorkers, doing[w] \in {Nothing, Polled} PROVE doing'[w] = doing[w]
  BY <1>1, <1>9, Moved
<1>10. ASSUME NEW w \in TickWorkers
       PROVE  \/ doing[w] \in {Nothing, Polled}
              \/ \E t \in Windows : doing[w] = TickJob(t)
              \/ \E k \in CycleKeys : doing[w] = CycleJob(k)
  BY DEF SchedInv, SchedTypeOK, TickJob, CycleJob
<1>11. ASSUME NEW w \in TickWorkers, NEW k \in newCycles[w]
       PROVE  k \in CycleKeys /\ <<k[1], k[2] - 1>> \in CycleKeys
  <2>1. k \in CycleKeys
    BY DEF SchedInv, SchedTypeOK
  <2>2. k[2] # 0
    BY <1>1, <1>4, <2>1
  <2> QED BY <1>3, <1>4, <1>6, <2>1, <2>2
<1>12. SchedTypeOK' /\ behind' \in [TickWorkers -> BOOLEAN] /\ retries' \in Nat
  <2>1. tick' \in [Windows -> JobStates]
    BY <1>1, <1>5 DEF SchedInv, SchedTypeOK, JobStates
  <2>2. cycle' \in [CycleKeys -> JobStates]
    <3>1. ASSUME NEW k \in CycleKeys, k[2] # Coming PROVE <<k[1], k[2] + 1>> \in CycleKeys
      BY <1>3, <1>4, <1>5, <3>1
    <3> QED BY <1>1, <3>1 DEF SchedInv, SchedTypeOK, JobStates
  <2>3. ASSUME NEW w \in TickWorkers
        PROVE  doing'[w] \in {Nothing, Polled} \cup {<<"tick", t>> : t \in Windows}
                               \cup {<<"cycle", k>> : k \in CycleKeys}
    BY <1>7, <1>8, <1>9, <1>10 DEF TickJob, CycleJob
  <2>4. ASSUME NEW w \in TickWorkers PROVE newTicks'[w] \in SUBSET Windows
    <3>1. \A t \in newTicks[w] : t \in Windows /\ t # 0
      BY <1>1 DEF SchedInv, SchedTypeOK
    <3> QED BY <1>1, <1>6, <3>1
  <2>5. ASSUME NEW w \in TickWorkers PROVE newCycles'[w] \in SUBSET CycleKeys
    BY <1>1, <1>11
  <2>6. /\ doing' = [w \in TickWorkers |-> doing'[w]] /\ newTicks' = [w \in TickWorkers |-> newTicks'[w]]
        /\ newCycles' = [w \in TickWorkers |-> newCycles'[w]]
    BY <1>1
  <2> QED BY <1>1, <2>1, <2>2, <2>3, <2>4, <2>5, <2>6 DEF SchedInv, SchedTypeOK
<1>13. JobsHeld'
  <2>1. ASSUME NEW v \in TickWorkers
        PROVE  /\ \A t \in Windows : doing'[v] = TickJob(t) => tick'[t] = "waiting"
               /\ \A k \in CycleKeys : doing'[v] = CycleJob(k) => cycle'[k] = "waiting"
    <3>1. CASE doing[v] \in {Nothing, Polled}
      BY <1>9, <3>1, Kinds
    <3>2. ASSUME NEW u \in Windows, doing[v] = TickJob(u)
          PROVE  /\ \A t \in Windows : doing'[v] = TickJob(t) => tick'[t] = "waiting"
                 /\ \A k \in CycleKeys : doing'[v] # CycleJob(k)
      <4>1. doing'[v] = TickJob(u - 1) /\ tick'[u - 1] = "waiting"
        BY <1>7, <3>2
      <4> QED BY <4>1, Kinds, Names
    <3>3. ASSUME NEW l \in CycleKeys, doing[v] = CycleJob(l)
          PROVE  /\ \A k \in CycleKeys : doing'[v] = CycleJob(k) => cycle'[k] = "waiting"
                 /\ \A t \in Windows : doing'[v] # TickJob(t)
      <4>1. doing'[v] = CycleJob(<<l[1], l[2] - 1>>) /\ cycle'[<<l[1], l[2] - 1>>] = "waiting"
        BY <1>8, <3>3
      <4> DEFINE m == <<l[1], l[2] - 1>>
      <4>2. doing'[v] = CycleJob(m) /\ cycle'[m] = "waiting"
        BY <4>1
      <4> HIDE DEF m
      <4> QED BY <4>2, Kinds, Names
    <3> QED BY <1>10, <3>1, <3>2, <3>3
  <2>2. ASSUME NEW v \in TickWorkers, NEW u \in TickWorkers, doing'[u] = doing'[v],
               doing'[v] \notin {Nothing, Polled}
        PROVE  u = v
    <3>1. doing[u] \notin {Nothing, Polled} /\ doing[v] \notin {Nothing, Polled}
      BY <1>9, <2>2
    <3>2. doing[u] = doing[v]
      <4>1. ASSUME NEW t \in Windows, NEW r \in Windows, doing[u] = TickJob(t), doing[v] = TickJob(r)
            PROVE  t = r
        <5>1. t - 1 = r - 1
          <6>1. TickJob(t - 1) = TickJob(r - 1)
            BY <1>7, <2>2, <4>1
          <6> QED BY <6>1, Names
        <5> QED BY <1>2, <5>1
      <4>2. ASSUME NEW k \in CycleKeys, NEW l \in CycleKeys, doing[u] = CycleJob(k), doing[v] = CycleJob(l)
            PROVE  k = l
        <5>1. <<k[1], k[2] - 1>> = <<l[1], l[2] - 1>>
          <6>1. CycleJob(<<k[1], k[2] - 1>>) = CycleJob(<<l[1], l[2] - 1>>)
            BY <1>8, <2>2, <4>2
          <6> QED BY <6>1, Names
        <5>2. k[1] = l[1] /\ k[2] = l[2]
          BY <1>2, <1>4, <5>1
        <5> QED BY <1>4, <5>2
      <4>3. ASSUME NEW t \in Windows, NEW k \in CycleKeys,
                   \/ doing[u] = TickJob(t) /\ doing[v] = CycleJob(k)
                   \/ doing[v] = TickJob(t) /\ doing[u] = CycleJob(k)
            PROVE  FALSE
        <5>1. TickJob(t - 1) = CycleJob(<<k[1], k[2] - 1>>)
          BY <1>7, <1>8, <2>2, <4>3
        <5> QED BY <5>1, Kinds
      <4> QED BY <1>10, <3>1, <4>1, <4>2, <4>3
    <3> QED BY <3>1, <3>2 DEF SchedInv, JobsHeld
  <2> QED BY <2>1, <2>2 DEF JobsHeld
<1>14. OneEach'
  <2>1. ASSUME NEW w \in TickWorkers, newCycles'[w] # {}
        PROVE  \E t \in Windows : doing'[w] = TickJob(t)
    <3>1. newCycles[w] # {}
      BY <1>1, <2>1
    <3>2. PICK t \in Windows : doing[w] = TickJob(t)
      BY <3>1 DEF SchedInv, OneEach
    <3> QED BY <1>7, <3>2
  <2>2. ASSUME NEW w \in TickWorkers, NEW k \in newCycles'[w], NEW l \in newCycles'[w],
               OrgOf[k[1]] = OrgOf[l[1]]
        PROVE  k = l
    <3>1. PICK p \in newCycles[w] : k = <<p[1], p[2] - 1>>
      BY <1>1
    <3>2. PICK q \in newCycles[w] : l = <<q[1], q[2] - 1>>
      BY <1>1
    <3>3. OrgOf[p[1]] = OrgOf[q[1]]
      BY <2>2, <3>1, <3>2
    <3>4. p = q
      BY <3>3 DEF SchedInv, OneEach
    <3> QED BY <3>1, <3>2, <3>4
  <2> QED BY <2>1, <2>2 DEF OneEach
<1>15. ASSUME NEW o, NEW k \in CyclesInFlight(o)' PROVE <<k[1], k[2] + 1>> \in CyclesInFlight(o)
  <2>1. k \in CycleKeys /\ OrgOf[k[1]] = o /\ cycle'[k] = "waiting"
    BY DEF CyclesInFlight
  <2>2. k[2] # Coming /\ cycle[<<k[1], k[2] + 1>>] = "waiting"
    BY <1>1, <2>1
  <2>3. <<k[1], k[2] + 1>> \in CycleKeys
    BY <1>3, <1>4, <1>5, <2>1, <2>2
  <2> QED BY <2>1, <2>2, <2>3 DEF CyclesInFlight
<1>16. LookStands'
  <2> SUFFICES ASSUME NEW w \in TickWorkers, ~ behind'[w], NEW k \in newCycles'[w]
               PROVE  CyclesInFlight(OrgOf[k[1]])' = {}
    BY DEF LookStands
  <2>1. PICK p \in newCycles[w] : k[1] = p[1]
    <3>1. PICK p \in newCycles[w] : k = <<p[1], p[2] - 1>>
      BY <1>1
    <3> QED BY <3>1
  <2>2. CyclesInFlight(OrgOf[k[1]]) = {}
    BY <1>1, <2>1 DEF SchedInv, LookStands
  <2> QED BY <1>15, <2>2
<1>17. Explains
  <2> SUFFICES ASSUME NEW o \in Orgs
               PROVE  ~ (Cardinality(CyclesInFlight(o)') > Cardinality(CyclesInFlight(o)))
    BY DEF Explains
  <2>1. CyclesInFlight(o) \in SUBSET CycleKeys /\ CyclesInFlight(o)' \in SUBSET CycleKeys
    BY DEF CyclesInFlight
  <2>2. Cardinality(CyclesInFlight(o)') <= Cardinality(CyclesInFlight(o))
    BY <1>15, <2>1, ShiftedCount
  <2>3. Cardinality(CyclesInFlight(o)') \in Nat /\ Cardinality(CyclesInFlight(o)) \in Nat
    BY <2>1, FiniteCycles
  <2> QED BY <2>2, <2>3
<1> QED BY <1>12, <1>13, <1>14, <1>16, <1>17 DEF SchedInv

-----------------------------------------------------------------------------
(* The theorems.                                                           *)

\* Nothing runs yet.
LEMMA SchedInitially == SchedInit => SchedInv
<1> SUFFICES ASSUME SchedInit PROVE SchedInv
  OBVIOUS
<1>1. SchedTypeOK /\ behind \in [TickWorkers -> BOOLEAN] /\ retries \in Nat
  BY DEF SchedInit, SchedTypeOK, JobStates
<1>2. JobsHeld
  BY Kinds DEF SchedInit, JobsHeld
<1> QED BY <1>1, <1>2 DEF SchedInv, SchedInit, OneEach, LookStands

\* One case per action, and one for a step that changes nothing.
LEMMA SchedPreserved == SchedInv /\ [SchedNext]_schedVars => SchedInv' /\ Explains
<1> SUFFICES ASSUME SchedInv, [SchedNext]_schedVars PROVE SchedInv' /\ Explains
  OBVIOUS
<1>1. CASE NextWindow
  BY <1>1, WindowStep
<1>2. ASSUME NEW c \in Clients, Switch(c) PROVE SchedInv' /\ Explains
  BY <1>2, SwitchStep
<1>3. ASSUME NEW k \in CycleKeys, RetryCycle(k) PROVE SchedInv' /\ Explains
  BY <1>3, RetryStep
<1>4. ASSUME NEW w \in TickWorkers, WorkerMoves(w) \/ LoseWork(w) PROVE SchedInv' /\ Explains
  <2>1. CASE CommitWork(w)
    <3>1. /\ Committed(w, "completed", newTicks[w], newCycles[w]) /\ doing[w] # Nothing
          /\ UNCHANGED <<enabled, retries>> /\ "completed" \in JobStates
      BY <2>1 DEF CommitWork, spent, JobStates
    <3>2. newTicks[w] \in SUBSET newTicks[w] /\ newCycles[w] \in SUBSET newCycles[w]
      OBVIOUS
    <3> QED BY <3>1, <3>2, CommitStep
  <2> QED BY <1>4, <2>1, PollStep, RollbackStep, TakeTickStep, TakeCycleStep DEF WorkerMoves
<1>5. ASSUME NEW w \in TickWorkers, NEW outcome \in JobStates \ {"none"},
             NEW ts \in SUBSET newTicks[w], NEW ks \in SUBSET newCycles[w],
             HandlerFails(w, outcome, ts, ks)
      PROVE  SchedInv' /\ Explains
  <2>1. Committed(w, outcome, ts, ks) /\ doing[w] # Nothing /\ UNCHANGED <<enabled, retries>>
    BY <1>5 DEF HandlerFails
  <2> QED BY <2>1, CommitStep
<1>6. CASE UNCHANGED schedVars
  <2>1. SchedInv'
    BY <1>6 DEF schedVars, SchedInv, SchedTypeOK, JobsHeld, OneEach, LookStands, CyclesInFlight
  <2>2. \A o \in Orgs : CyclesInFlight(o)' \subseteq CyclesInFlight(o)
    BY <1>6 DEF schedVars, CyclesInFlight
  <2> QED BY <2>1, <2>2, NoneMore
<1> QED BY <1>1, <1>2, <1>3, <1>4, <1>5, <1>6 DEF SchedNext

\* The invariant that the results below are read from.
THEOREM SchedInvariance == SchedSpec => []SchedInv
BY SchedInitially, SchedPreserved, PTL DEF SchedSpec

\* Ticks, cycles and the open transactions of the workers are always of their
\* types, in whatever window.
THEOREM SchedTypes == SchedSpec => []SchedTypeOK
<1>1. SchedInv => SchedTypeOK
  BY DEF SchedInv
<1> QED BY <1>1, SchedInvariance, PTL

\* handle_autopilot_scheduler_tick skips an organisation that has a cycle in
\* flight: it gets a second one only from a tick that looked before the first
\* was committed, or from a person who retries a failed cycle.
THEOREM SecondCycleNeedsARace == SchedSpec => OverlapNeedsARace
<1>1. SchedInv /\ [SchedNext]_schedVars
        => [\A o \in Orgs :
              Cardinality(CyclesInFlight(o)') > Cardinality(CyclesInFlight(o))
              /\ Cardinality(CyclesInFlight(o)') > 1
                => \/ retries' > retries
                   \/ \E w \in TickWorkers : behind[w] /\ doing'[w] # doing[w]]_schedVars
  BY SchedPreserved DEF Explains
<1> QED BY <1>1, SchedInvariance, PTL DEF SchedSpec, OverlapNeedsARace

-----------------------------------------------------------------------------
(* The components side by side.                                            *)

\* A step of the composition is a step of each component, or leaves it alone.
LEMMA WorkSteps ==
    [WorkNext]_workVars => [LeadNext]_leadVars /\ [SchedNext]_schedVars /\ [RunNext]_runVars
BY DEF WorkNext, workVars

\* Whoever is given a turn, and whoever is not: the composition keeps the
\* invariants of its components.
THEOREM WorkInvariance == WorkSpec => [](LeadInv /\ SchedInv /\ RunInv)
<1>1. MediaAssumption
  BY MediaAssumption
<1>2. WorkInit => LeadInv /\ SchedInv /\ RunInv
  BY <1>1, LeadInitially, SchedInitially, RunInvInit DEF WorkInit
<1>3. LeadInv /\ SchedInv /\ RunInv /\ [WorkNext]_workVars => LeadInv' /\ SchedInv' /\ RunInv'
  BY <1>1, WorkSteps, LeadPreserved, SchedPreserved, RunInvKept
<1> QED BY <1>2, <1>3, PTL DEF WorkSpec

\* Deliveries, ticks, cycles, media and runs are always of their types.
THEOREM WorkIsTyped == WorkSpec => []TypeOK
<1>1. LeadInv /\ SchedInv /\ RunInv => TypeOK
  BY DEF TypeOK, LeadInv, SchedInv, RunInv, MediaInv
<1> QED BY <1>1, WorkInvariance, PTL

\* A second cycle of an organisation needs a race in the composition, too.
THEOREM WorkOverlapNeedsARace == WorkSpec => OverlapNeedsARace
<1>1. SchedInv /\ [WorkNext]_workVars
        => [\A o \in Orgs :
              Cardinality(CyclesInFlight(o)') > Cardinality(CyclesInFlight(o))
              /\ Cardinality(CyclesInFlight(o)') > 1
                => \/ retries' > retries
                   \/ \E w \in TickWorkers : behind[w] /\ doing'[w] # doing[w]]_schedVars
  BY WorkSteps, SchedPreserved DEF Explains
<1> QED BY <1>1, WorkInvariance, PTL DEF WorkSpec, OverlapNeedsARace
=============================================================================
