-------------------------- MODULE AutopilotScheduler --------------------------
(***************************************************************************)
(* The scheduled autopilot: app/jobs/autopilot_scheduler.py, its handlers  *)
(* in app/jobs/handlers.py and the worker's cycle around them.  A tick job *)
(* per window enqueues one cycle job per client; the key of either names   *)
(* its window.                                                             *)
(*                                                                         *)
(* The queue is the one of module JobQueue, seen as its callers may: a     *)
(* worker's cycle is one transaction, a row it runs is locked by it, and   *)
(* the first of two sessions to commit a key makes the other one lose its  *)
(* whole cycle.  A worker settles one job per cycle here.                  *)
(*                                                                         *)
(* A window is numbered by its place among the Depth last ones: Now is the *)
(* current one, the one after it the only one in the future, and the rows  *)
(* of the oldest one are forgotten when time passes - jobs may be late by  *)
(* Depth - 2 windows.                                                      *)
(***************************************************************************)
EXTENDS Integers, FiniteSetsExt

CONSTANTS
    TickWorkers,
    Clients,        \* a set of numbers, in the order of created_at
    OrgOf,          \* client -> organisation, a number in the order of ids
    MaxOrgs,        \* AUTOPILOT_MAX_ORGS_PER_CYCLE
    Depth,          \* bound: windows that are told apart
    MaxSwitches,    \* bound: automation switched on or off
    MaxTickFaults,  \* bound: handlers that fail, cycles that are lost
    MaxRetries      \* bound: failed cycles that a person retries

Windows   == 0..Depth - 1
Now       == Depth - 2
Coming    == Depth - 1      \* the window after this one
Orgs      == {OrgOf[c] : c \in Clients}
CycleKeys == Clients \X Windows
JobStates == {"none", "waiting", "completed", "failed"}
Nothing   == <<"nothing">>
Polled    == <<"polled">>

ASSUME AutopilotAssumption ==
    /\ Clients \subseteq Nat /\ IsFiniteSet(Clients)
    /\ OrgOf \in [Clients -> Nat]
    /\ MaxOrgs \in Nat \ {0} /\ Depth \in Nat /\ Depth >= 3
    /\ MaxSwitches \in Nat /\ MaxTickFaults \in Nat /\ MaxRetries \in Nat

VARIABLES
    tick,       \* window: its tick job
    cycle,      \* client, window: its cycle job
    enabled,    \* clients whose effective automation_enabled is set
    doing,      \* worker: the job its open cycle runs
    newTicks,   \* worker: windows whose tick it has inserted
    newCycles,  \* worker: cycles it has inserted
    behind,     \* worker: cycles were committed since its tick looked for them
    switches, tickFaults, retries   \* so far

schedVars == <<tick, cycle, enabled, doing, newTicks, newCycles, behind,
               switches, tickFaults, retries>>

drafts == <<doing, newTicks, newCycles, behind>>
spent  == <<switches, tickFaults, retries>>

Locked(job) == \E w \in TickWorkers : doing[w] = job

CyclesInFlight(o) == {k \in CycleKeys : OrgOf[k[1]] = o /\ cycle[k] = "waiting"}

SchedInit ==
    /\ tick = [t \in Windows |-> "none"]
    /\ cycle = [k \in CycleKeys |-> "none"]
    /\ enabled \in SUBSET Clients
    /\ doing = [w \in TickWorkers |-> Nothing]
    /\ newTicks = [w \in TickWorkers |-> {}]
    /\ newCycles = [w \in TickWorkers |-> {}]
    /\ behind = [w \in TickWorkers |-> FALSE]
    /\ switches = 0 /\ tickFaults = 0 /\ retries = 0

-----------------------------------------------------------------------------
\* Mutant: only ticks schedule ticks.
Poll_NoEnsure(w) ==
    /\ doing[w] = Nothing
    /\ doing' = [doing EXCEPT ![w] = Polled]
    /\ UNCHANGED <<tick, cycle, enabled, newTicks, newCycles, behind, spent>>

\* ensure_scheduler_tick, at the start of a worker's cycle: a tick for the
\* current window, unless one is in flight or that key is already used.
Poll(w) ==
    /\ doing[w] = Nothing
    /\ doing' = [doing EXCEPT ![w] = Polled]
    /\ newTicks' = [newTicks EXCEPT ![w] =
         IF tick[Now] = "none" /\ \A t \in Windows : tick[t] # "waiting"
         THEN {Now} ELSE {}]
    /\ UNCHANGED <<tick, cycle, enabled, newCycles, behind, spent>>

\* discover_autopilot_targets: the clients of the first MaxOrgs organisations
\* that have an enabled one.
Targets ==
    LET orgs == {OrgOf[c] : c \in enabled}
    IN  {c \in enabled : Cardinality({o \in orgs : o < OrgOf[c]}) < MaxOrgs}

\* Mutant: an organisation with a cycle in flight is not skipped.
Skipped_Never(o) == FALSE

Skipped(o) == CyclesInFlight(o) # {}

\* Mutant: newest clients first.
Enqueued_Newest(t) ==
    LET free(o) == {c \in Targets : OrgOf[c] = o /\ cycle[c, t] = "none"}
    IN  {<<Max(free(o)), t>> : o \in {p \in Orgs : ~ Skipped(p) /\ free(p) # {}}}

\* enqueue_autopilot_cycle over the targets in order: the first client of an
\* organisation whose key is free gets a cycle, which then is the one in flight.
Enqueued(t) ==
    LET free(o) == {c \in Targets : OrgOf[c] = o /\ cycle[c, t] = "none"}
    IN  {<<Min(free(o)), t>> : o \in {p \in Orgs : ~ Skipped(p) /\ free(p) # {}}}

\* schedule_next_scheduler_tick.
NextTick == IF tick[Coming] = "none" THEN {Coming} ELSE {}

TakeTick(w, t) ==
    /\ doing[w] = Polled
    /\ tick[t] = "waiting" /\ t # Coming /\ ~ Locked(<<"tick", t>>)
    /\ doing' = [doing EXCEPT ![w] = <<"tick", t>>]
    /\ newCycles' = [newCycles EXCEPT ![w] = Enqueued(t)]
    /\ newTicks' = [newTicks EXCEPT ![w] = @ \cup NextTick]
    /\ behind' = [behind EXCEPT ![w] = FALSE]
    /\ UNCHANGED <<tick, cycle, enabled, spent>>

TakeCycle(w, k) ==
    /\ doing[w] = Polled
    /\ cycle[k] = "waiting" /\ ~ Locked(<<"cycle", k>>)
    /\ doing' = [doing EXCEPT ![w] = <<"cycle", k>>]
    /\ UNCHANGED <<tick, cycle, enabled, newTicks, newCycles, behind, spent>>

Takeable ==
    \/ \E t \in Windows \ {Coming} : tick[t] = "waiting" /\ ~ Locked(<<"tick", t>>)
    \/ \E k \in CycleKeys : cycle[k] = "waiting" /\ ~ Locked(<<"cycle", k>>)

Ended(w) ==
    /\ doing' = [doing EXCEPT ![w] = Nothing]
    /\ newTicks' = [newTicks EXCEPT ![w] = {}]
    /\ newCycles' = [newCycles EXCEPT ![w] = {}]

RolledBack(w) == Ended(w) /\ behind' = [behind EXCEPT ![w] = FALSE]

\* The commit of a cycle that leaves its job in `outcome', with the ticks and
\* cycles in ts and ks among what it has inserted.
Committed(w, outcome, ts, ks) ==
    /\ \A t \in ts : tick[t] = "none"
    /\ \A k \in ks : cycle[k] = "none"
    /\ tick' = [t \in Windows |->
                  IF t \in ts THEN "waiting"
                  ELSE IF doing[w] = <<"tick", t>> THEN outcome ELSE tick[t]]
    /\ cycle' = [k \in CycleKeys |->
                  IF k \in ks THEN "waiting"
                  ELSE IF doing[w] = <<"cycle", k>> THEN outcome ELSE cycle[k]]
    /\ behind' = [v \in TickWorkers |->
                    v # w /\ (behind[v] \/ (ks # {} /\ doing[v][1] = "tick"))]
    /\ Ended(w)

\* A cycle with nothing to run commits what ensure_scheduler_tick inserted.
\* The handler of a cycle that finds automation disabled completes at once.
CommitWork(w) ==
    /\ doing[w] # Nothing /\ (doing[w] = Polled => ~ Takeable)
    /\ Committed(w, "completed", newTicks[w], newCycles[w])
    /\ UNCHANGED <<enabled, spent>>

\* A handler raises: the queue puts its job back or, after the last attempt,
\* fails it, and what the session had inserted is committed with that.  A tick
\* inserts cycles before the next tick, and goes on after a client that raises.
HandlerFails(w, outcome, ts, ks) ==
    /\ doing[w] \notin {Nothing, Polled}
    /\ doing[w][1] = "cycle" \/ outcome = "completed" => ts = newTicks[w]
    /\ doing[w][1] = "cycle" => outcome # "completed"
    /\ tickFaults < MaxTickFaults /\ tickFaults' = tickFaults + 1
    /\ Committed(w, outcome, ts, ks)
    /\ UNCHANGED <<enabled, switches, retries>>

\* The worker dies.
LoseWork(w) ==
    /\ doing[w] # Nothing
    /\ tickFaults < MaxTickFaults /\ tickFaults' = tickFaults + 1
    /\ RolledBack(w)
    /\ UNCHANGED <<tick, cycle, enabled, switches, retries>>

\* Another session committed a key that this one has inserted: IntegrityError,
\* and the cycle is rolled back.
LoseKeyRace(w) ==
    /\ \/ \E t \in newTicks[w] : tick[t] # "none"
       \/ \E k \in newCycles[w] : cycle[k] # "none"
    /\ RolledBack(w)
    /\ UNCHANGED <<tick, cycle, enabled, spent>>

-----------------------------------------------------------------------------
\* POST /jobs/{id}/retry of a failed cycle.
RetryCycle(k) ==
    /\ cycle[k] = "failed" /\ retries < MaxRetries
    /\ cycle' = [cycle EXCEPT ![k] = "waiting"]
    /\ retries' = retries + 1
    /\ behind' = [w \in TickWorkers |-> behind[w] \/ doing[w][1] = "tick"]
    /\ UNCHANGED <<tick, enabled, doing, newTicks, newCycles, switches, tickFaults>>

\* A person switches automation on or off for a client.
Switch(c) ==
    /\ switches < MaxSwitches /\ switches' = switches + 1
    /\ enabled' = IF c \in enabled THEN enabled \ {c} ELSE enabled \cup {c}
    /\ UNCHANGED <<tick, cycle, drafts, tickFaults, retries>>

\* Time passes: every window moves one place back.  No job and no open
\* transaction is as old as the window that is forgotten.
MovedBack(job) ==
    IF job[1] = "tick" THEN <<"tick", job[2] - 1>>
    ELSE IF job[1] = "cycle" THEN <<"cycle", <<job[2][1], job[2][2] - 1>>>>
    ELSE job

NextWindow ==
    /\ tick[0] # "waiting" /\ \A c \in Clients : cycle[c, 0] # "waiting"
    /\ \A w \in TickWorkers : 0 \notin newTicks[w] /\ \A c \in Clients : <<c, 0>> \notin newCycles[w]
    /\ tick' = [t \in Windows |-> IF t = Coming THEN "none" ELSE tick[t + 1]]
    /\ cycle' = [k \in CycleKeys |-> IF k[2] = Coming THEN "none" ELSE cycle[k[1], k[2] + 1]]
    /\ doing' = [w \in TickWorkers |-> MovedBack(doing[w])]
    /\ newTicks' = [w \in TickWorkers |-> {t - 1 : t \in newTicks[w]}]
    /\ newCycles' = [w \in TickWorkers |-> {<<k[1], k[2] - 1>> : k \in newCycles[w]}]
    /\ UNCHANGED <<enabled, behind, spent>>

WorkerMoves(w) ==
    \/ Poll(w) \/ CommitWork(w) \/ LoseKeyRace(w)
    \/ \E t \in Windows : TakeTick(w, t)
    \/ \E k \in CycleKeys : TakeCycle(w, k)

SchedNext ==
    \/ NextWindow
    \/ \E c \in Clients : Switch(c)
    \/ \E k \in CycleKeys : RetryCycle(k)
    \/ \E w \in TickWorkers :
         \/ WorkerMoves(w) \/ LoseWork(w)
         \/ \E outcome \in JobStates \ {"none"}, ts \in SUBSET newTicks[w],
               ks \in SUBSET newCycles[w] : HandlerFails(w, outcome, ts, ks)

\* run_forever polls and handlers return or raise; time passes.
SchedFairness ==
    /\ WF_schedVars(NextWindow)
    /\ \A w \in TickWorkers : WF_schedVars(WorkerMoves(w))

SchedSpec == SchedInit /\ [][SchedNext]_schedVars /\ SchedFairness

-----------------------------------------------------------------------------
SchedTypeOK ==
    /\ tick \in [Windows -> JobStates]
    /\ cycle \in [CycleKeys -> JobStates]
    /\ enabled \subseteq Clients
    /\ doing \in [TickWorkers -> {Nothing, Polled} \cup
                    {<<"tick", t>> : t \in Windows} \cup {<<"cycle", k>> : k \in CycleKeys}]
    /\ newTicks \in [TickWorkers -> SUBSET Windows]
    /\ newCycles \in [TickWorkers -> SUBSET CycleKeys]

\* "If one exists, the org is skipped for that tick": an organisation gets a
\* second cycle in flight only from a tick that looked before the first one was
\* committed, or from a person who retries a failed cycle.
OverlapNeedsARace ==
    [][\A o \in Orgs :
         Cardinality(CyclesInFlight(o)') > Cardinality(CyclesInFlight(o)) /\ Cardinality(CyclesInFlight(o)') > 1
           => \/ retries' > retries
              \/ \E w \in TickWorkers : behind[w] /\ doing'[w] # doing[w]]_schedVars

\* Scheduling survives everything: however ticks fail, are lost or lose races,
\* an organisation among the first MaxOrgs gets cycles for as long as a client
\* of it stays enabled.
OrgsAreServed ==
    \A o \in Orgs :
        Cardinality({p \in Orgs : p < o}) < MaxOrgs =>
            (<>[](\E c \in enabled : OrgOf[c] = o) => []<>(CyclesInFlight(o) # {}))

\* And the client that stays the first enabled one of its organisation is one
\* of those served (the others may not be: its cycle is in flight when their
\* turn comes).
FirstClientsAreServed ==
    \A c \in Clients :
        Cardinality({p \in Orgs : p < OrgOf[c]}) < MaxOrgs =>
            (<>[](c \in enabled /\ \A d \in enabled : OrgOf[d] = OrgOf[c] => d >= c)
                => []<>(\E t \in Windows : cycle[c, t] = "waiting"))
=============================================================================
