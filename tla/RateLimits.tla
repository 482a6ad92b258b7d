------------------------------ MODULE RateLimits ------------------------------
(***************************************************************************)
(* One budget of app/security/rate_limit.py: `limit` requests of a key per *)
(* window, counted in Redis in fixed windows that all API processes share, *)
(* and, while Redis is out of reach, by each process in a sliding window   *)
(* of its own (or not at all: such requests are refused).  Budgets do not  *)
(* depend on each other, so one is enough; where two must pass, `enforce`  *)
(* is called twice.                                                        *)
(*                                                                         *)
(* A request reads the clock for the name of its window before Redis       *)
(* counts it; all processes read the same clock.                           *)
(***************************************************************************)
EXTENDS Integers, FiniteSets

CONSTANTS
    Hitters,      \* requests that can be in flight
    Processes,    \* lives of API processes: a restart forgets local counts
    Limit,        \* policy.limit
    Window,       \* policy.window_seconds
    MaxMoment,    \* bound: the clock
    MaxHits       \* bound: requests

ASSUME LimitAssumption ==
    /\ Limit \in Nat \ {0} /\ Window \in Nat \ {0}
    /\ MaxMoment \in Nat /\ MaxHits \in Nat

Moments == 0 .. MaxMoment
Slot(t) == t \div Window
Slots   == 0 .. Slot(MaxMoment)

VARIABLES
    moment,    \* the clock
    degrade,   \* settings.rate_limit_degrade_to_local
    counter,   \* slot: its key in Redis, the count and when it expires
    bucket,    \* process: moment -> requests that it let in by itself
    entered,   \* request: where and when it came, NoHit when idle
    passed,    \* moment: requests that came then and Redis let in
    hits,      \* requests so far
    forgotten  \* slots whose key expired and was counted from one again

limitVars == <<moment, degrade, counter, bucket, entered, passed, hits, forgotten>>

NoHit == [on |-> "none"]

LimitInit ==
    /\ moment = 0 /\ degrade \in BOOLEAN
    /\ counter = [k \in Slots |-> [count |-> 0, until |-> 0]]
    /\ bucket = [i \in Processes |-> [t \in Moments |-> 0]]
    /\ entered = [r \in Hitters |-> NoHit]
    /\ passed = [t \in Moments |-> 0]
    /\ hits = 0 /\ forgotten = {}

-----------------------------------------------------------------------------
\* RedisRateLimitBackend.hit, up to the name of the key.
Enter(r, i) ==
    /\ entered[r] = NoHit /\ hits < MaxHits
    /\ hits' = hits + 1
    /\ entered' = [entered EXCEPT ![r] = [on |-> i, at |-> moment]]
    /\ UNCHANGED <<moment, degrade, counter, bucket, passed, forgotten>>

\* What the key holds when it is incremented.
CountOf(k) == IF moment < counter[k].until THEN counter[k].count ELSE 0

\* INCR and EXPIRE, one transaction.
Increment(k) ==
    /\ counter' = [counter EXCEPT ![k] = [count |-> CountOf(k) + 1,
                                          until |-> moment + Window + 1]]
    /\ forgotten' = IF CountOf(k) < counter[k].count THEN forgotten \cup {k} ELSE forgotten

Leaves(r) == entered' = [entered EXCEPT ![r] = NoHit]

\* Mutant: one request more than the limit.
LetIn_OneMore(count) == count <= Limit + 1

LetIn(count) == count <= Limit

\* Redis answers with the count.
CountedByRedis(r) ==
    LET t == entered[r].at
        k == Slot(t)
    IN  /\ entered[r] # NoHit
        /\ Increment(k)
        /\ passed' = IF LetIn(CountOf(k) + 1) THEN [passed EXCEPT ![t] = @ + 1] ELSE passed
        /\ Leaves(r)
        /\ UNCHANGED <<moment, degrade, bucket, hits>>

\* What f counts from one moment to another, one by one.
HitsIn(f, from, to) == UNION {{t} \X (1 .. f[t]) : t \in Moments \cap (from .. to)}

Total(f, from, to) == Cardinality(HitsIn(f, from, to))

\* The hits that are left in the bucket: the ones older than the window go.
Recent(i) == Total(bucket[i], moment - Window, moment)

\* InMemoryRateLimitBackend.hit: a refused request is not counted.
HitLocally(i) ==
    bucket' = IF Recent(i) >= Limit THEN bucket ELSE [bucket EXCEPT ![i][moment] = @ + 1]

\* _degraded: the process counts by itself, or the request is refused.  Redis
\* may have counted a request whose answer got lost.
Degraded(r, counted) ==
    /\ entered[r] # NoHit
    /\ IF counted THEN Increment(Slot(entered[r].at)) ELSE UNCHANGED <<counter, forgotten>>
    /\ IF degrade THEN HitLocally(entered[r].on) ELSE UNCHANGED bucket
    /\ Leaves(r)
    /\ UNCHANGED <<moment, degrade, passed, hits>>

Pass ==
    /\ moment < MaxMoment /\ moment' = moment + 1
    /\ UNCHANGED <<degrade, counter, bucket, entered, passed, hits, forgotten>>

LimitNext ==
    \/ Pass
    \/ \E r \in Hitters :
         \/ \E i \in Processes : Enter(r, i)
         \/ CountedByRedis(r)
         \/ \E counted \in BOOLEAN : Degraded(r, counted)

LimitSpec == LimitInit /\ [][LimitNext]_limitVars

-----------------------------------------------------------------------------
LimitTypeOK ==
    /\ moment \in Moments /\ degrade \in BOOLEAN /\ hits \in 0 .. MaxHits
    /\ counter \in [Slots -> [count : Nat, until : Nat]]
    /\ bucket \in [Processes -> [Moments -> Nat]] /\ passed \in [Moments -> Nat]
    /\ \A r \in Hitters : entered[r] = NoHit \/ entered[r] \in [on : Processes, at : Moments]
    /\ forgotten \subseteq Slots

\* "limits are shared across API instances": in whatever period as long as the
\* window, at most two budgets are spent (the period meets two fixed windows)
\* and one more by each process that counted for itself; unless a request came
\* to Redis so late that its key had expired.
BudgetHolds ==
    \A t \in 0 .. moment :
        LET own == [i \in Processes |-> HitsIn(bucket[i], t, t + Window)]
        IN  forgotten \cap {Slot(t), Slot(t + Window)} = {} =>
                Total(passed, t, t + Window) + Cardinality(UNION {{i} \X own[i] : i \in Processes})
                    <= Limit * (2 + Cardinality({i \in Processes : own[i] # {}}))
=============================================================================
