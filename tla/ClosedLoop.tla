------------------------------ MODULE ClosedLoop ------------------------------
(***************************************************************************)
(* The closed loop of one client: performance recommendations, their       *)
(* evaluation under policy and gates, and the actions created from them    *)
(* (app/optimization/, app/automation/production_gates.py, the creation of *)
(* actions in app/services/action_service.py).                             *)
(*                                                                         *)
(* A session evaluates one recommendation (approval by a person) or a      *)
(* batch of them (the autopilot's cycle) in one transaction: it sees the   *)
(* committed actions and its own.  An action is named by its               *)
(* recommendation: its idempotency key is made of the fingerprint.         *)
(* Thresholds, evidence, budgets, allowlists and capabilities of the       *)
(* policy, and the latches of actions that nobody approved, are one        *)
(* choice, fit or not.                                                     *)
(*                                                                         *)
(* blind, missed, alone and dropped are history.                           *)
(***************************************************************************)
EXTENDS Integers, FiniteSetsExt

CONSTANTS
    Evaluators,     \* worker cycles and requests at a time
    Recs,           \* recommendations, numbers in the order of created_at
    Proposal,       \* recommendation -> its kind, campaign and risk
    Policies,       \* autonomy settings an organisation may have
    MaxAutoRisk,    \* OPTIMIZATION_MAX_AUTONOMOUS_RISK
    MaxActions,     \* OPTIMIZATION_MAX_ACTIONS_PER_DAY
    MaxIncreases,   \* OPTIMIZATION_MAX_CONSECUTIVE_BUDGET_INCREASES
    MaxCampaigns,   \* AUTONOMOUS_MAX_CAMPAIGNS_PER_CYCLE
    BatchLimit,     \* max_ai_actions_per_cycle
    MaxDays,        \* bound: days
    MaxSessions     \* bound: batches, approvals and patches

Risks == [low |-> 1, medium |-> 2, high |-> 3]
Kinds == {"pause", "resume", "increase", "decrease"}

ASSUME LoopAssumption ==
    /\ Recs \subseteq Nat /\ IsFiniteSet(Recs) /\ Recs # {}
    /\ \A r \in Recs : Proposal[r].kind \in Kinds /\ Proposal[r].risk \in 1..3
    /\ MaxAutoRisk \in 1..3
    /\ \A n \in {MaxActions, MaxIncreases, MaxCampaigns, BatchLimit} : n \in Nat \ {0}
    /\ MaxDays \in Nat /\ MaxSessions \in Nat
    /\ Policies \subseteq [mode : {"copilot", "assisted", "autonomous"},
                           automation : BOOLEAN, financial : BOOLEAN]

\* The cooldowns of the default settings, in days.
Cooldown         == 1
OppositeCooldown == 2
IncreaseWindow   == 3
CapWindow        == 1

NoAction     == [state |-> "none", day |-> 0]

\* doubtful: FAILED, with a reconciliation that is open.
ActionStates == {"none", "pending", "completed", "failed", "doubtful", "rejected"}
RecStates    == {"new", "reviewed", "approved", "rejected", "expired"}

VARIABLES
    autonomy,   \* the client's effective autonomy settings
    today,
    recStatus,  \* recommendation: its committed status
    action,     \* recommendation: its committed action
    trigger,    \* session: what it evaluates for, idle otherwise
    left,       \* session: recommendations it has still to evaluate
    known,      \* session: recommendation -> the status it loaded
    marks,      \* session: recommendation -> the status it has set
    drafted,    \* session: recommendation -> the action it has inserted
    touched,    \* session: campaigns its batch has touched
    sessions,   \* so far
    blind,      \* pairs of actions: the second was uncommitted elsewhere when the first was checked
    missed,     \* pairs of actions: the second was FAILED when the first was checked
    alone,      \* recommendations carried out with no person having decided
    dropped     \* recommendations rejected while no session had them, and not reopened

loopVars == <<autonomy, today, recStatus, action, trigger, left, known,
              marks, drafted, touched, sessions, blind, missed, alone, dropped>>

loopSession == <<trigger, left, known, marks, drafted, touched>>
loopHistory == <<blind, missed, alone, dropped>>

Empty == [r \in {} |-> "none"]
Noted(f, r, v) == [x \in DOMAIN f \cup {r} |-> IF x = r THEN v ELSE f[x]]

\* What a session sees of the actions.
Seen(s, r) == IF r \in DOMAIN drafted[s] THEN drafted[s][r] ELSE action[r]

LoopInit ==
    /\ autonomy \in Policies
    /\ today = 0
    /\ recStatus = [r \in Recs |-> "new"]
    /\ action = [r \in Recs |-> NoAction]
    /\ trigger = [s \in Evaluators |-> "idle"]
    /\ left = [s \in Evaluators |-> {}]
    /\ known = [s \in Evaluators |-> Empty]
    /\ marks = [s \in Evaluators |-> Empty]
    /\ drafted = [s \in Evaluators |-> Empty]
    /\ touched = [s \in Evaluators |-> {}]
    /\ sessions = 0
    /\ blind = {} /\ missed = {} /\ alone = {} /\ dropped = {}

-----------------------------------------------------------------------------
(* Policy and gates.                                                       *)

Counts(a, window, states) == a.state \in states /\ today - a.day < window

Underway == {"pending", "completed"}

\* The status FAILED: an execution may still complete the action, and so may a
\* reconciliation of a doubtful one.
Failing == {"failed", "doubtful"}

OnCampaign(r) == {q \in Recs : Proposal[q].campaign = Proposal[r].campaign}

ActionType(r) ==
    IF Proposal[r].kind \in {"increase", "decrease"} THEN "update_budget" ELSE Proposal[r].kind

Opposites(k, l) == {k, l} = {"pause", "resume"}

\* Mutant: a cap that may be reached again.
UnderCap_OffByOne(s) ==
    Cardinality({q \in Recs : Counts(Seen(s, q), CapWindow, ActionStates \ {"none"})}) <= MaxActions

UnderCap(s) ==
    Cardinality({q \in Recs : Counts(Seen(s, q), CapWindow, ActionStates \ {"none"})}) < MaxActions

SameCooldown(s, r) ==
    \A q \in OnCampaign(r) :
        ActionType(q) = ActionType(r)
            => ~ Counts(Seen(s, q), Cooldown, Underway \cup Failing)

\* Mutant: only pauses look back.
OppositeCooled_OneWay(s, r) ==
    Proposal[r].kind = "pause" =>
        \A q \in OnCampaign(r) :
            Opposites(Proposal[q].kind, Proposal[r].kind)
                => ~ Counts(Seen(s, q), OppositeCooldown, Underway)

OppositeCooled(s, r) ==
    \A q \in OnCampaign(r) :
        Opposites(Proposal[q].kind, Proposal[r].kind)
            => ~ Counts(Seen(s, q), OppositeCooldown, Underway)

FewIncreases(s, r) ==
    Proposal[r].kind = "increase" =>
        Cardinality({q \in OnCampaign(r) :
                        /\ Proposal[q].kind = "increase"
                        /\ Counts(Seen(s, q), IncreaseWindow, Underway)}) < MaxIncreases

\* The action of an earlier evaluation: a failed one blocks all but approval.
NotDuplicate(s, r) ==
    Seen(s, r).state \notin Underway \cup (IF trigger[s] = "approve" THEN {} ELSE Failing)

\* Mutant: what a person has decided is not looked at.
PolicyAllows_Rejected(s, r) ==
    /\ UnderCap(s) /\ SameCooldown(s, r) /\ OppositeCooled(s, r)
    /\ FewIncreases(s, r) /\ NotDuplicate(s, r)

\* evaluate_policy, apart from what is a choice here; the status is the one
\* the session has loaded.
PolicyAllows(s, r) ==
    /\ known[s][r] \notin {"rejected", "expired"}
    /\ UnderCap(s) /\ SameCooldown(s, r) /\ OppositeCooled(s, r)
    /\ FewIncreases(s, r) /\ NotDuplicate(s, r)

LoopMode ==
    IF ~ autonomy.automation \/ autonomy.mode = "copilot" THEN "MANUAL"
    ELSE IF autonomy.mode = "autonomous" /\ ~ autonomy.financial THEN "AUTONOMOUS"
    ELSE "APPROVAL_REQUIRED"

CanAuto(r) ==
    /\ LoopMode = "AUTONOMOUS"
    /\ Proposal[r].risk <= MaxAutoRisk /\ Proposal[r].risk # Risks.high

\* evaluate_production_gates, apart from what is a choice here.
GatesOpen == autonomy.automation

\* ActionValidator._requires_approval of these kinds, which are all financial;
\* in assisted mode the registry's default risk decides.
RequiresApproval(r) ==
    \/ autonomy.mode = "copilot" \/ autonomy.financial
    \/ autonomy.mode = "assisted" /\ Proposal[r].kind \in {"increase", "decrease"}

-----------------------------------------------------------------------------
(* Evaluation.                                                             *)

Begin(s, t, rs) ==
    /\ trigger[s] = "idle" /\ sessions < MaxSessions
    /\ sessions' = sessions + 1
    /\ trigger' = [trigger EXCEPT ![s] = t]
    /\ left' = [left EXCEPT ![s] = rs]
    /\ known' = [known EXCEPT ![s] = [r \in rs |-> recStatus[r]]]
    /\ UNCHANGED <<autonomy, today, recStatus, action, marks, drafted,
                   touched, loopHistory>>

\* process_client_recommendations loads the first ones that are still open.
StartBatch(s) ==
    LET open == {r \in Recs : recStatus[r] \in {"new", "reviewed"}}
    IN  Begin(s, "autopilot_cycle",
              {r \in open : Cardinality({q \in open : q < r}) < BatchLimit})

\* POST /recommendations/{id}/approve.
StartApprove(s, r) == Begin(s, "approve", {r})

Turn(s, r) == r \in left[s] /\ \A q \in left[s] : r <= q

Finish(s, r, mark, touch) ==
    /\ left' = [left EXCEPT ![s] = @ \ {r}]
    /\ marks' = [marks EXCEPT ![s] = IF mark = known[s][r] THEN @ ELSE Noted(@, r, mark)]
    /\ touched' = [touched EXCEPT ![s] = IF touch THEN @ \cup {Proposal[r].campaign} ELSE @]

Full(s) == Cardinality(touched[s]) >= MaxCampaigns

\* BLOCKED, NO_ACTION, or skipped: the batch has touched its campaigns, the
\* policy or a gate says no, or the mode is manual.
Decline(s, r, fit) ==
    /\ Turn(s, r)
    /\ \/ Full(s)
       \/ ~ fit \/ ~ PolicyAllows(s, r)
       \/ LoopMode = "MANUAL" /\ trigger[s] # "approve"
       \/ ~ GatesOpen /\ (LoopMode = "APPROVAL_REQUIRED" => trigger[s] = "approve")
    /\ Finish(s, r, known[s][r], FALSE)
    /\ UNCHANGED <<autonomy, today, recStatus, action, trigger, known,
                   drafted, sessions, loopHistory>>

\* APPROVAL_REQUIRED before anything is created.
AskFirst(s, r) ==
    /\ Turn(s, r) /\ ~ Full(s) /\ PolicyAllows(s, r)
    /\ LoopMode = "APPROVAL_REQUIRED" /\ trigger[s] # "approve"
    /\ Finish(s, r, "reviewed", TRUE)
    /\ UNCHANGED <<autonomy, today, recStatus, action, trigger, known,
                   drafted, sessions, loopHistory>>

\* The INSERT waits for another session's uncommitted action of the same key.
Insertable(s, r) == \A t \in Evaluators \ {s} : r \notin DOMAIN drafted[t]

Unseen(s) == UNION {DOMAIN drafted[t] : t \in Evaluators \ {s}}

\* _create_action and ActionService.create, which returns the action that has
\* the key already, or inserts one; one that needs no approval is executed.
Create(s, r, outcome) ==
    /\ Turn(s, r) /\ ~ Full(s) /\ PolicyAllows(s, r)
    /\ \/ LoopMode = "AUTONOMOUS"
       \/ trigger[s] = "approve"
    /\ GatesOpen
    /\ Insertable(s, r)
    /\ IF Seen(s, r).state # "none"
       THEN outcome = "none" /\ UNCHANGED <<drafted, blind, missed, alone>>
       ELSE /\ outcome \in (IF RequiresApproval(r) THEN {"pending"} ELSE {"completed"} \cup Failing)
            /\ drafted' = [drafted EXCEPT ![s] = Noted(@, r, [state |-> outcome, day |-> today])]
            /\ blind' = blind \cup ({r} \X Unseen(s))
            /\ missed' = missed \cup ({r} \X {q \in Recs : Seen(s, q).state \in Failing})
            /\ alone' = IF outcome = "completed" /\ trigger[s] # "approve"
                        THEN alone \cup {r} ELSE alone
    /\ Finish(s, r, IF CanAuto(r) THEN "approved" ELSE "reviewed", TRUE)
    /\ UNCHANGED <<autonomy, today, recStatus, action, trigger, known, sessions, dropped>>

EndSession(s) ==
    /\ trigger' = [trigger EXCEPT ![s] = "idle"]
    /\ left' = [left EXCEPT ![s] = {}]
    /\ known' = [known EXCEPT ![s] = Empty]
    /\ marks' = [marks EXCEPT ![s] = Empty]
    /\ drafted' = [drafted EXCEPT ![s] = Empty]
    /\ touched' = [touched EXCEPT ![s] = {}]

\* The commit: at the end, or of a batch that a validation error has cut short
\* (the orchestrator notes the error and goes on).
CommitLoop(s) ==
    /\ trigger[s] # "idle"
    /\ trigger[s] = "approve" => left[s] = {}
    /\ recStatus' = [r \in Recs |-> IF r \in DOMAIN marks[s] THEN marks[s][r] ELSE recStatus[r]]
    /\ action' = [r \in Recs |-> Seen(s, r)]
    /\ EndSession(s)
    /\ UNCHANGED <<autonomy, today, sessions, loopHistory>>

\* An error, a lost key race or a crash rolls the session back.
LoseLoop(s) ==
    /\ trigger[s] # "idle"
    /\ EndSession(s)
    /\ UNCHANGED <<autonomy, today, recStatus, action, sessions, loopHistory>>

-----------------------------------------------------------------------------
(* People, and time.                                                       *)

\* POST /recommendations/{id}/reject, whatever the status is.
RejectRec(r) ==
    /\ recStatus' = [recStatus EXCEPT ![r] = "rejected"]
    /\ dropped' = IF action[r].state = "none" /\ \A s \in Evaluators : r \notin DOMAIN known[s]
                  THEN dropped \cup {r} ELSE dropped
    /\ UNCHANGED <<autonomy, today, action, loopSession, sessions, blind, missed, alone>>

\* PATCH /recommendations/{id}: any other status, over whatever it is; expire_due
\* too overwrites what was committed since it has read an open one.
PatchRec(r, status) ==
    /\ sessions < MaxSessions /\ sessions' = sessions + 1
    /\ status \in RecStates \ {"rejected"}
    /\ recStatus' = [recStatus EXCEPT ![r] = status]
    /\ dropped' = IF status = "expired" THEN dropped ELSE dropped \ {r}
    /\ UNCHANGED <<autonomy, today, action, loopSession, blind, missed, alone>>

\* A person decides on a pending action, or has a failed one executed again,
\* which is refused as long as it is in doubt.
DecideAction(r, outcome) ==
    /\ \/ action[r].state = "pending" /\ outcome \in {"completed", "rejected"} \cup Failing
       \/ action[r].state = "failed" /\ outcome \in {"completed", "doubtful"}
    /\ action' = [action EXCEPT ![r].state = outcome]
    /\ UNCHANGED <<autonomy, today, recStatus, loopSession, sessions, loopHistory>>

\* The reconciliation job or an operator settles a doubtful one.
Reconcile(r, outcome) ==
    /\ action[r].state = "doubtful" /\ outcome \in {"completed", "failed"}
    /\ action' = [action EXCEPT ![r].state = outcome]
    /\ UNCHANGED <<autonomy, today, recStatus, loopSession, sessions, loopHistory>>

Configure(p) ==
    /\ autonomy # p /\ autonomy' = p
    /\ UNCHANGED <<today, recStatus, action, loopSession, sessions, loopHistory>>

NextDay ==
    /\ today < MaxDays /\ today' = today + 1
    /\ UNCHANGED <<autonomy, recStatus, action, loopSession, sessions, loopHistory>>

LoopNext ==
    \/ NextDay
    \/ \E p \in Policies : Configure(p)
    \/ \E r \in Recs :
         \/ RejectRec(r) \/ \E status \in RecStates : PatchRec(r, status)
         \/ \E o \in ActionStates : DecideAction(r, o) \/ Reconcile(r, o)
    \/ \E s \in Evaluators :
         \/ StartBatch(s) \/ CommitLoop(s) \/ LoseLoop(s)
         \/ \E r \in Recs :
              \/ StartApprove(s, r) \/ AskFirst(s, r)
              \/ \E fit \in BOOLEAN : Decline(s, r, fit)
              \/ \E o \in ActionStates : Create(s, r, o)

LoopSpec == LoopInit /\ [][LoopNext]_loopVars

-----------------------------------------------------------------------------
Actions == [state : ActionStates, day : 0..MaxDays]

LoopTypeOK ==
    /\ autonomy \in Policies /\ today \in 0..MaxDays
    /\ recStatus \in [Recs -> RecStates]
    /\ action \in [Recs -> Actions]
    /\ \A s \in Evaluators :
         /\ trigger[s] \in {"idle", "autopilot_cycle", "approve"}
         /\ left[s] \subseteq DOMAIN known[s] /\ DOMAIN marks[s] \subseteq DOMAIN known[s]
         /\ \A r \in DOMAIN drafted[s] : drafted[s][r] \in Actions

\* OPTIMIZATION_MAX_ACTIONS_PER_DAY: the actions of a day exceed it only by
\* those that a session could not see when it counted, because another one had
\* not committed them yet.
CapHoldsButForOverlap ==
    Cardinality({r \in Recs : Counts(action[r], CapWindow, ActionStates \ {"none"})})
        <= MaxActions + Max({Cardinality({q \in Recs : <<r, q>> \in blind}) : r \in Recs})

FlipFlop(r, q) ==
    /\ Proposal[r].campaign = Proposal[q].campaign
    /\ Opposites(Proposal[r].kind, Proposal[q].kind)
    /\ action[r].state = "completed" /\ action[q].state = "completed"
    /\ action[q].day - action[r].day \in 0..(OppositeCooldown - 1)

\* No flip-flop: a pause and a resume of one campaign that are created within
\* the opposite cooldown are not both carried out, unless the later check could
\* not see the other action or passed it over as FAILED, and an execution or a
\* reconciliation completed it afterwards.
OppositesAreApart ==
    \A r, q \in Recs :
        FlipFlop(r, q) => {<<r, q>>, <<q, r>>} \cap (blind \cup missed) # {}

\* What a person has rejected while nothing was evaluating it stays closed and
\* never becomes an action, until a person gives it an open status again.
RejectionsStand ==
    \A r \in dropped : recStatus[r] \in {"rejected", "expired"} /\ action[r].state = "none"

\* HIGH-risk actions "remain approval-gated even in AUTONOMOUS": none is carried
\* out without a person.
HighRiskNeedsAPerson == \A r \in alone : Proposal[r].risk # Risks.high
=============================================================================
