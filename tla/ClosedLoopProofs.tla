--------------------------- MODULE ClosedLoopProofs ---------------------------
(***************************************************************************)
(* Theorems about ClosedLoop, for any number of sessions and               *)
(* recommendations, any limits, policies and cooldowns.  A session writes  *)
(* what it loaded earlier; the first invariant says what it can still      *)
(* write of a recommendation that a person has rejected meanwhile:         *)
(* nothing.  A session checks a new action against those it sees; the      *)
(* second one, Watchful, says what that leaves of cooldowns and caps.      *)
(***************************************************************************)
EXTENDS ClosedLoop, FiniteSetTheorems, WellFoundedInduction, TLAPS

-----------------------------------------------------------------------------
(* The inductive invariant.                                                *)

\* A session marks and inserts only for recommendations that it has loaded,
\* and an idle one has nothing.
SessionsOK ==
    /\ DOMAIN trigger = Evaluators /\ DOMAIN left = Evaluators /\ DOMAIN known = Evaluators
    /\ DOMAIN marks = Evaluators /\ DOMAIN drafted = Evaluators
    /\ dropped \subseteq Recs /\ alone \subseteq Recs
    /\ \A s \in Evaluators :
         /\ DOMAIN known[s] \subseteq Recs
         /\ \A r \in DOMAIN known[s] : known[s][r] \in RecStates
         /\ \A r \in DOMAIN marks[s] : marks[s][r] \in RecStates
         /\ DOMAIN drafted[s] \subseteq DOMAIN known[s]
         /\ trigger[s] = "idle" =>
              left[s] = {} /\ DOMAIN marks[s] = {} /\ DOMAIN drafted[s] = {}

\* Of a rejected recommendation no session has set a status or inserted an
\* action, and whoever has loaded it has loaded a closed status.
Dismissed ==
    \A r \in dropped : \A s \in Evaluators :
        /\ r \notin DOMAIN marks[s] /\ r \notin DOMAIN drafted[s]
        /\ r \in DOMAIN known[s] => known[s][r] \in {"rejected", "expired"}

LoopInv ==
    /\ LoopTypeOK /\ SessionsOK
    /\ Dismissed /\ RejectionsStand

-----------------------------------------------------------------------------
(* What the steps of an evaluation do to a session.                        *)

\* A session that has drafted nothing has nothing to write.
LEMMA EmptyEffect == DOMAIN Empty = {}
BY DEF Empty

\* One recommendation less to evaluate, and at most one mark more.
LEMMA FinishEffect ==
    ASSUME LoopTypeOK, SessionsOK, NEW s \in Evaluators, NEW r \in Recs, Turn(s, r),
           NEW mark \in RecStates, NEW touch, Finish(s, r, mark, touch)
    PROVE  /\ trigger[s] # "idle" /\ r \in DOMAIN known[s]
           /\ DOMAIN left' = Evaluators /\ DOMAIN marks' = Evaluators
           /\ \A q \in Evaluators : left'[q] \subseteq left[q]
           /\ \A q \in Evaluators : q # s => marks'[q] = marks[q]
           /\ \A x \in DOMAIN marks'[s] :
                /\ marks'[s][x] \in RecStates
                /\ x \in DOMAIN marks[s] \/ (x = r /\ mark # known[s][r])
<1>1. /\ r \in left[s] /\ trigger[s] # "idle" /\ r \in DOMAIN known[s]
      /\ left' = [left EXCEPT ![s] = left[s] \ {r}]
      /\ marks' = [marks EXCEPT ![s] = IF mark = known[s][r] THEN marks[s]
                                       ELSE Noted(marks[s], r, mark)]
      /\ DOMAIN left = Evaluators /\ DOMAIN marks = Evaluators
      /\ \A x \in DOMAIN marks[s] : marks[s][x] \in RecStates
  BY DEF Turn, Finish, SessionsOK, LoopTypeOK
<1>2. /\ DOMAIN left' = Evaluators /\ DOMAIN marks' = Evaluators
      /\ \A q \in Evaluators : left'[q] \subseteq left[q]
      /\ \A q \in Evaluators : q # s => marks'[q] = marks[q]
  BY <1>1
<1>3. CASE mark = known[s][r]
  BY <1>1, <1>2, <1>3
<1>4. CASE mark # known[s][r]
  <2>1. marks'[s] = Noted(marks[s], r, mark)
    BY <1>1, <1>4
  <2>2. /\ DOMAIN marks'[s] = DOMAIN marks[s] \cup {r}
        /\ \A x \in DOMAIN marks[s] \cup {r} :
              marks'[s][x] = IF x = r THEN mark ELSE marks[s][x]
    BY <2>1 DEF Noted
  <2> QED BY <1>1, <1>2, <1>4, <2>2
<1> QED BY <1>3, <1>4

-----------------------------------------------------------------------------
(* Every step preserves it.                                                *)

\* Nothing has been loaded or rejected yet.
LEMMA LoopInitially == LoopInit => LoopInv
<1> SUFFICES ASSUME LoopInit PROVE LoopInv
  OBVIOUS
<1>1. LoopTypeOK
  BY LoopAssumption, EmptyEffect DEF LoopAssumption, LoopInit, LoopTypeOK, RecStates, Actions, ActionStates, NoAction
<1>2. SessionsOK
  BY EmptyEffect DEF LoopInit, SessionsOK
<1> QED BY <1>1, <1>2 DEF LoopInit, LoopInv, Dismissed, RejectionsStand

\* A session loads the committed statuses.
LEMMA BeginStep ==
    ASSUME LoopInv, NEW s \in Evaluators, NEW t \in {"autopilot_cycle", "approve"},
           NEW rs \in SUBSET Recs, Begin(s, t, rs)
    PROVE  LoopInv'
<1>1. /\ LoopTypeOK /\ SessionsOK /\ trigger[s] = "idle"
      /\ trigger' = [trigger EXCEPT ![s] = t]
      /\ left' = [left EXCEPT ![s] = rs]
      /\ known' = [known EXCEPT ![s] = [r \in rs |-> recStatus[r]]]
      /\ UNCHANGED <<autonomy, today, recStatus, action, marks, drafted,
                     blind, missed, alone, dropped>>
  BY DEF LoopInv, Begin, loopHistory
<1>2. /\ DOMAIN trigger' = Evaluators /\ DOMAIN left' = Evaluators /\ DOMAIN known' = Evaluators
      /\ trigger'[s] = t /\ left'[s] = rs /\ known'[s] = [r \in rs |-> recStatus[r]]
      /\ \A q \in Evaluators : q # s =>
            trigger'[q] = trigger[q] /\ left'[q] = left[q] /\ known'[q] = known[q]
  BY <1>1 DEF SessionsOK
<1>3. DOMAIN marks[s] = {} /\ DOMAIN drafted[s] = {}
  BY <1>1 DEF SessionsOK
<1>4. LoopTypeOK'
  BY <1>1, <1>2, <1>3 DEF LoopTypeOK, Actions
<1>5. \A r \in rs : recStatus[r] \in RecStates
  BY <1>1 DEF LoopTypeOK
<1>6. SessionsOK'
  BY <1>1, <1>2, <1>3, <1>5 DEF SessionsOK
<1>7. Dismissed'
  BY <1>1, <1>2, <1>3 DEF LoopInv, Dismissed, RejectionsStand
<1>8. RejectionsStand'
  BY <1>1 DEF LoopInv, RejectionsStand
<1> QED BY <1>4, <1>6, <1>7, <1>8 DEF LoopInv

\* A recommendation that comes to nothing, or waits for a person.
LEMMA PassStep ==
    ASSUME LoopInv, NEW s \in Evaluators, NEW r \in Recs, NEW fit \in BOOLEAN,
           Decline(s, r, fit) \/ AskFirst(s, r)
    PROVE  LoopInv'
<1>1. /\ LoopTypeOK /\ SessionsOK /\ Turn(s, r)
      /\ UNCHANGED <<autonomy, today, recStatus, action, trigger, known, drafted,
                     blind, missed, alone, dropped>>
  BY DEF LoopInv, Decline, AskFirst, loopHistory
<1>2. r \in DOMAIN known[s] /\ known[s][r] \in RecStates
  BY <1>1 DEF Turn, LoopTypeOK, SessionsOK
<1>3. PICK mark \in RecStates, touch \in BOOLEAN :
        /\ Finish(s, r, mark, touch)
        /\ mark # known[s][r] => known[s][r] \notin {"rejected", "expired"}
  BY <1>2 DEF Decline, AskFirst, PolicyAllows, RecStates
<1>4. /\ DOMAIN left' = Evaluators /\ DOMAIN marks' = Evaluators
      /\ \A q \in Evaluators : left'[q] \subseteq left[q]
      /\ \A q \in Evaluators : q # s => marks'[q] = marks[q]
      /\ \A x \in DOMAIN marks'[s] :
           /\ marks'[s][x] \in RecStates
           /\ x \in DOMAIN marks[s] \/ (x = r /\ mark # known[s][r])
      /\ trigger[s] # "idle"
  BY <1>1, <1>3, FinishEffect
<1>5. LoopTypeOK'
  BY <1>1, <1>2, <1>4 DEF LoopTypeOK, Actions
<1>6. SessionsOK'
  BY <1>1, <1>4 DEF SessionsOK
<1>7. Dismissed'
  <2> SUFFICES ASSUME NEW d \in dropped, NEW q \in Evaluators
               PROVE  /\ d \notin DOMAIN marks'[q] /\ d \notin DOMAIN drafted[q]
                      /\ d \in DOMAIN known[q] => known[q][d] \in {"rejected", "expired"}
    BY <1>1 DEF Dismissed
  <2>1. /\ d \notin DOMAIN marks[q] /\ d \notin DOMAIN drafted[q]
        /\ d \in DOMAIN known[q] => known[q][d] \in {"rejected", "expired"}
    BY DEF LoopInv, Dismissed
  <2> QED BY <1>2, <1>3, <1>4, <2>1
<1>8. RejectionsStand'
  BY <1>1 DEF LoopInv, RejectionsStand
<1> QED BY <1>5, <1>6, <1>7, <1>8 DEF LoopInv

\* An action is inserted for a recommendation that was not loaded as closed.
LEMMA CreateStep ==
    ASSUME LoopInv, NEW s \in Evaluators, NEW r \in Recs, NEW outcome \in ActionStates,
           Create(s, r, outcome)
    PROVE  LoopInv'
<1>1. /\ LoopTypeOK /\ SessionsOK /\ Turn(s, r) /\ known[s][r] \notin {"rejected", "expired"}
      /\ UNCHANGED <<autonomy, today, recStatus, action, trigger, known, dropped>>
  BY DEF LoopInv, Create, PolicyAllows
<1>2. PICK mark \in RecStates, touch \in BOOLEAN : Finish(s, r, mark, touch)
  BY DEF Create, RecStates
<1>3. /\ DOMAIN left' = Evaluators /\ DOMAIN marks' = Evaluators
      /\ \A q \in Evaluators : left'[q] \subseteq left[q]
      /\ \A q \in Evaluators : q # s => marks'[q] = marks[q]
      /\ \A x \in DOMAIN marks'[s] :
           /\ marks'[s][x] \in RecStates
           /\ x \in DOMAIN marks[s] \/ (x = r /\ mark # known[s][r])
      /\ trigger[s] # "idle" /\ r \in DOMAIN known[s]
  BY <1>1, <1>2, FinishEffect
<1> DEFINE act == [state |-> outcome, day |-> today]
<1>4. /\ DOMAIN drafted' = Evaluators
      /\ \A q \in Evaluators : q # s => drafted'[q] = drafted[q]
      /\ DOMAIN drafted'[s] \subseteq DOMAIN drafted[s] \cup {r}
      /\ \A x \in DOMAIN drafted'[s] :
           drafted'[s][x] = act \/ (x \in DOMAIN drafted[s] /\ drafted'[s][x] = drafted[s][x])
  <2>1. DOMAIN drafted = Evaluators
    BY <1>1 DEF SessionsOK
  <2>2. CASE drafted' = drafted
    BY <2>1, <2>2
  <2>3. CASE drafted' = [drafted EXCEPT ![s] = Noted(drafted[s], r, act)]
    <3>1. drafted'[s] = Noted(drafted[s], r, act)
      BY <2>1, <2>3
    <3>2. /\ DOMAIN drafted'[s] = DOMAIN drafted[s] \cup {r}
          /\ \A x \in DOMAIN drafted[s] \cup {r} :
                drafted'[s][x] = IF x = r THEN act ELSE drafted[s][x]
      BY <3>1 DEF Noted
    <3> QED BY <2>1, <2>3, <3>2
  <2> QED BY <2>2, <2>3 DEF Create
<1>5. act \in Actions
  BY <1>1 DEF LoopTypeOK, Actions
<1> HIDE DEF act
<1>6. LoopTypeOK'
  <2>1. \A q \in Evaluators : \A x \in DOMAIN drafted'[q] : drafted'[q][x] \in Actions
    BY <1>1, <1>4, <1>5 DEF LoopTypeOK
  <2>2. \A q \in Evaluators : left'[q] \subseteq DOMAIN known[q] /\ DOMAIN marks'[q] \subseteq DOMAIN known[q]
    BY <1>1, <1>3 DEF LoopTypeOK
  <2> QED BY <1>1, <2>1, <2>2 DEF LoopTypeOK, Actions
<1>7. alone' \subseteq alone \cup {r}
  BY DEF Create
<1>8. SessionsOK'
  BY <1>1, <1>3, <1>4, <1>7 DEF SessionsOK
<1>9. Dismissed'
  <2> SUFFICES ASSUME NEW d \in dropped, NEW q \in Evaluators
               PROVE  /\ d \notin DOMAIN marks'[q] /\ d \notin DOMAIN drafted'[q]
                      /\ d \in DOMAIN known[q] => known[q][d] \in {"rejected", "expired"}
    BY <1>1 DEF Dismissed
  <2>1. /\ d \notin DOMAIN marks[q] /\ d \notin DOMAIN drafted[q]
        /\ d \in DOMAIN known[q] => known[q][d] \in {"rejected", "expired"}
    BY DEF LoopInv, Dismissed
  <2>2. q = s => d # r
    BY <1>1, <1>3, <2>1
  <2> QED BY <1>3, <1>4, <2>1, <2>2
<1>10. RejectionsStand'
  BY <1>1 DEF LoopInv, RejectionsStand
<1> QED BY <1>6, <1>8, <1>9, <1>10 DEF LoopInv

\* The end of a session: it forgets what it had.
LEMMA EndEffect ==
    ASSUME LoopTypeOK, SessionsOK, NEW s \in Evaluators, EndSession(s)
    PROVE  /\ DOMAIN trigger' = Evaluators /\ DOMAIN left' = Evaluators /\ DOMAIN known' = Evaluators
           /\ DOMAIN marks' = Evaluators /\ DOMAIN drafted' = Evaluators
           /\ trigger'[s] = "idle" /\ left'[s] = {} /\ DOMAIN known'[s] = {}
           /\ DOMAIN marks'[s] = {} /\ DOMAIN drafted'[s] = {}
           /\ \A q \in Evaluators : q # s =>
                /\ trigger'[q] = trigger[q] /\ left'[q] = left[q] /\ known'[q] = known[q]
                /\ marks'[q] = marks[q] /\ drafted'[q] = drafted[q]
BY EmptyEffect DEF EndSession, SessionsOK

\* A commit writes the marks and inserts the actions, a rollback does not.
LEMMA EndStep ==
    ASSUME LoopInv, NEW s \in Evaluators, CommitLoop(s) \/ LoseLoop(s)
    PROVE  LoopInv'
<1>1. /\ LoopTypeOK /\ SessionsOK /\ EndSession(s)
      /\ UNCHANGED <<autonomy, today, alone, dropped>>
  BY DEF LoopInv, CommitLoop, LoseLoop, loopHistory
<1>2. /\ DOMAIN trigger' = Evaluators /\ DOMAIN left' = Evaluators /\ DOMAIN known' = Evaluators
      /\ DOMAIN marks' = Evaluators /\ DOMAIN drafted' = Evaluators
      /\ trigger'[s] = "idle" /\ left'[s] = {} /\ DOMAIN known'[s] = {}
      /\ DOMAIN marks'[s] = {} /\ DOMAIN drafted'[s] = {}
      /\ \A q \in Evaluators : q # s =>
           /\ trigger'[q] = trigger[q] /\ left'[q] = left[q] /\ known'[q] = known[q]
           /\ marks'[q] = marks[q] /\ drafted'[q] = drafted[q]
  BY <1>1, EndEffect
<1>3. recStatus' \in [Recs -> RecStates] /\ action' \in [Recs -> Actions]
  <2>1. CASE LoseLoop(s)
    BY <1>1, <2>1 DEF LoseLoop, LoopTypeOK
  <2>2. CASE CommitLoop(s)
    <3>1. /\ recStatus' = [r \in Recs |-> IF r \in DOMAIN marks[s] THEN marks[s][r] ELSE recStatus[r]]
          /\ action' = [r \in Recs |-> IF r \in DOMAIN drafted[s] THEN drafted[s][r] ELSE action[r]]
      BY <2>2 DEF CommitLoop, Seen
    <3> QED BY <1>1, <3>1 DEF LoopTypeOK, SessionsOK
  <2> QED BY <2>1, <2>2
<1>4. \A d \in dropped : recStatus'[d] \in {"rejected", "expired"} /\ action'[d].state = "none"
  <2> SUFFICES ASSUME NEW d \in dropped
               PROVE  recStatus'[d] \in {"rejected", "expired"} /\ action'[d].state = "none"
    OBVIOUS
  <2>1. recStatus[d] \in {"rejected", "expired"} /\ action[d].state = "none" /\ d \in Recs
    BY <1>1 DEF LoopInv, RejectionsStand, SessionsOK
  <2>2. d \notin DOMAIN marks[s] /\ d \notin DOMAIN drafted[s]
    BY DEF LoopInv, Dismissed
  <2>3. CASE LoseLoop(s)
    BY <2>1, <2>3 DEF LoseLoop
  <2>4. CASE CommitLoop(s)
    BY <2>1, <2>2, <2>4 DEF CommitLoop, Seen
  <2> QED BY <2>3, <2>4
<1>5. LoopTypeOK'
  <2>1. \A q \in Evaluators :
          /\ trigger'[q] \in {"idle", "autopilot_cycle", "approve"}
          /\ left'[q] \subseteq DOMAIN known'[q] /\ DOMAIN marks'[q] \subseteq DOMAIN known'[q]
          /\ \A r \in DOMAIN drafted'[q] : drafted'[q][r] \in Actions
    BY <1>1, <1>2 DEF LoopTypeOK
  <2> QED BY <1>1, <1>3, <2>1 DEF LoopTypeOK, Actions
<1>6. SessionsOK'
  BY <1>1, <1>2 DEF SessionsOK
<1>7. Dismissed'
  BY <1>1, <1>2 DEF LoopInv, Dismissed
<1>8. RejectionsStand'
  BY <1>1, <1>4 DEF LoopInv, RejectionsStand
<1> QED BY <1>5, <1>6, <1>7, <1>8 DEF LoopInv

\* A person sets a status: nobody who has not loaded a rejected recommendation
\* can have marked it or inserted its action, and another status reopens it.
LEMMA LoopStatusStep ==
    ASSUME LoopInv, NEW r \in Recs, NEW status \in RecStates, RejectRec(r) \/ PatchRec(r, status)
    PROVE  LoopInv'
<1>1. /\ LoopTypeOK /\ SessionsOK
      /\ UNCHANGED <<autonomy, today, action, trigger, left, known, marks, drafted, alone>>
  BY DEF LoopInv, RejectRec, PatchRec, loopSession
<1>2. PICK st \in RecStates :
        /\ recStatus' = [recStatus EXCEPT ![r] = st]
        /\ dropped' \subseteq dropped \cup {r}
        /\ r \in dropped' => st \in {"rejected", "expired"}
        /\ r \in dropped' /\ r \notin dropped =>
              action[r].state = "none" /\ \A s \in Evaluators : r \notin DOMAIN known[s]
  BY DEF RejectRec, PatchRec, RecStates
<1>3. LoopTypeOK'
  BY <1>1, <1>2 DEF LoopTypeOK, Actions
<1>4. SessionsOK'
  BY <1>1, <1>2 DEF SessionsOK
<1>5. Dismissed'
  BY <1>1, <1>2 DEF LoopInv, Dismissed, SessionsOK, LoopTypeOK
<1>6. RejectionsStand'
  <2>1. ASSUME NEW d \in dropped' PROVE recStatus'[d] \in {"rejected", "expired"}
    BY <1>1, <1>2, <2>1 DEF LoopInv, RejectionsStand, LoopTypeOK, SessionsOK
  <2>2. ASSUME NEW d \in dropped' PROVE action[d].state = "none"
    BY <1>1, <1>2, <2>2 DEF LoopInv, RejectionsStand
  <2> QED BY <1>1, <2>1, <2>2 DEF RejectionsStand
<1> QED BY <1>3, <1>4, <1>5, <1>6 DEF LoopInv

\* An action is decided on or settled, and no rejected recommendation has one.
LEMMA DecideStep ==
    ASSUME LoopInv, NEW r \in Recs, NEW outcome \in ActionStates,
           DecideAction(r, outcome) \/ Reconcile(r, outcome)
    PROVE  LoopInv'
<1>1. /\ LoopTypeOK /\ SessionsOK /\ action[r].state # "none"
      /\ action' = [action EXCEPT ![r].state = outcome]
      /\ UNCHANGED <<autonomy, today, recStatus, trigger, left, known, marks, drafted,
                     alone, dropped>>
  BY DEF LoopInv, DecideAction, Reconcile, loopSession, loopHistory
<1>2. action' \in [Recs -> Actions]
  BY <1>1 DEF LoopTypeOK, Actions
<1>3. LoopTypeOK'
  BY <1>1, <1>2 DEF LoopTypeOK, Actions
<1>4. SessionsOK' /\ Dismissed'
  BY <1>1 DEF LoopInv, SessionsOK, Dismissed
<1>5. \A d \in dropped : d # r /\ action'[d] = action[d]
  BY <1>1 DEF LoopInv, RejectionsStand, SessionsOK, LoopTypeOK
<1>6. RejectionsStand'
  BY <1>1, <1>5 DEF LoopInv, RejectionsStand
<1> QED BY <1>3, <1>4, <1>6 DEF LoopInv

\* The settings change, or a day passes.
LEMMA LoopOutsideStep ==
    ASSUME LoopInv, NextDay \/ \E p \in Policies : Configure(p)
    PROVE  LoopInv'
<1>1. /\ LoopTypeOK /\ SessionsOK
      /\ UNCHANGED <<recStatus, action, trigger, left, known, marks, drafted, alone, dropped>>
  BY DEF LoopInv, NextDay, Configure, loopSession, loopHistory
<1>2. today' \in 0..MaxDays /\ autonomy' \in Policies
  BY <1>1, LoopAssumption DEF LoopAssumption, NextDay, Configure, LoopTypeOK
<1>3. LoopTypeOK'
  BY <1>1, <1>2 DEF LoopTypeOK, Actions
<1> QED BY <1>1, <1>3 DEF LoopInv, SessionsOK, Dismissed, RejectionsStand

\* One case per action, and one for a step that changes nothing.
LEMMA LoopPreserved == LoopInv /\ [LoopNext]_loopVars => LoopInv'
<1> SUFFICES ASSUME LoopInv, [LoopNext]_loopVars PROVE LoopInv'
  OBVIOUS
<1>1. CASE NextDay \/ \E p \in Policies : Configure(p)
  BY <1>1, LoopOutsideStep
<1>2. ASSUME NEW r \in Recs,
             \/ RejectRec(r) \/ \E status \in RecStates : PatchRec(r, status)
             \/ \E o \in ActionStates : DecideAction(r, o) \/ Reconcile(r, o)
      PROVE  LoopInv'
  <2>1. "new" \in RecStates
    BY DEF RecStates
  <2> QED BY <1>2, <2>1, LoopStatusStep, DecideStep
<1>3. ASSUME NEW s \in Evaluators, StartBatch(s) PROVE LoopInv'
  BY <1>3, BeginStep DEF StartBatch
<1>4. ASSUME NEW s \in Evaluators, CommitLoop(s) \/ LoseLoop(s) PROVE LoopInv'
  BY <1>4, EndStep
<1>5. ASSUME NEW s \in Evaluators, NEW r \in Recs, StartApprove(s, r) PROVE LoopInv'
  <2>1. Begin(s, "approve", {r}) /\ {r} \in SUBSET Recs
    BY <1>5 DEF StartApprove
  <2> QED BY <2>1, BeginStep
<1>6. ASSUME NEW s \in Evaluators, NEW r \in Recs,
             AskFirst(s, r) \/ \E fit \in BOOLEAN : Decline(s, r, fit)
      PROVE  LoopInv'
  BY <1>6, PassStep
<1>7. ASSUME NEW s \in Evaluators, NEW r \in Recs, NEW o \in ActionStates, Create(s, r, o)
      PROVE  LoopInv'
  BY <1>7, CreateStep
<1>8. CASE UNCHANGED loopVars
  BY <1>8 DEF loopVars, LoopInv, LoopTypeOK, SessionsOK, Dismissed, RejectionsStand, Actions
<1> QED BY <1>1, <1>2, <1>3, <1>4, <1>5, <1>6, <1>7, <1>8 DEF LoopNext

-----------------------------------------------------------------------------
(* The theorems.                                                           *)

\* The invariant that the results below are read from.
THEOREM LoopInvariance == LoopSpec => []LoopInv
BY LoopInitially, LoopPreserved, PTL DEF LoopSpec

\* Every reachable state of the closed loop is well typed.
THEOREM LoopTypes == LoopSpec => []LoopTypeOK
<1>1. LoopInv => LoopTypeOK
  BY DEF LoopInv
<1> QED BY <1>1, LoopInvariance, PTL

\* reject_recommendation, update_status: a rejection made while no session had
\* the recommendation stands, and no action comes of it, until a person gives it
\* an open status again.
THEOREM RejectionIsFinal == LoopSpec => []RejectionsStand
<1>1. LoopInv => RejectionsStand
  BY DEF LoopInv
<1> QED BY <1>1, LoopInvariance, PTL

-----------------------------------------------------------------------------
(* What an evaluation can and cannot see.  The checks of a new action read  *)
(* the committed ones and the session's own; the invariant says of the      *)
(* versions of all actions, wherever they are, what those checks leave.     *)

\* The committed action of a recommendation, and the uncommitted ones.
Versions(r) == {action[r]} \cup {drafted[s][r] : s \in {t \in Evaluators : r \in DOMAIN drafted[t]}}

\* A session inserts an action only where there is none, and no other one does
\* until it has committed; none is of a later day.
ActionsOK ==
    /\ \A r \in Recs : action[r].day <= today
    /\ \A s \in Evaluators : \A r \in DOMAIN drafted[s] :
         /\ action[r].state = "none" /\ drafted[s][r].state # "none"
         /\ drafted[s][r].day <= today
         /\ \A t \in Evaluators : r \in DOMAIN drafted[t] => t = s

\* The later one of two actions was checked without seeing the other one, or has
\* passed it over as FAILED.
Excused(r, q) == {<<r, q>>, <<q, r>>} \cap (blind \cup missed) # {}

Adverse(r, q) ==
    /\ Proposal[r].campaign = Proposal[q].campaign
    /\ Opposites(Proposal[r].kind, Proposal[q].kind)

\* What is underway, or may be completed yet.
Effective == Underway \cup Failing

Near(x, y) ==
    /\ x.state \in Effective /\ y.state \in Effective
    /\ x.day - y.day < OppositeCooldown /\ y.day - x.day < OppositeCooldown

\* No flip-flop among the actions that may be completed, committed or not.
WellApart ==
    \A r, q \in Recs : Adverse(r, q) =>
        \A x \in Versions(r), y \in Versions(q) : Near(x, y) => Excused(r, q)

\* What was uncommitted elsewhere when r was checked.
Hidden(r) == {q \in Recs : <<r, q>> \in blind}

\* The recommendations with an action of a day, committed or not.
OfDay(d) == {r \in Recs : \E x \in Versions(r) : x.state # "none" /\ x.day = d}

\* Of any actions of one day, the one that was inserted last has met the cap,
\* but for those that were hidden from it.
Capped ==
    \A d \in 0..MaxDays : \A S \in SUBSET OfDay(d) :
        S # {} => \E r \in S : Cardinality(S \ Hidden(r)) <= MaxActions

Watchful == ActionsOK /\ WellApart /\ Capped

\* In a step that inserts nothing an action keeps its day, and none that was
\* rejected comes back.
Persists ==
    \A r \in Recs : \A x \in Versions(r)' :
        x.state # "none" =>
            \E y \in Versions(r) :
                /\ y.state # "none" /\ y.day = x.day
                /\ x.state \in Effective => y.state \in Effective

\* Versions are actions.
LEMMA VersionsType ==
    ASSUME LoopTypeOK, NEW r \in Recs
    PROVE  \A x \in Versions(r) : x \in Actions
BY DEF LoopTypeOK, Versions

\* What is apart or capped stays so when nothing is inserted.
LEMMA PersistingStep ==
    ASSUME LoopTypeOK, WellApart, Capped, Persists, blind' = blind, missed' = missed
    PROVE  WellApart' /\ Capped'
<1>1. WellApart'
  <2> SUFFICES ASSUME NEW r \in Recs, NEW q \in Recs, Adverse(r, q),
                      NEW x \in Versions(r)', NEW y \in Versions(q)', Near(x, y)
               PROVE  Excused(r, q)'
    BY DEF WellApart, Adverse, Near, Opposites, Effective, Underway, Failing
  <2>1. "none" \notin Effective
    BY DEF Effective, Underway, Failing
  <2>2. PICK v \in Versions(r) : v.day = x.day /\ v.state \in Effective
    BY <2>1 DEF Persists, Near
  <2>3. PICK w \in Versions(q) : w.day = y.day /\ w.state \in Effective
    BY <2>1 DEF Persists, Near
  <2>4. Near(v, w)
    BY <2>2, <2>3 DEF Near
  <2> QED BY <2>4 DEF WellApart, Excused
<1>2. Capped'
  <2>1. \A d \in 0..MaxDays : OfDay(d)' \subseteq OfDay(d)
    BY DEF OfDay, Persists
  <2>2. \A r \in Recs : Hidden(r)' = Hidden(r)
    BY DEF Hidden
  <2>3. \A d \in 0..MaxDays : \A S \in SUBSET OfDay(d)' :
           S \subseteq OfDay(d) /\ S \subseteq Recs
    BY <2>1 DEF OfDay
  <2> QED BY <2>2, <2>3 DEF Capped
<1> QED BY <1>1, <1>2

\* What a session does not see of the actions is uncommitted elsewhere.
LEMMA SeenOrUnseen ==
    ASSUME SessionsOK, ActionsOK, NEW s \in Evaluators, NEW q \in Recs,
           NEW y \in Versions(q), y.state # "none"
    PROVE  y = Seen(s, q) \/ q \in Unseen(s)
<1>1. CASE y = action[q]
  BY <1>1 DEF ActionsOK, Seen
<1>2. CASE \E t \in Evaluators : q \in DOMAIN drafted[t] /\ y = drafted[t][q]
  BY <1>2 DEF Seen, Unseen
<1> QED BY <1>1, <1>2 DEF Versions

\* An action is inserted: it is the only version of its recommendation; the
\* session does not see what other sessions have inserted, and passes over what
\* it sees FAILED.
LEMMA InsertEffect ==
    ASSUME LoopTypeOK, SessionsOK, ActionsOK, NEW s \in Evaluators, NEW r \in Recs,
           NEW outcome \in ActionStates, Create(s, r, outcome), Seen(s, r).state = "none"
    PROVE  /\ outcome # "none"
           /\ \A x \in Versions(r)' : x.state # "none" => x = [state |-> outcome, day |-> today]
           /\ \A q \in Recs \ {r} : Versions(q)' = Versions(q)
           /\ \A q \in Unseen(s) : <<r, q>> \in blind'
           /\ \A q \in Recs : Seen(s, q).state \in Failing => <<r, q>> \in missed'
           /\ blind \subseteq blind' /\ missed \subseteq missed' /\ ActionsOK'
<1> DEFINE act == [state |-> outcome, day |-> today]
<1>1. /\ drafted' = [drafted EXCEPT ![s] = Noted(drafted[s], r, act)]
      /\ blind' = blind \cup ({r} \X Unseen(s)) /\ outcome # "none"
      /\ missed' = missed \cup ({r} \X {q \in Recs : Seen(s, q).state \in Failing})
      /\ UNCHANGED <<today, action>>
  BY DEF Create, Failing
<1>2. act.state # "none" /\ act.day = today /\ today \in Nat
  BY <1>1, LoopAssumption DEF LoopTypeOK, LoopAssumption
<1>3. \A t \in Evaluators : r \notin DOMAIN drafted[t]
  <2>1. r \notin DOMAIN drafted[s]
    BY DEF Seen, ActionsOK
  <2> QED BY <2>1 DEF Create, Insertable
<1>4. action[r].state = "none"
  BY <1>3 DEF Seen
<1> HIDE DEF act
<1>5. /\ DOMAIN drafted' = Evaluators
      /\ \A t \in Evaluators : t # s => drafted'[t] = drafted[t]
      /\ DOMAIN drafted'[s] = DOMAIN drafted[s] \cup {r}
      /\ \A x \in DOMAIN drafted[s] \cup {r} : drafted'[s][x] = IF x = r THEN act ELSE drafted[s][x]
  <2>1. DOMAIN drafted = Evaluators
    BY DEF SessionsOK
  <2>2. drafted'[s] = Noted(drafted[s], r, act)
    BY <1>1, <2>1
  <2>3. /\ DOMAIN drafted'[s] = DOMAIN drafted[s] \cup {r}
        /\ \A x \in DOMAIN drafted[s] \cup {r} : drafted'[s][x] = IF x = r THEN act ELSE drafted[s][x]
    BY <2>2 DEF Noted
  <2> QED BY <1>1, <2>1, <2>3
<1>6. \A x \in Versions(r)' : x.state # "none" => x = act
  BY <1>1, <1>3, <1>4, <1>5 DEF Versions
<1>7. ASSUME NEW q \in Recs \ {r} PROVE Versions(q)' = Versions(q)
  <2>1. \A t \in Evaluators :
          /\ q \in DOMAIN drafted'[t] <=> q \in DOMAIN drafted[t]
          /\ q \in DOMAIN drafted[t] => drafted'[t][q] = drafted[t][q]
    BY <1>5
  <2> QED BY <1>1, <2>1 DEF Versions
<1>8. ActionsOK'
  <2>1. \A q \in Recs : action'[q].day <= today'
    BY <1>1 DEF ActionsOK
  <2>2. ASSUME NEW t \in Evaluators, NEW q \in DOMAIN drafted'[t]
        PROVE  /\ action[q].state = "none" /\ drafted'[t][q].state # "none"
               /\ drafted'[t][q].day <= today
               /\ \A u \in Evaluators : q \in DOMAIN drafted'[u] => u = t
    <3>1. CASE q = r
      BY <1>2, <1>3, <1>4, <1>5, <2>2, <3>1
    <3>2. CASE q # r
      BY <1>5, <2>2, <3>2 DEF ActionsOK
    <3> QED BY <3>1, <3>2
  <2> QED BY <1>1, <2>1, <2>2 DEF ActionsOK
<1> QED BY <1>1, <1>6, <1>7, <1>8 DEF act

\* The checks of a new action leave apart what was, and meet the cap.
LEMMA InsertStep ==
    ASSUME LoopInv, Watchful, NEW s \in Evaluators, NEW r \in Recs, NEW outcome \in ActionStates,
           Create(s, r, outcome), Seen(s, r).state = "none"
    PROVE  Watchful'
<1>1. /\ LoopTypeOK /\ SessionsOK /\ ActionsOK /\ WellApart /\ Capped
      /\ OppositeCooled(s, r) /\ UnderCap(s)
      /\ UNCHANGED <<today, action>>
  BY DEF LoopInv, Watchful, Create, PolicyAllows
<1> DEFINE act == [state |-> outcome, day |-> today]
<1>2. /\ \A x \in Versions(r)' : x.state # "none" => x = act
      /\ \A q \in Recs \ {r} : Versions(q)' = Versions(q)
      /\ \A q \in Unseen(s) : <<r, q>> \in blind'
      /\ \A q \in Recs : Seen(s, q).state \in Failing => <<r, q>> \in missed'
      /\ blind \subseteq blind' /\ missed \subseteq missed' /\ ActionsOK'
  BY <1>1, InsertEffect
<1>3. act.day = today /\ today \in 0..MaxDays /\ MaxDays \in Nat /\ MaxActions \in Nat
  BY <1>1, LoopAssumption DEF LoopTypeOK, LoopAssumption
<1>4. "none" \notin Effective /\ \A st \in Effective : st \in Underway \/ st \in Failing
  BY DEF Effective, Underway, Failing
<1> HIDE DEF act
<1>5. ASSUME NEW q \in Recs, Adverse(r, q), NEW x \in Versions(r)', NEW y \in Versions(q)',
             Near(x, y) \/ Near(y, x)
      PROVE  <<r, q>> \in blind' \/ <<r, q>> \in missed'
  <2>1. r # q
    BY <1>5 DEF Adverse, Opposites
  <2>2. x = act /\ y \in Versions(q) /\ y.state \in Effective /\ y.day \in Nat
    BY <1>1, <1>2, <1>4, <1>5, <2>1, VersionsType DEF Near, Actions
  <2>3. today - y.day < OppositeCooldown
    BY <1>3, <1>5, <2>2 DEF Near
  <2>4. y = Seen(s, q) \/ q \in Unseen(s)
    BY <1>1, <1>4, <2>2, SeenOrUnseen
  <2>5. y = Seen(s, q) => y.state \notin Underway
    BY <1>1, <1>5, <2>2, <2>3 DEF OppositeCooled, OnCampaign, Adverse, Counts, Opposites
  <2> QED BY <1>2, <1>4, <2>2, <2>4, <2>5
<1>6. WellApart'
  <2> SUFFICES ASSUME NEW p \in Recs, NEW q \in Recs, Adverse(p, q),
                      NEW x \in Versions(p)', NEW y \in Versions(q)', Near(x, y)
               PROVE  Excused(p, q)'
    BY DEF WellApart, Adverse, Near, Opposites, Effective, Underway, Failing
  <2>1. CASE p = r
    BY <1>5, <2>1 DEF Excused
  <2>2. CASE q = r
    <3>1. Adverse(r, p)
      BY <2>2 DEF Adverse, Opposites
    <3> QED BY <1>5, <2>2, <3>1 DEF Excused
  <2>3. CASE p # r /\ q # r
    BY <1>1, <1>2, <2>3 DEF WellApart, Excused
  <2> QED BY <2>1, <2>2, <2>3
<1>7. ASSUME NEW d \in 0..MaxDays, NEW S \in SUBSET OfDay(d)', S # {}
      PROVE  \E w \in S : Cardinality(S \ Hidden(w)') <= MaxActions
  <2>1. S \subseteq Recs /\ IsFiniteSet(S) /\ IsFiniteSet(Recs)
    BY LoopAssumption, FS_Subset DEF OfDay, LoopAssumption
  <2>2. CASE r \notin S
    <3>1. S \in SUBSET OfDay(d)
      BY <1>2, <2>2 DEF OfDay
    <3>2. PICK w \in S : Cardinality(S \ Hidden(w)) <= MaxActions
      BY <1>1, <1>7, <3>1 DEF Capped
    <3>3. /\ IsFiniteSet(S \ Hidden(w))
          /\ (S \ Hidden(w)') \in SUBSET (S \ Hidden(w))
      BY <1>2, <2>1, FS_Difference DEF Hidden
    <3>4. Cardinality(S \ Hidden(w)') <= Cardinality(S \ Hidden(w))
      BY <3>3, FS_Subset
    <3>5. /\ Cardinality(S \ Hidden(w)') \in Nat /\ Cardinality(S \ Hidden(w)) \in Nat
      BY <3>3, FS_Subset, FS_CardinalityType
    <3>6. Cardinality(S \ Hidden(w)') <= MaxActions
      BY <1>3, <3>2, <3>4, <3>5
    <3> QED BY <3>6
  <2>3. CASE r \in S
    <3> DEFINE C == {q \in Recs : Counts(Seen(s, q), CapWindow, ActionStates \ {"none"})}
    <3>1. d = today
      BY <1>2, <1>3, <2>3 DEF OfDay
    <3>2. ASSUME NEW q \in S, q # r, q \notin Hidden(r)' PROVE q \in C
      <4>1. PICK y \in Versions(q) : y.state # "none" /\ y.day = today
        BY <1>2, <2>1, <3>1, <3>2 DEF OfDay
      <4>2. y = Seen(s, q)
        BY <1>1, <1>2, <2>1, <3>2, <4>1, SeenOrUnseen DEF Hidden
      <4>3. y.state \in ActionStates \ {"none"}
        BY <1>1, <2>1, <4>1, VersionsType DEF Actions
      <4> QED BY <1>3, <2>1, <4>1, <4>2, <4>3 DEF Counts, CapWindow
    <3>3. (S \ Hidden(r)') \in SUBSET (C \cup {r})
      BY <3>2
    <3>4. IsFiniteSet(C) /\ Cardinality(C) < MaxActions /\ Cardinality(C) \in Nat
      BY <1>1, <2>1, FS_Subset, FS_CardinalityType DEF UnderCap
    <3> HIDE DEF C
    <3>5. IsFiniteSet(C \cup {r}) /\ Cardinality(C \cup {r}) <= Cardinality(C) + 1
      <4>1. /\ IsFiniteSet(C \cup {r})
            /\ Cardinality(C \cup {r}) = IF r \in C THEN Cardinality(C) ELSE Cardinality(C) + 1
        BY <3>4, FS_AddElement
      <4> QED BY <3>4, <4>1
    <3>6. Cardinality(S \ Hidden(r)') <= Cardinality(C \cup {r})
      BY <3>3, <3>5, FS_Subset
    <3>7. Cardinality(S \ Hidden(r)') \in Nat /\ Cardinality(C \cup {r}) \in Nat
      BY <3>3, <3>5, FS_Subset, FS_CardinalityType
    <3>8. Cardinality(S \ Hidden(r)') <= MaxActions
      BY <1>3, <3>4, <3>5, <3>6, <3>7
    <3> QED BY <2>3, <3>8
  <2> QED BY <2>2, <2>3
<1> QED BY <1>2, <1>6, <1>7 DEF Watchful, Capped

\* Nothing is inserted, and no version is lost but with its session.
LEMMA RestingVersions ==
    ASSUME UNCHANGED <<action, drafted, blind, missed>>, LoopInv, Watchful,
           today <= today', today' \in Nat
    PROVE  Watchful'
<1>1. Persists
  BY DEF Persists, Versions
<1>2. WellApart' /\ Capped'
  BY <1>1, PersistingStep DEF LoopInv, Watchful
<1>3. ActionsOK'
  <2>1. today \in Nat /\ \A r \in Recs : action[r].day \in Nat
    BY LoopAssumption DEF LoopInv, LoopTypeOK, Actions, LoopAssumption
  <2>2. \A s \in Evaluators : \A r \in DOMAIN drafted[s] : drafted[s][r].day \in Nat
    BY DEF LoopInv, LoopTypeOK, Actions
  <2> QED BY <2>1, <2>2 DEF Watchful, ActionsOK
<1> QED BY <1>2, <1>3 DEF Watchful

\* The end of a session: its actions are committed, or gone.
LEMMA EndWatchful ==
    ASSUME LoopInv, Watchful, NEW s \in Evaluators, CommitLoop(s) \/ LoseLoop(s)
    PROVE  Watchful'
<1>1. /\ LoopTypeOK /\ SessionsOK /\ ActionsOK /\ WellApart /\ Capped /\ EndSession(s)
      /\ UNCHANGED <<today, blind, missed>>
  BY DEF LoopInv, Watchful, CommitLoop, LoseLoop, loopHistory
<1>2. /\ DOMAIN drafted'[s] = {}
      /\ \A t \in Evaluators : t # s => drafted'[t] = drafted[t]
  BY <1>1, EndEffect
<1>3. \A r \in Recs : action'[r] \in {action[r], Seen(s, r)}
  BY DEF CommitLoop, LoseLoop
<1>4. \A r \in Recs : Seen(s, r) \in Versions(r) /\ action[r] \in Versions(r)
  BY DEF Versions, Seen
<1>5. \A r \in Recs : \A x \in Versions(r)' : x \in Versions(r)
  BY <1>2, <1>3, <1>4 DEF Versions
<1>6. WellApart' /\ Capped'
  <2>1. Persists
    BY <1>5 DEF Persists
  <2> QED BY <1>1, <2>1, PersistingStep
<1>7. ActionsOK'
  <2>1. \A r \in Recs : Seen(s, r).day <= today /\ action[r].day <= today
    BY <1>1 DEF ActionsOK, Seen
  <2>2. ASSUME NEW t \in Evaluators, NEW r \in DOMAIN drafted'[t]
        PROVE  action'[r].state = "none" /\ t # s /\ r \in DOMAIN drafted[t] /\ drafted'[t] = drafted[t]
    <3>1. t # s /\ r \in DOMAIN drafted[t] /\ drafted'[t] = drafted[t]
      BY <1>2, <2>2
    <3>2. r \notin DOMAIN drafted[s] /\ action[r].state = "none" /\ r \in Recs
      BY <1>1, <3>1 DEF ActionsOK, SessionsOK
    <3>3. Seen(s, r) = action[r]
      BY <3>2 DEF Seen
    <3> QED BY <1>3, <3>1, <3>2, <3>3
  <2> QED BY <1>1, <1>2, <1>3, <2>1, <2>2 DEF ActionsOK
<1> QED BY <1>6, <1>7 DEF Watchful

\* An action that is decided on or settled keeps its day, and none comes back from
\* a rejection.
LEMMA DecideWatchful ==
    ASSUME LoopInv, Watchful, NEW r \in Recs, NEW outcome \in ActionStates,
           DecideAction(r, outcome) \/ Reconcile(r, outcome)
    PROVE  Watchful'
<1>1. /\ LoopTypeOK /\ SessionsOK /\ ActionsOK /\ WellApart /\ Capped
      /\ UNCHANGED <<today, drafted, blind, missed>>
      /\ action' = [action EXCEPT ![r].state = outcome]
  BY DEF LoopInv, Watchful, DecideAction, Reconcile, loopSession, loopHistory
<1>2. action[r].state \in Effective /\ "none" \notin Effective
  BY DEF DecideAction, Reconcile, Effective, Underway, Failing
<1>3. /\ action'[r].day = action[r].day /\ action[r].state # "none"
      /\ \A q \in Recs \ {r} : action'[q] = action[q]
  BY <1>1, <1>2 DEF LoopTypeOK, Actions
<1>4. Persists
  <2> SUFFICES ASSUME NEW q \in Recs, NEW x \in Versions(q)', x.state # "none"
               PROVE  \E y \in Versions(q) :
                        /\ y.state # "none" /\ y.day = x.day
                        /\ x.state \in Effective => y.state \in Effective
    BY DEF Persists
  <2>1. CASE q = r /\ x = action'[r]
    <3>1. action[r] \in Versions(r)
      BY DEF Versions
    <3> QED BY <1>2, <1>3, <2>1, <3>1
  <2>2. CASE x \in Versions(q)
    BY <2>2
  <2>3. x = action'[q] \/ \E t \in Evaluators : q \in DOMAIN drafted[t] /\ x = drafted[t][q]
    BY <1>1 DEF Versions
  <2>4. (q = r /\ x = action'[r]) \/ x \in Versions(q)
    BY <1>3, <2>3 DEF Versions
  <2> QED BY <2>1, <2>2, <2>4
<1>5. WellApart' /\ Capped'
  BY <1>1, <1>4, PersistingStep
<1>6. ActionsOK'
  <2>1. \A q \in Recs : action'[q].day <= today
    BY <1>1, <1>3 DEF ActionsOK
  <2>2. \A s \in Evaluators : \A q \in DOMAIN drafted[s] : q \in Recs /\ q # r
    BY <1>1, <1>3 DEF ActionsOK, SessionsOK
  <2> QED BY <1>1, <1>3, <2>1, <2>2 DEF ActionsOK
<1> QED BY <1>5, <1>6 DEF Watchful

\* Nothing has been inserted yet.
LEMMA InitWatchful == LoopInit => Watchful
<1> SUFFICES ASSUME LoopInit PROVE Watchful
  OBVIOUS
<1>1. /\ today = 0 /\ \A r \in Recs : action[r] = NoAction
      /\ \A s \in Evaluators : DOMAIN drafted[s] = {}
  BY EmptyEffect DEF LoopInit
<1>2. \A r \in Recs : \A x \in Versions(r) : x.state = "none" /\ x.day = 0
  BY <1>1 DEF Versions, NoAction
<1>3. ActionsOK
  BY <1>1 DEF ActionsOK, NoAction
<1>4. WellApart
  BY <1>2 DEF WellApart, Near, Effective, Underway, Failing
<1>5. Capped
  BY <1>2 DEF Capped, OfDay
<1> QED BY <1>3, <1>4, <1>5 DEF Watchful

\* One case per action, and one for a step that changes nothing.
LEMMA WatchfulStep == LoopInv /\ Watchful /\ [LoopNext]_loopVars => Watchful'
<1> SUFFICES ASSUME LoopInv, Watchful, [LoopNext]_loopVars PROVE Watchful'
  OBVIOUS
<1>1. today \in Nat /\ today <= today
  BY LoopAssumption DEF LoopInv, LoopTypeOK, LoopAssumption
<1>2. CASE NextDay \/ \E p \in Policies : Configure(p)
  <2>1. /\ UNCHANGED <<action, drafted, blind, missed>>
        /\ today' \in Nat /\ today <= today'
    BY <1>1, <1>2 DEF NextDay, Configure, loopSession, loopHistory
  <2> QED BY <2>1, RestingVersions
<1>3. ASSUME NEW r \in Recs, RejectRec(r) \/ \E status \in RecStates : PatchRec(r, status)
      PROVE  Watchful'
  BY <1>1, <1>3, RestingVersions DEF RejectRec, PatchRec, loopSession
<1>4. ASSUME NEW r \in Recs, NEW o \in ActionStates, DecideAction(r, o) \/ Reconcile(r, o)
      PROVE  Watchful'
  BY <1>4, DecideWatchful
<1>5. ASSUME NEW s \in Evaluators, StartBatch(s) \/ \E r \in Recs : StartApprove(s, r) PROVE Watchful'
  BY <1>1, <1>5, RestingVersions DEF StartBatch, StartApprove, Begin, loopHistory
<1>6. ASSUME NEW s \in Evaluators, CommitLoop(s) \/ LoseLoop(s) PROVE Watchful'
  BY <1>6, EndWatchful
<1>7. ASSUME NEW s \in Evaluators, NEW r \in Recs,
             AskFirst(s, r) \/ \E fit \in BOOLEAN : Decline(s, r, fit)
      PROVE  Watchful'
  BY <1>1, <1>7, RestingVersions DEF AskFirst, Decline, loopHistory
<1>8. ASSUME NEW s \in Evaluators, NEW r \in Recs, NEW o \in ActionStates, Create(s, r, o)
      PROVE  Watchful'
  <2>1. CASE Seen(s, r).state = "none"
    BY <1>8, <2>1, InsertStep
  <2>2. CASE Seen(s, r).state # "none"
    BY <1>1, <1>8, <2>2, RestingVersions DEF Create
  <2> QED BY <2>1, <2>2
<1>9. CASE UNCHANGED loopVars
  BY <1>1, <1>9, RestingVersions DEF loopVars
<1> QED BY <1>2, <1>3, <1>4, <1>5, <1>6, <1>7, <1>8, <1>9 DEF LoopNext

\* The invariant with what evaluations cannot see.
LEMMA AllWatchful == LoopSpec => []Watchful
BY LoopInvariance, InitWatchful, WatchfulStep, PTL DEF LoopSpec

-----------------------------------------------------------------------------
(* What it says of the committed actions.                                  *)

\* A bounded set of naturals has a greatest element.
LEMMA Greatest ==
    ASSUME NEW S \in SUBSET Nat, S # {}, NEW n \in Nat, \A x \in S : x <= n
    PROVE  Max(S) \in S /\ \A x \in S : x <= Max(S)
<1> DEFINE T == {n - x : x \in S}
<1>1. T \subseteq Nat
  <2>1. \A x \in S : n - x \in Nat
    OBVIOUS
  <2> QED BY <2>1
<1>2. T # {}
  <2>1. PICK x \in S : TRUE
    OBVIOUS
  <2>2. n - x \in T
    OBVIOUS
  <2> QED BY <2>2
<1> HIDE DEF T
<1>3. IsWellFoundedOn(OpToRel(<, Nat), Nat)
  BY NatLessThanWellFounded
<1>4. PICK m \in T : \A y \in T : ~ (<<y, m>> \in OpToRel(<, Nat))
  BY <1>1, <1>2, <1>3, WFMin
<1>5. ASSUME NEW y \in T PROVE m <= y
  <2>1. <<y, m>> \notin {ss \in Nat \X Nat : ss[1] < ss[2]}
    BY <1>4 DEF OpToRel
  <2> QED BY <1>1, <2>1
<1>6. PICK z \in S : m = n - z
  BY <1>4 DEF T
<1>7. ASSUME NEW y \in S PROVE z >= y
  <2>1. n - y \in T
    BY DEF T
  <2>2. n - z <= n - y
    BY <1>5, <1>6, <2>1
  <2> QED BY <2>2
<1>8. \E x \in S : \A y \in S : x >= y
  BY <1>7
<1>9. Max(S) \in S /\ \A y \in S : Max(S) >= y
  BY <1>8 DEF Max
<1> QED BY <1>9

\* The actions of today are at most the cap and what was hidden from one of them.
LEMMA CappedToday == LoopInv /\ Watchful => CapHoldsButForOverlap
<1> SUFFICES ASSUME LoopInv, Watchful PROVE CapHoldsButForOverlap
  OBVIOUS
<1> DEFINE D == {r \in Recs : Counts(action[r], CapWindow, ActionStates \ {"none"})}
           N == {Cardinality({q \in Recs : <<r, q>> \in blind}) : r \in Recs}
<1>1. IsFiniteSet(Recs) /\ Recs # {} /\ Cardinality(Recs) \in Nat /\ MaxActions \in Nat
  BY LoopAssumption, FS_CardinalityType DEF LoopAssumption
<1>2. \A r \in Recs : /\ IsFiniteSet(Hidden(r)) /\ Cardinality(Hidden(r)) \in Nat
                      /\ Cardinality(Hidden(r)) <= Cardinality(Recs)
  <2> SUFFICES ASSUME NEW r \in Recs
               PROVE  /\ IsFiniteSet(Hidden(r)) /\ Cardinality(Hidden(r)) \in Nat
                      /\ Cardinality(Hidden(r)) <= Cardinality(Recs)
    OBVIOUS
  <2>1. Hidden(r) \in SUBSET Recs
    BY DEF Hidden
  <2> QED BY <1>1, <2>1, FS_Subset, FS_CardinalityType
<1>3. N = {Cardinality(Hidden(r)) : r \in Recs}
  BY DEF Hidden
<1> HIDE DEF N
<1>4. Max(N) \in Nat /\ \A r \in Recs : Cardinality(Hidden(r)) <= Max(N)
  <2>1. N \in SUBSET Nat /\ N # {} /\ \A n \in N : n <= Cardinality(Recs)
    BY <1>1, <1>2, <1>3
  <2>2. Max(N) \in N /\ \A n \in N : n <= Max(N)
    BY <1>1, <2>1, Greatest
  <2> QED BY <1>3, <2>1, <2>2
<1>5. D \subseteq OfDay(today) /\ today \in 0..MaxDays
  <2>1. ASSUME NEW r \in D PROVE action[r].state # "none" /\ action[r].day = today
    <3>1. action[r].day \in Nat /\ today \in Nat /\ action[r].day <= today
      BY LoopAssumption DEF LoopInv, LoopTypeOK, Watchful, ActionsOK, Actions, LoopAssumption
    <3> QED BY <3>1 DEF Counts, CapWindow
  <2> QED BY <2>1 DEF OfDay, Versions, LoopInv, LoopTypeOK
<1>6. D \in SUBSET Recs
  OBVIOUS
<1> HIDE DEF D
<1>7. IsFiniteSet(D) /\ Cardinality(D) \in Nat
  BY <1>1, <1>6, FS_Subset, FS_CardinalityType
<1>8. Cardinality(D) <= MaxActions + Max(N)
  <2>1. CASE D = {}
    <3>1. Cardinality(D) = 0
      BY <2>1, FS_EmptySet
    <3> QED BY <1>1, <1>4, <3>1
  <2>2. CASE D # {}
    <3>1. PICK r \in D : Cardinality(D \ Hidden(r)) <= MaxActions
      BY <1>5, <2>2 DEF Watchful, Capped
    <3>2. r \in Recs
      BY <1>6
    <3>3. /\ IsFiniteSet(D \ Hidden(r)) /\ Cardinality(D \ Hidden(r)) \in Nat
          /\ Cardinality(D \ Hidden(r)) = Cardinality(D) - Cardinality(D \cap Hidden(r))
      BY <1>7, FS_Difference, FS_CardinalityType
    <3>4. /\ Cardinality(D \cap Hidden(r)) <= Cardinality(Hidden(r))
          /\ Cardinality(D \cap Hidden(r)) \in Nat
      BY <1>2, <3>2, FS_Intersection, FS_CardinalityType
    <3>5. Cardinality(Hidden(r)) \in Nat /\ Cardinality(Hidden(r)) <= Max(N)
      BY <1>2, <1>4, <3>2
    <3> QED BY <1>1, <1>4, <1>7, <3>1, <3>3, <3>4, <3>5
  <2> QED BY <2>1, <2>2
<1> QED BY <1>8 DEF CapHoldsButForOverlap, D, N

\* Two opposite actions that were carried out are versions too.
LEMMA ApartWhenDone == LoopInv /\ Watchful => OppositesAreApart
<1> SUFFICES ASSUME LoopInv, Watchful, NEW r \in Recs, NEW q \in Recs, FlipFlop(r, q)
             PROVE  Excused(r, q)
  BY DEF OppositesAreApart, Excused
<1>1. Adverse(r, q) /\ action[r] \in Versions(r) /\ action[q] \in Versions(q)
  BY DEF FlipFlop, Adverse, Versions
<1>2. action[r].day \in Nat /\ action[q].day \in Nat
  BY LoopAssumption DEF LoopInv, LoopTypeOK, Actions, LoopAssumption
<1>3. Near(action[r], action[q])
  BY <1>2 DEF FlipFlop, Near, Effective, Underway, OppositeCooldown
<1> QED BY <1>1, <1>3 DEF Watchful, WellApart

\* The daily cap of actions is exceeded at most by those that one evaluation
\* could not see, because another session had not committed them yet.
THEOREM CapIsMet == LoopSpec => []CapHoldsButForOverlap
BY LoopInvariance, AllWatchful, CappedToday, PTL

\* No flip-flop: a pause and a resume of one campaign that are created within the
\* opposite cooldown are both carried out only if the later check could not see
\* the other one, or passed it over as FAILED and it was completed afterwards.
THEOREM NoFlipFlop == LoopSpec => []OppositesAreApart
BY LoopInvariance, AllWatchful, ApartWhenDone, PTL
=============================================================================
