--------------------------- MODULE LeadIngestProofs ---------------------------
(***************************************************************************)
(* Theorems about LeadIngest, for any number of requests, backfillers and  *)
(* payloads of any events.  The argument is about the unique key: an event *)
(* is drafted by one transaction at a time and by none once it is on       *)
(* record, so that a lead comes into being once and nothing but an edit or *)
(* a retrieval that had loaded it changes it.                              *)
(***************************************************************************)
EXTENDS LeadIngest, FiniteSetTheorems, NaturalsInduction, WellFoundedInduction, TLAPS

-----------------------------------------------------------------------------
(* The inductive invariant.                                                *)

RequestsOK ==
    /\ payload \in [Servers -> Seq(LeadEvents)]
    /\ whole \in [Servers -> Payloads \cup {<<>>}]
    /\ DOMAIN step = Servers /\ DOMAIN draft = Servers /\ DOMAIN filled = Servers
    /\ \A s \in Servers : \A e \in Drafted(s) :
         draft[s][e] \in Ends /\ filled[s][e] \in [Fields -> Sources]
    /\ held \in [Backfillers -> LeadEvents \cup {"none"}]
    /\ saw \in [Backfillers -> [Fields -> Sources]]
    /\ quiet \subseteq LeadEvents \X Fields

\* The unique key of webhook_events.
Exclusive ==
    \A s \in Servers : \A e \in Drafted(s) :
        hook[e] = "none" /\ \A t \in Servers \ {s} : e \notin Drafted(t)

\* Only existing leads are loaded or edited, and what a backfiller saw filled
\* in is so still, by the person who did it while nobody was looking.
Remembered ==
    /\ \A q \in quiet : leads[q[1]] > 0
    /\ \A b \in Backfillers : held[b] # "none" =>
         /\ leads[held[b]] > 0
         /\ \A f \in Fields :
              /\ saw[b][f] # "none" => contact[held[b]][f] # "none"
              /\ <<held[b], f>> \in quiet => saw[b][f] = "human"

\* An event of a payload is still to come, drafted, on record, or was raced.
EventsAccounted ==
    \A s \in Servers : \A i \in DOMAIN whole[s] :
        \/ \E j \in DOMAIN payload[s] : payload[s][j] = whole[s][i]
        \/ whole[s][i] \in Drafted(s) \cup raced
        \/ hook[whole[s][i]] # "none"

LeadInv ==
    /\ LeadTypeOK /\ RequestsOK
    /\ Exclusive /\ OneLeadPerEvent
    /\ Remembered /\ QuietEditsSurvive /\ CompleteIsComplete
    /\ EventsAccounted /\ LossNeedsAKeyRace

-----------------------------------------------------------------------------
(* What the steps of a request do.                                         *)

\* One event less to handle.
LEMMA AdvanceEffect ==
    ASSUME RequestsOK, NEW s \in Servers, Handling(s), Advance(s)
    PROVE  /\ payload' \in [Servers -> Seq(LeadEvents)] /\ DOMAIN step' = Servers
           /\ \A t \in Servers : t # s => payload'[t] = payload[t]
           /\ Current(s) \in LeadEvents
           /\ \A j \in DOMAIN payload[s] :
                \/ payload[s][j] = Current(s)
                \/ \E k \in DOMAIN payload'[s] : payload'[s][k] = payload[s][j]
<1> DEFINE p == payload[s]
<1>1. p \in Seq(LeadEvents) /\ p # <<>>
  BY DEF RequestsOK, Handling
<1>2. /\ payload' = [payload EXCEPT ![s] = Tail(p)] /\ step' = [step EXCEPT ![s] = "check"]
      /\ payload \in [Servers -> Seq(LeadEvents)] /\ DOMAIN step = Servers
  BY DEF Advance, RequestsOK
<1>3. Tail(p) \in Seq(LeadEvents) /\ Head(p) \in LeadEvents
  BY <1>1
<1>4. \A j \in DOMAIN p : p[j] = Head(p) \/ \E k \in DOMAIN Tail(p) : Tail(p)[k] = p[j]
  <2>1. /\ Len(p) \in Nat /\ Len(p) > 0 /\ DOMAIN p = 1 .. Len(p)
        /\ Len(Tail(p)) = Len(p) - 1 /\ DOMAIN Tail(p) = 1 .. Len(Tail(p))
        /\ Head(p) = p[1]
    BY <1>1
  <2>2. \A k \in 1 .. Len(p) - 1 : Tail(p)[k] = p[k + 1]
    BY <1>1
  <2> HIDE DEF p
  <2> SUFFICES ASSUME NEW j \in DOMAIN p, j # 1
               PROVE  \E k \in DOMAIN Tail(p) : Tail(p)[k] = p[j]
    BY <2>1
  <2>3. j - 1 \in 1 .. Len(p) - 1 /\ (j - 1) + 1 = j
    BY <2>1
  <2>4. Tail(p)[j - 1] = p[j]
    BY <2>2, <2>3
  <2> QED BY <2>1, <2>3, <2>4
<1> HIDE DEF p
<1>5. payload'[s] = Tail(p) /\ Current(s) = Head(p)
  BY <1>2 DEF p, Current
<1> QED BY <1>2, <1>3, <1>4, <1>5 DEF p

\* So it is accounted for if the event is, and if what was drafted is.
LEMMA AdvanceUnderway ==
    ASSUME RequestsOK, EventsAccounted, NEW s \in Servers, Handling(s), Advance(s),
           UNCHANGED <<whole, hook>>, raced \subseteq raced',
           \A t \in Servers : t # s => draft'[t] = draft[t],
           Drafted(s) \subseteq Drafted(s)' \cup raced',
           Current(s) \in Drafted(s)' \cup raced' \/ hook[Current(s)] # "none"
    PROVE  EventsAccounted'
<1>1. /\ \A t \in Servers : t # s => payload'[t] = payload[t]
      /\ \A j \in DOMAIN payload[s] :
           \/ payload[s][j] = Current(s)
           \/ \E k \in DOMAIN payload'[s] : payload'[s][k] = payload[s][j]
  BY AdvanceEffect
<1> SUFFICES ASSUME NEW t \in Servers, NEW i \in DOMAIN whole[t]
             PROVE  \/ \E j \in DOMAIN payload'[t] : payload'[t][j] = whole[t][i]
                    \/ whole[t][i] \in Drafted(t)' \cup raced'
                    \/ hook[whole[t][i]] # "none"
  BY DEF EventsAccounted
<1>2. \/ \E j \in DOMAIN payload[t] : payload[t][j] = whole[t][i]
      \/ whole[t][i] \in Drafted(t) \cup raced
      \/ hook[whole[t][i]] # "none"
  BY DEF EventsAccounted
<1>3. CASE t # s
  BY <1>1, <1>2, <1>3 DEF Drafted
<1>4. CASE t = s
  BY <1>1, <1>2, <1>4
<1> QED BY <1>3, <1>4

\* The end of a request: nothing is left of it.
LEMMA ReleaseEffect ==
    ASSUME RequestsOK, NEW s \in Servers, Release(s), UNCHANGED <<held, saw, quiet>>
    PROVE  /\ RequestsOK'
           /\ DOMAIN whole'[s] = {} /\ Drafted(s)' = {} /\ DOMAIN filled'[s] = {}
           /\ \A t \in Servers : t # s =>
                /\ payload'[t] = payload[t] /\ whole'[t] = whole[t]
                /\ draft'[t] = draft[t] /\ filled'[t] = filled[t]
<1>1. /\ <<>> \in Seq(LeadEvents) /\ DOMAIN <<>> = {}
  OBVIOUS
<1>2. /\ payload' \in [Servers -> Seq(LeadEvents)]
      /\ whole' \in [Servers -> Payloads \cup {<<>>}]
      /\ DOMAIN step' = Servers /\ DOMAIN draft' = Servers /\ DOMAIN filled' = Servers
      /\ whole'[s] = <<>> /\ draft'[s] = <<>> /\ filled'[s] = <<>>
      /\ \A t \in Servers : t # s =>
           /\ payload'[t] = payload[t] /\ whole'[t] = whole[t]
           /\ draft'[t] = draft[t] /\ filled'[t] = filled[t]
  BY <1>1 DEF RequestsOK, Release
<1>3. DOMAIN whole'[s] = {} /\ Drafted(s)' = {} /\ DOMAIN filled'[s] = {}
  BY <1>1, <1>2 DEF Drafted
<1>4. \A t \in Servers : \A e \in Drafted(t)' :
        draft'[t][e] \in Ends /\ filled'[t][e] \in [Fields -> Sources]
  BY <1>2, <1>3 DEF RequestsOK, Drafted
<1>5. RequestsOK'
  BY <1>2, <1>4 DEF RequestsOK
<1> QED BY <1>2, <1>3, <1>5

\* A step of requests alone changes nothing that is committed.
LEMMA ServingStep ==
    ASSUME LeadInv, RequestsOK', Exclusive', EventsAccounted',
           UNCHANGED <<hook, leads, contact, enrich, answered, held, saw, quiet>>,
           raced \subseteq raced', raced' \subseteq LeadEvents,
           \A s \in Servers : Drafted(s)' \subseteq LeadEvents /\ DOMAIN filled'[s] = Drafted(s)'
    PROVE  LeadInv'
<1>1. LeadTypeOK'
  BY DEF LeadInv, LeadTypeOK
<1>2. OneLeadPerEvent' /\ Remembered' /\ QuietEditsSurvive' /\ CompleteIsComplete'
  BY DEF LeadInv, OneLeadPerEvent, Remembered, QuietEditsSurvive, CompleteIsComplete
<1>3. LossNeedsAKeyRace'
  BY DEF LeadInv, LossNeedsAKeyRace
<1> QED BY <1>1, <1>2, <1>3 DEF LeadInv

\* A step about contact details leaves the requests and the leads as they are.
LEMMA FillingStep ==
    ASSUME LeadInv, UNCHANGED <<hook, leads, serving, answered, raced>>,
           contact' \in [LeadEvents -> [Fields -> Sources]],
           enrich' \in [LeadEvents -> {"none", "COMPLETE", "INCOMPLETE"}],
           held' \in [Backfillers -> LeadEvents \cup {"none"}],
           saw' \in [Backfillers -> [Fields -> Sources]],
           quiet' \subseteq LeadEvents \X Fields,
           Remembered', QuietEditsSurvive', CompleteIsComplete'
    PROVE  LeadInv'
<1>1. UNCHANGED <<payload, whole, step, draft, filled>>
  BY DEF serving
<1>2. LeadTypeOK' /\ RequestsOK'
  BY <1>1 DEF LeadInv, LeadTypeOK, RequestsOK, Drafted
<1>3. Exclusive' /\ OneLeadPerEvent' /\ EventsAccounted' /\ LossNeedsAKeyRace'
  BY <1>1 DEF LeadInv, Exclusive, OneLeadPerEvent, EventsAccounted, LossNeedsAKeyRace, Drafted
<1> QED BY <1>2, <1>3 DEF LeadInv

-----------------------------------------------------------------------------
(* Every step preserves the invariant.                                     *)

\* Nothing has been delivered.
LEMMA LeadInitially == LeadInit => LeadInv
<1> SUFFICES ASSUME LeadInit PROVE LeadInv
  OBVIOUS
<1>1. Unknown \in [Fields -> Sources]
  BY DEF Unknown, Sources
<1>2. <<>> \in Seq(LeadEvents) /\ DOMAIN <<>> = {}
  OBVIOUS
<1>3. \A s \in Servers : Drafted(s) = {} /\ DOMAIN filled[s] = {} /\ DOMAIN whole[s] = {}
  BY <1>2 DEF LeadInit, Drafted
<1>4. LeadTypeOK /\ RequestsOK
  BY <1>1, <1>2, <1>3 DEF LeadInit, LeadTypeOK, RequestsOK
<1>5. Exclusive /\ EventsAccounted /\ OneLeadPerEvent /\ LossNeedsAKeyRace
  BY <1>3 DEF LeadInit, Exclusive, EventsAccounted, OneLeadPerEvent, LossNeedsAKeyRace
<1>6. Remembered /\ QuietEditsSurvive /\ CompleteIsComplete
  BY DEF LeadInit, Remembered, QuietEditsSurvive, CompleteIsComplete
<1> QED BY <1>4, <1>5, <1>6 DEF LeadInv

\* All events of a payload are still to come.
LEMMA DeliverStep ==
    ASSUME LeadInv, NEW s \in Servers, NEW p \in Payloads, Deliver(s, p)
    PROVE  LeadInv'
<1>1. /\ LeadTypeOK /\ RequestsOK /\ Exclusive /\ EventsAccounted
      /\ payload' = [payload EXCEPT ![s] = p] /\ whole' = [whole EXCEPT ![s] = p]
      /\ UNCHANGED <<hook, leads, contact, enrich, step, draft, filled, answered, held, saw,
                     raced, quiet>>
  BY DEF LeadInv, Deliver, hooks, filling
<1>2. p \in Seq(LeadEvents)
  BY LeadAssumption DEF LeadAssumption
<1>3. RequestsOK'
  BY <1>1, <1>2 DEF RequestsOK, Drafted
<1>4. Exclusive' /\ \A t \in Servers : Drafted(t)' \subseteq LeadEvents /\ DOMAIN filled'[t] = Drafted(t)'
  BY <1>1 DEF Exclusive, Drafted, LeadTypeOK
<1>5. EventsAccounted'
  <2>1. payload'[s] = p /\ whole'[s] = p
    BY <1>1 DEF RequestsOK
  <2>2. \A t \in Servers : t # s => payload'[t] = payload[t] /\ whole'[t] = whole[t]
    BY <1>1 DEF RequestsOK
  <2> QED BY <1>1, <2>1, <2>2 DEF EventsAccounted, Drafted
<1>6. raced' \subseteq LeadEvents
  BY <1>1 DEF LeadTypeOK
<1> QED BY <1>1, <1>3, <1>4, <1>5, <1>6, ServingStep

\* An event that is on record or drafted already is passed over.
LEMMA CheckStep ==
    ASSUME LeadInv, NEW s \in Servers, CheckEvent(s)
    PROVE  LeadInv'
<1>1. /\ LeadTypeOK /\ RequestsOK /\ Exclusive /\ EventsAccounted /\ Handling(s)
      /\ UNCHANGED <<hook, leads, contact, enrich, whole, draft, filled, answered, held, saw,
                     raced, quiet>>
  BY DEF LeadInv, CheckEvent, hooks, meta, filling
<1>2. Exclusive' /\ \A t \in Servers : Drafted(t)' \subseteq LeadEvents /\ DOMAIN filled'[t] = Drafted(t)'
  BY <1>1 DEF Exclusive, Drafted, LeadTypeOK
<1>3. CASE Processed(s, Current(s)) /\ Advance(s)
  <2>1. payload' \in [Servers -> Seq(LeadEvents)] /\ DOMAIN step' = Servers
    BY <1>1, <1>3, AdvanceEffect
  <2>2. RequestsOK'
    BY <1>1, <2>1 DEF RequestsOK, Drafted
  <2>3. EventsAccounted'
    BY <1>1, <1>3, AdvanceUnderway DEF Processed, Drafted
  <2> QED BY <1>1, <1>2, <2>2, <2>3, ServingStep DEF LeadTypeOK
<1>4. CASE step' = [step EXCEPT ![s] = "insert"] /\ payload' = payload
  <2>1. RequestsOK' /\ EventsAccounted'
    BY <1>1, <1>4 DEF RequestsOK, EventsAccounted, Drafted
  <2> QED BY <1>1, <1>2, <2>1, ServingStep DEF LeadTypeOK
<1> QED BY <1>3, <1>4 DEF CheckEvent

\* An event is drafted: it is on record nowhere, nor in another transaction.
LEMMA IngestStep ==
    ASSUME LeadInv, NEW s \in Servers, NEW end \in Ends, NEW details \in SUBSET Fields,
           IngestOne(s, end, details)
    PROVE  LeadInv'
<1> DEFINE e == Current(s)
<1> DEFINE c == [f \in Fields |-> IF f \in details THEN "meta" ELSE "none"]
<1>1. /\ LeadTypeOK /\ RequestsOK /\ Exclusive /\ EventsAccounted /\ Handling(s) /\ Advance(s)
      /\ ~ Contended(s, e) /\ hook[e] = "none"
      /\ draft' = [draft EXCEPT ![s] = Put(draft[s], e, end)]
      /\ filled' = [filled EXCEPT ![s] = Put(filled[s], e, c)]
      /\ UNCHANGED <<hook, leads, contact, enrich, whole, answered, held, saw, raced, quiet>>
  BY DEF LeadInv, IngestOne, hooks, meta, filling
<1>2. c \in [Fields -> Sources]
  BY DEF Sources
<1> HIDE DEF c
<1>3. /\ payload' \in [Servers -> Seq(LeadEvents)] /\ DOMAIN step' = Servers /\ e \in LeadEvents
  BY <1>1, AdvanceEffect
<1>4. /\ DOMAIN draft' = Servers /\ DOMAIN filled' = Servers
      /\ \A t \in Servers : t # s => draft'[t] = draft[t] /\ filled'[t] = filled[t]
      /\ draft'[s] = Put(draft[s], e, end) /\ filled'[s] = Put(filled[s], e, c)
      /\ DOMAIN filled[s] = Drafted(s)
  BY <1>1 DEF RequestsOK, LeadTypeOK
<1> HIDE DEF e
<1>5. /\ Drafted(s)' = Drafted(s) \cup {e} /\ DOMAIN filled'[s] = Drafted(s) \cup {e}
      /\ \A x \in Drafted(s) \cup {e} : draft'[s][x] = IF x = e THEN end ELSE draft[s][x]
      /\ \A x \in Drafted(s) \cup {e} : filled'[s][x] = IF x = e THEN c ELSE filled[s][x]
  BY <1>4 DEF Put, Drafted
<1>6. RequestsOK'
  <2>1. \A t \in Servers : \A x \in Drafted(t)' :
          draft'[t][x] \in Ends /\ filled'[t][x] \in [Fields -> Sources]
    BY <1>1, <1>2, <1>4, <1>5 DEF RequestsOK, Drafted
  <2> QED BY <1>1, <1>3, <1>4, <2>1 DEF RequestsOK
<1>7. Exclusive'
  <2>1. \A t \in Servers \ {s} : e \notin Drafted(t)
    BY <1>1 DEF Contended, e
  <2>2. \A t \in Servers : t # s => Drafted(t)' = Drafted(t)
    BY <1>4 DEF Drafted
  <2> QED BY <1>1, <1>5, <2>1, <2>2 DEF Exclusive
<1>8. EventsAccounted'
  BY <1>1, <1>4, <1>5, AdvanceUnderway DEF e
<1>9. \A t \in Servers : Drafted(t)' \subseteq LeadEvents /\ DOMAIN filled'[t] = Drafted(t)'
  BY <1>1, <1>3, <1>4, <1>5 DEF LeadTypeOK, Drafted
<1> QED BY <1>1, <1>6, <1>7, <1>8, <1>9, ServingStep DEF LeadTypeOK

\* A transaction that is rolled back for its key drafts nothing any longer.
LEMMA KeyLostStep ==
    ASSUME LeadInv, NEW s \in Servers, KeyLost(s)
    PROVE  LeadInv'
<1>1. /\ LeadTypeOK /\ RequestsOK /\ Exclusive /\ EventsAccounted /\ Handling(s) /\ Advance(s)
      /\ hook[Current(s)] # "none"
      /\ raced' = raced \cup Drafted(s)
      /\ draft' = [draft EXCEPT ![s] = <<>>] /\ filled' = [filled EXCEPT ![s] = <<>>]
      /\ UNCHANGED <<hook, leads, contact, enrich, whole, answered, held, saw, quiet>>
  BY DEF LeadInv, KeyLost, hooks, meta, filling
<1>2. payload' \in [Servers -> Seq(LeadEvents)] /\ DOMAIN step' = Servers
  BY <1>1, AdvanceEffect
<1>3. /\ DOMAIN draft' = Servers /\ DOMAIN filled' = Servers
      /\ Drafted(s)' = {} /\ DOMAIN filled'[s] = {}
      /\ \A t \in Servers : t # s => draft'[t] = draft[t] /\ filled'[t] = filled[t]
  BY <1>1 DEF RequestsOK, Drafted
<1>4. RequestsOK'
  <2>1. \A t \in Servers : \A e \in Drafted(t)' :
          draft'[t][e] \in Ends /\ filled'[t][e] \in [Fields -> Sources]
    BY <1>1, <1>3 DEF RequestsOK, Drafted
  <2> QED BY <1>1, <1>2, <1>3, <2>1 DEF RequestsOK
<1>5. Exclusive'
  BY <1>1, <1>3 DEF Exclusive, Drafted
<1>6. EventsAccounted'
  BY <1>1, <1>3, AdvanceUnderway
<1>7. \A t \in Servers : Drafted(t)' \subseteq LeadEvents /\ DOMAIN filled'[t] = Drafted(t)'
  BY <1>1, <1>3 DEF LeadTypeOK, Drafted
<1>8. raced \subseteq raced' /\ raced' \subseteq LeadEvents
  BY <1>1 DEF LeadTypeOK
<1> QED BY <1>1, <1>4, <1>5, <1>6, <1>7, <1>8, ServingStep

\* A request that fails is forgotten.
LEMMA FailStep ==
    ASSUME LeadInv, NEW s \in Servers, FailDelivery(s) \/ Deadlocked(s)
    PROVE  LeadInv'
<1>1. /\ LeadTypeOK /\ RequestsOK /\ Exclusive /\ EventsAccounted /\ Release(s)
      /\ UNCHANGED <<hook, leads, contact, enrich, answered, held, saw, raced, quiet>>
  BY DEF LeadInv, FailDelivery, Deadlocked, hooks, meta, filling
<1>2. /\ RequestsOK'
      /\ DOMAIN whole'[s] = {} /\ Drafted(s)' = {} /\ DOMAIN filled'[s] = {}
      /\ \A t \in Servers : t # s =>
           /\ payload'[t] = payload[t] /\ whole'[t] = whole[t]
           /\ draft'[t] = draft[t] /\ filled'[t] = filled[t]
  BY <1>1, ReleaseEffect
<1>3. Exclusive' /\ EventsAccounted'
  BY <1>1, <1>2 DEF Exclusive, EventsAccounted, Drafted
<1>4. \A t \in Servers : Drafted(t)' \subseteq LeadEvents /\ DOMAIN filled'[t] = Drafted(t)'
  BY <1>1, <1>2 DEF LeadTypeOK, Drafted
<1> QED BY <1>1, <1>2, <1>3, <1>4, ServingStep DEF LeadTypeOK

\* The commit: what was drafted, by this request alone, is on record, and a lead
\* exists for what was not on record before.
LEMMA AnswerStep ==
    ASSUME LeadInv, NEW s \in Servers, Answer(s)
    PROVE  LeadInv'
<1>1. /\ LeadTypeOK /\ RequestsOK /\ Exclusive /\ OneLeadPerEvent /\ Remembered
      /\ QuietEditsSurvive /\ CompleteIsComplete /\ EventsAccounted /\ LossNeedsAKeyRace
      /\ whole[s] # <<>> /\ payload[s] = <<>> /\ Release(s)
      /\ answered' = answered \cup {whole[s]}
      /\ UNCHANGED <<held, saw, raced, quiet>>
  BY DEF LeadInv, Answer, Handling, filling
<1>2. /\ RequestsOK'
      /\ DOMAIN whole'[s] = {} /\ Drafted(s)' = {} /\ DOMAIN filled'[s] = {}
      /\ \A t \in Servers : t # s =>
           /\ payload'[t] = payload[t] /\ whole'[t] = whole[t]
           /\ draft'[t] = draft[t] /\ filled'[t] = filled[t]
  BY <1>1, ReleaseEffect
<1>3. /\ hook' \in [LeadEvents -> Ends \cup {"none"}]
      /\ \A e \in LeadEvents : hook'[e] = IF e \in Drafted(s) THEN draft[s][e] ELSE hook[e]
  BY <1>1 DEF Answer, LeadTypeOK, RequestsOK
<1>4. \A e \in Drafted(s) :
        /\ e \in LeadEvents /\ hook[e] = "none" /\ leads[e] = 0 /\ draft[s][e] \in Ends
        /\ filled[s][e] \in [Fields -> Sources]
  BY <1>1 DEF Exclusive, OneLeadPerEvent, LeadTypeOK, RequestsOK
<1>5. Created(s) \subseteq Drafted(s) /\ \A e \in Drafted(s) : e \in Created(s) <=> draft[s][e] = "processed"
  BY DEF Created
<1>6. \A e \in LeadEvents :
        /\ leads'[e] = IF e \in Created(s) THEN leads[e] + 1 ELSE leads[e]
        /\ contact'[e] = IF e \in Created(s) THEN filled[s][e] ELSE contact[e]
        /\ enrich'[e] = IF e \in Created(s) THEN Mark(filled[s][e]) ELSE enrich[e]
  BY DEF Answer
<1>7. LeadTypeOK'
  <2>1. \A c : Mark(c) \in {"none", "COMPLETE", "INCOMPLETE"}
    BY DEF Mark
  <2>2. leads' \in [LeadEvents -> Nat]
    BY <1>1 DEF Answer, LeadTypeOK
  <2>3. contact' \in [LeadEvents -> [Fields -> Sources]]
    BY <1>1, <1>4, <1>5 DEF Answer, LeadTypeOK
  <2>4. enrich' \in [LeadEvents -> {"none", "COMPLETE", "INCOMPLETE"}]
    BY <1>1, <2>1 DEF Answer, LeadTypeOK
  <2>5. \A t \in Servers : Drafted(t)' \subseteq LeadEvents /\ DOMAIN filled'[t] = Drafted(t)'
    BY <1>1, <1>2 DEF LeadTypeOK, Drafted
  <2>6. answered' \subseteq Payloads /\ raced' \subseteq LeadEvents
    BY <1>1 DEF LeadTypeOK, RequestsOK
  <2> QED BY <1>3, <2>2, <2>3, <2>4, <2>5, <2>6 DEF LeadTypeOK
<1>8. Exclusive'
  <2> SUFFICES ASSUME NEW t \in Servers, t # s, NEW e \in Drafted(t)'
               PROVE  hook'[e] = "none" /\ \A u \in Servers \ {t} : e \notin Drafted(u)'
    BY <1>2 DEF Exclusive
  <2>1. e \in Drafted(t) /\ e \in LeadEvents /\ e \notin Drafted(s) /\ hook[e] = "none"
    BY <1>1, <1>2 DEF Exclusive, Drafted, LeadTypeOK
  <2>2. \A u \in Servers \ {t} : e \notin Drafted(u)'
    BY <1>1, <1>2, <2>1 DEF Exclusive, Drafted
  <2> QED BY <1>3, <2>1, <2>2
<1>9. OneLeadPerEvent'
  <2> SUFFICES ASSUME NEW e \in LeadEvents
               PROVE  leads'[e] = IF hook'[e] = "processed" THEN 1 ELSE 0
    BY DEF OneLeadPerEvent
  <2>1. CASE e \in Drafted(s)
    BY <1>3, <1>4, <1>5, <1>6, <2>1
  <2>2. CASE e \notin Drafted(s)
    BY <1>1, <1>3, <1>5, <1>6, <2>2 DEF OneLeadPerEvent
  <2> QED BY <2>1, <2>2
\* Nobody has edited or loaded a lead that does not exist.
<1>10. \A e \in LeadEvents : leads[e] > 0 =>
         e \notin Created(s) /\ leads'[e] = leads[e] /\ contact'[e] = contact[e]
  BY <1>4, <1>5, <1>6
<1>11. Remembered' /\ QuietEditsSurvive'
  <2>1. \A q \in quiet : q[1] \in LeadEvents /\ leads[q[1]] > 0
    BY <1>1 DEF RequestsOK, Remembered
  <2>2. \A b \in Backfillers : held[b] # "none" => held[b] \in LeadEvents /\ leads[held[b]] > 0
    BY <1>1 DEF RequestsOK, Remembered
  <2> QED BY <1>1, <1>10, <2>1, <2>2 DEF Remembered, QuietEditsSurvive
<1>12. CompleteIsComplete'
  BY <1>1, <1>6 DEF CompleteIsComplete, Mark, Complete, Blank
<1>13. EventsAccounted'
  <2> SUFFICES ASSUME NEW t \in Servers, t # s, NEW i \in DOMAIN whole[t]
               PROVE  \/ \E j \in DOMAIN payload'[t] : payload'[t][j] = whole[t][i]
                      \/ whole[t][i] \in Drafted(t)' \cup raced'
                      \/ hook'[whole[t][i]] # "none"
    BY <1>2 DEF EventsAccounted
  <2>1. whole[t][i] \in LeadEvents
    BY <1>1, LeadAssumption DEF RequestsOK, LeadAssumption
  <2>2. hook[whole[t][i]] # "none" => hook'[whole[t][i]] # "none"
    BY <1>3, <1>4, <2>1 DEF Ends
  <2> QED BY <1>1, <1>2, <2>2 DEF EventsAccounted, Drafted
<1>14. LossNeedsAKeyRace'
  <2> SUFFICES ASSUME NEW p \in answered', NEW i \in DOMAIN p
               PROVE  hook'[p[i]] # "none" \/ p[i] \in raced
    BY <1>1 DEF LossNeedsAKeyRace
  <2>1. p \in Payloads
    BY <1>1 DEF LeadTypeOK, RequestsOK
  <2>2. p[i] \in LeadEvents
    BY <2>1, LeadAssumption DEF LeadAssumption
  <2>3. CASE p \in answered
    BY <1>1, <1>3, <1>4, <2>2, <2>3 DEF LossNeedsAKeyRace, Ends
  <2>4. CASE p = whole[s]
    <3>1. ~ \E j \in DOMAIN payload[s] : payload[s][j] = p[i]
      BY <1>1
    <3>2. p[i] \in Drafted(s) \cup raced \/ hook[p[i]] # "none"
      BY <1>1, <2>4, <3>1 DEF EventsAccounted
    <3> QED BY <1>3, <1>4, <2>2, <3>2 DEF Ends
  <2> QED BY <1>1, <2>3, <2>4
<1> QED BY <1>2, <1>7, <1>8, <1>9, <1>11, <1>12, <1>13, <1>14 DEF LeadInv

\* The copy a backfiller takes is what the lead shows.
LEMMA LoadLeadStep ==
    ASSUME LeadInv, NEW b \in Backfillers, NEW e \in LeadEvents, LoadLead(b, e)
    PROVE  LeadInv'
<1>1. /\ LeadTypeOK /\ RequestsOK /\ Remembered /\ QuietEditsSurvive /\ CompleteIsComplete
      /\ leads[e] > 0
      /\ held' = [held EXCEPT ![b] = e] /\ saw' = [saw EXCEPT ![b] = contact[e]]
      /\ UNCHANGED <<hook, leads, contact, enrich, serving, answered, raced, quiet>>
  BY DEF LeadInv, LoadLead, NeedsBackfill, hooks, meta
<1>2. /\ held' \in [Backfillers -> LeadEvents \cup {"none"}]
      /\ saw' \in [Backfillers -> [Fields -> Sources]]
      /\ held'[b] = e /\ saw'[b] = contact[e]
      /\ \A c \in Backfillers : c # b => held'[c] = held[c] /\ saw'[c] = saw[c]
  BY <1>1 DEF LeadTypeOK, RequestsOK
<1>3. \A f \in Fields : <<e, f>> \in quiet => contact[e][f] = "human"
  BY <1>1 DEF QuietEditsSurvive
<1>4. Remembered'
  BY <1>1, <1>2, <1>3 DEF Remembered
<1>5. QuietEditsSurvive' /\ CompleteIsComplete'
  BY <1>1 DEF QuietEditsSurvive, CompleteIsComplete
<1> QED BY <1>1, <1>2, <1>4, <1>5, FillingStep DEF LeadTypeOK, RequestsOK

\* What is held and seen after a backfiller is done with its lead.
LEMMA LetGoEffect ==
    ASSUME RequestsOK, NEW b \in Backfillers, LetGo(b)
    PROVE  /\ held' \in [Backfillers -> LeadEvents \cup {"none"}]
           /\ saw' \in [Backfillers -> [Fields -> Sources]]
           /\ held'[b] = "none"
           /\ \A c \in Backfillers : c # b => held'[c] = held[c] /\ saw'[c] = saw[c]
<1>1. Unknown \in [Fields -> Sources]
  BY DEF Unknown, Sources
<1> QED BY <1>1 DEF RequestsOK, LetGo

\* A retrieval writes only fields it saw empty, which no quiet edit filled in;
\* and a field that is known stays known.
LEMMA BackfillStep ==
    ASSUME LeadInv, NEW b \in Backfillers, NEW details \in SUBSET Fields, Backfill(b, details)
    PROVE  LeadInv'
<1> DEFINE e == held[b]
<1> DEFINE new == Filled(saw[b], details)
<1>1. /\ LeadTypeOK /\ RequestsOK /\ Remembered /\ QuietEditsSurvive /\ CompleteIsComplete
      /\ LetGo(b) /\ e # "none" /\ e \in LeadEvents
      /\ contact' = [contact EXCEPT ![e] =
                       [f \in Fields |-> IF new[f] # saw[b][f] THEN new[f] ELSE contact[e][f]]]
      /\ enrich' = [enrich EXCEPT ![e] = Mark(new)]
      /\ UNCHANGED <<hook, leads, serving, answered, raced, quiet>>
  BY DEF LeadInv, Backfill, RequestsOK, hooks, meta
<1>2. /\ saw[b] \in [Fields -> Sources] /\ contact[e] \in [Fields -> Sources]
      /\ \A f \in Fields : saw[b][f] # "none" => contact[e][f] # "none"
      /\ \A f \in Fields : <<e, f>> \in quiet => saw[b][f] = "human"
  BY <1>1 DEF LeadTypeOK, RequestsOK, Remembered
<1>3. /\ new \in [Fields -> Sources]
      /\ \A f \in Fields : new[f] # saw[b][f] => saw[b][f] \in Blank /\ new[f] = "meta"
  BY <1>2 DEF Filled, Sources, Blank
<1>4. Mark(new) \in {"COMPLETE", "INCOMPLETE"} /\ (Mark(new) = "COMPLETE" => Complete(new))
  BY DEF Mark
<1> HIDE DEF new, e
<1>5. /\ contact'[e] \in [Fields -> Sources]
      /\ \A f \in Fields : contact'[e][f] = IF new[f] # saw[b][f] THEN new[f] ELSE contact[e][f]
      /\ \A x \in LeadEvents : x # e => contact'[x] = contact[x] /\ enrich'[x] = enrich[x]
      /\ enrich'[e] = Mark(new)
  BY <1>1, <1>2, <1>3 DEF LeadTypeOK
<1>6. /\ contact' \in [LeadEvents -> [Fields -> Sources]]
      /\ enrich' \in [LeadEvents -> {"none", "COMPLETE", "INCOMPLETE"}]
  BY <1>1, <1>4, <1>5 DEF LeadTypeOK
<1>7. \A x \in LeadEvents, f \in Fields :
        /\ contact[x][f] # "none" => contact'[x][f] # "none"
        /\ <<x, f>> \in quiet => contact'[x][f] = "human"
  <2> SUFFICES ASSUME NEW x \in LeadEvents, NEW f \in Fields
               PROVE  /\ contact[x][f] # "none" => contact'[x][f] # "none"
                      /\ <<x, f>> \in quiet => contact'[x][f] = "human"
    OBVIOUS
  <2>1. <<x, f>> \in quiet => contact[x][f] = "human"
    BY <1>1 DEF QuietEditsSurvive
  <2>2. CASE x = e
    BY <1>2, <1>3, <1>5, <2>1, <2>2 DEF Blank
  <2>3. CASE x # e
    BY <1>5, <2>1, <2>3
  <2> QED BY <2>2, <2>3
<1>8. /\ held' \in [Backfillers -> LeadEvents \cup {"none"}]
      /\ saw' \in [Backfillers -> [Fields -> Sources]]
      /\ held'[b] = "none"
      /\ \A c \in Backfillers : c # b => held'[c] = held[c] /\ saw'[c] = saw[c]
  BY <1>1, LetGoEffect
<1>9. Remembered'
  <2> SUFFICES ASSUME NEW c \in Backfillers, held'[c] # "none"
               PROVE  /\ leads'[held'[c]] > 0
                      /\ \A f \in Fields :
                           /\ saw'[c][f] # "none" => contact'[held'[c]][f] # "none"
                           /\ <<held'[c], f>> \in quiet' => saw'[c][f] = "human"
    BY <1>1 DEF Remembered
  <2>1. c # b /\ held'[c] = held[c] /\ saw'[c] = saw[c] /\ held[c] \in LeadEvents
    BY <1>1, <1>8 DEF RequestsOK
  <2> QED BY <1>1, <1>7, <2>1 DEF Remembered
<1>10. QuietEditsSurvive'
  BY <1>1, <1>7 DEF QuietEditsSurvive, RequestsOK
<1>11. CompleteIsComplete'
  <2>1. Complete(new) => \A f \in Fields : contact'[e][f] # "none"
    BY <1>2, <1>5 DEF Complete, Blank
  <2> QED BY <1>1, <1>4, <1>5, <2>1 DEF CompleteIsComplete
<1>12. quiet' \subseteq LeadEvents \X Fields
  BY <1>1 DEF RequestsOK
<1> QED BY <1>1, <1>6, <1>8, <1>9, <1>10, <1>11, <1>12, FillingStep

\* A failed retrieval only takes the mark away.
LEMMA BackfillFailsStep ==
    ASSUME LeadInv, NEW b \in Backfillers, BackfillFails(b)
    PROVE  LeadInv'
<1>1. /\ LeadTypeOK /\ RequestsOK /\ Remembered /\ QuietEditsSurvive /\ CompleteIsComplete
      /\ LetGo(b) /\ enrich' = [enrich EXCEPT ![held[b]] = "INCOMPLETE"]
      /\ UNCHANGED <<hook, leads, contact, serving, answered, raced, quiet>>
  BY DEF LeadInv, BackfillFails, hooks, meta
<1>2. /\ held' \in [Backfillers -> LeadEvents \cup {"none"}]
      /\ saw' \in [Backfillers -> [Fields -> Sources]]
      /\ held'[b] = "none"
      /\ \A c \in Backfillers : c # b => held'[c] = held[c] /\ saw'[c] = saw[c]
  BY <1>1, LetGoEffect
<1>3. enrich' \in [LeadEvents -> {"none", "COMPLETE", "INCOMPLETE"}]
  BY <1>1 DEF LeadTypeOK
<1>4. Remembered'
  BY <1>1, <1>2 DEF Remembered
<1>5. QuietEditsSurvive' /\ CompleteIsComplete'
  BY <1>1 DEF QuietEditsSurvive, CompleteIsComplete, LeadTypeOK
<1> QED BY <1>1, <1>2, <1>3, <1>4, <1>5, FillingStep DEF LeadTypeOK, RequestsOK

\* An edit is quiet only if nobody holds the lead with an older copy of it.
LEMMA EditStep ==
    ASSUME LeadInv, NEW e \in LeadEvents, NEW f \in Fields, Edit(e, f)
    PROVE  LeadInv'
<1>1. /\ LeadTypeOK /\ RequestsOK /\ Remembered /\ QuietEditsSurvive /\ CompleteIsComplete
      /\ leads[e] > 0
      /\ contact' = [contact EXCEPT ![e][f] = "human"]
      /\ quiet' = IF \E b \in Backfillers : held[b] = e THEN quiet ELSE quiet \cup {<<e, f>>}
      /\ UNCHANGED <<hook, leads, enrich, serving, answered, held, saw, raced>>
  BY DEF LeadInv, Edit, hooks, meta, filling
<1>2. /\ contact' \in [LeadEvents -> [Fields -> Sources]]
      /\ contact'[e][f] = "human"
      /\ \A x \in LeadEvents, g \in Fields : contact'[x][g] = contact[x][g] \/ contact'[x][g] = "human"
  BY <1>1 DEF LeadTypeOK, Sources
<1>3. /\ quiet' \subseteq quiet \cup {<<e, f>>} /\ quiet' \subseteq LeadEvents \X Fields
      /\ \A b \in Backfillers : held[b] = e => quiet' = quiet
  BY <1>1 DEF RequestsOK
<1>4. QuietEditsSurvive'
  <2> SUFFICES ASSUME NEW q \in quiet' PROVE contact'[q[1]][q[2]] = "human"
    BY DEF QuietEditsSurvive
  <2>1. CASE q = <<e, f>>
    BY <1>2, <2>1
  <2>2. CASE q \in quiet
    BY <1>1, <1>2, <2>2 DEF QuietEditsSurvive, RequestsOK
  <2> QED BY <1>3, <2>1, <2>2
<1>5. Remembered'
  <2>1. \A q \in quiet' : leads[q[1]] > 0
    BY <1>1, <1>3 DEF Remembered
  <2>2. ASSUME NEW b \in Backfillers, held[b] # "none"
        PROVE  /\ leads[held[b]] > 0
               /\ \A g \in Fields :
                    /\ saw[b][g] # "none" => contact'[held[b]][g] # "none"
                    /\ <<held[b], g>> \in quiet' => saw[b][g] = "human"
    <3>1. held[b] \in LeadEvents
      BY <1>1, <2>2 DEF RequestsOK
    <3>2. ASSUME NEW g \in Fields, <<held[b], g>> \in quiet' PROVE <<held[b], g>> \in quiet
      BY <1>3, <3>2
    <3> QED BY <1>1, <1>2, <2>2, <3>1, <3>2 DEF Remembered
  <2> QED BY <1>1, <2>1, <2>2 DEF Remembered
<1>6. CompleteIsComplete'
  BY <1>1, <1>2 DEF CompleteIsComplete
<1> QED BY <1>1, <1>2, <1>3, <1>4, <1>5, <1>6, FillingStep DEF LeadTypeOK, RequestsOK

\* A person clears a field: it is not one that stays as it was entered.
LEMMA ClearStep ==
    ASSUME LeadInv, NEW e \in LeadEvents, Clear(e)
    PROVE  LeadInv'
<1>1. /\ LeadTypeOK /\ RequestsOK /\ Remembered /\ QuietEditsSurvive /\ CompleteIsComplete
      /\ contact' = [contact EXCEPT ![e]["email"] = "cleared"]
      /\ quiet' = quiet \ {<<e, "email">>}
      /\ UNCHANGED <<hook, leads, enrich, serving, answered, held, saw, raced>>
  BY DEF LeadInv, Clear, hooks, meta, filling
<1>2. /\ contact' \in [LeadEvents -> [Fields -> Sources]]
      /\ \A x \in LeadEvents, g \in Fields :
           \/ contact'[x][g] = contact[x][g]
           \/ x = e /\ g = "email" /\ contact'[x][g] = "cleared"
  BY <1>1 DEF LeadTypeOK, Sources
<1>3. quiet' \subseteq LeadEvents \X Fields /\ <<e, "email">> \notin quiet' /\ quiet' \subseteq quiet
  BY <1>1 DEF RequestsOK
<1>4. QuietEditsSurvive'
  <2> SUFFICES ASSUME NEW q \in quiet' PROVE contact'[q[1]][q[2]] = "human"
    BY DEF QuietEditsSurvive
  <2>1. q[1] \in LeadEvents /\ q[2] \in Fields /\ q = <<q[1], q[2]>> /\ contact[q[1]][q[2]] = "human"
    BY <1>1, <1>3 DEF QuietEditsSurvive
  <2> QED BY <1>2, <1>3, <2>1
<1>5. Remembered'
  <2>1. \A q \in quiet' : leads[q[1]] > 0
    BY <1>1, <1>3 DEF Remembered
  <2>2. ASSUME NEW b \in Backfillers, held[b] # "none"
        PROVE  /\ leads[held[b]] > 0
               /\ \A g \in Fields :
                    /\ saw[b][g] # "none" => contact'[held[b]][g] # "none"
                    /\ <<held[b], g>> \in quiet' => saw[b][g] = "human"
    <3>1. held[b] \in LeadEvents
      BY <1>1, <2>2 DEF RequestsOK
    <3> QED BY <1>1, <1>2, <1>3, <2>2, <3>1 DEF Remembered
  <2> QED BY <1>1, <2>1, <2>2 DEF Remembered
<1>6. CompleteIsComplete'
  BY <1>1, <1>2 DEF CompleteIsComplete
<1> QED BY <1>1, <1>2, <1>3, <1>4, <1>5, <1>6, FillingStep DEF LeadTypeOK, RequestsOK

\* Every step preserves the invariant.
LEMMA LeadPreserved == LeadInv /\ [LeadNext]_leadVars => LeadInv'
<1> SUFFICES ASSUME LeadInv, [LeadNext]_leadVars PROVE LeadInv'
  OBVIOUS
<1>1. ASSUME NEW s \in Servers, NEW p \in Payloads, Deliver(s, p) PROVE LeadInv'
  BY <1>1, DeliverStep
<1>2. ASSUME NEW s \in Servers, CheckEvent(s) PROVE LeadInv'
  BY <1>2, CheckStep
<1>3. ASSUME NEW s \in Servers, KeyLost(s) PROVE LeadInv'
  BY <1>3, KeyLostStep
<1>4. ASSUME NEW s \in Servers, Answer(s) PROVE LeadInv'
  BY <1>4, AnswerStep
<1>5. ASSUME NEW s \in Servers, FailDelivery(s) \/ Deadlocked(s) PROVE LeadInv'
  BY <1>5, FailStep
<1>6. ASSUME NEW s \in Servers, NEW end \in Ends, NEW details \in SUBSET Fields,
             IngestOne(s, end, details)
      PROVE  LeadInv'
  BY <1>6, IngestStep
<1>7. ASSUME NEW b \in Backfillers, BackfillFails(b) PROVE LeadInv'
  BY <1>7, BackfillFailsStep
<1>8. ASSUME NEW b \in Backfillers, NEW details \in SUBSET Fields, Backfill(b, details)
      PROVE  LeadInv'
  BY <1>8, BackfillStep
<1>9. ASSUME NEW b \in Backfillers, NEW e \in LeadEvents, LoadLead(b, e) PROVE LeadInv'
  BY <1>9, LoadLeadStep
<1>10. ASSUME NEW e \in LeadEvents, NEW f \in Fields, Edit(e, f) PROVE LeadInv'
  BY <1>10, EditStep
<1>12. ASSUME NEW e \in LeadEvents, Clear(e) PROVE LeadInv'
  BY <1>12, ClearStep
<1>11. CASE UNCHANGED leadVars
  BY <1>11 DEF leadVars, hooks, serving, meta, filling, LeadInv, LeadTypeOK, RequestsOK, Exclusive,
       OneLeadPerEvent, Remembered, QuietEditsSurvive, CompleteIsComplete, EventsAccounted,
       LossNeedsAKeyRace, Drafted
<1> QED BY <1>1, <1>2, <1>3, <1>4, <1>5, <1>6, <1>7, <1>8, <1>9, <1>10, <1>11, <1>12
         DEF LeadNext

-----------------------------------------------------------------------------
(* The theorems.                                                           *)

\* The invariant holds throughout every behaviour.
THEOREM LeadInvariance == LeadSpec => []LeadInv
<1>1. LeadInit => LeadInv
  BY LeadInitially
<1>2. LeadInv /\ [LeadNext]_leadVars => LeadInv'
  BY LeadPreserved
<1> QED BY <1>1, <1>2, PTL DEF LeadSpec

\* webhook_events, leads, contact details and drafts are always of their types.
THEOREM LeadTypes == LeadSpec => []LeadTypeOK
<1>1. LeadInv => LeadTypeOK
  BY DEF LeadInv
<1> QED BY <1>1, LeadInvariance, PTL

\* An event that is on record as processed has exactly one lead, any other none.
THEOREM LeadOnce == LeadSpec => []OneLeadPerEvent
<1>1. LeadInv => OneLeadPerEvent
  BY DEF LeadInv
<1> QED BY <1>1, LeadInvariance, PTL

\* Whatever is answered with success is on record, but for the events of a
\* transaction that lost a key race.
THEOREM OnlyKeyRacesLose == LeadSpec => []LossNeedsAKeyRace
<1>1. LeadInv => LossNeedsAKeyRace
  BY DEF LeadInv
<1> QED BY <1>1, LeadInvariance, PTL

\* What a person entered while nobody was retrieving is never replaced.
THEOREM EditsSurvive == LeadSpec => []QuietEditsSurvive
<1>1. LeadInv => QuietEditsSurvive
  BY DEF LeadInv
<1> QED BY <1>1, LeadInvariance, PTL

\* A lead that is marked COMPLETE is complete, but for what a person removed,
\* whatever is edited or cleared while its details are being retrieved.
THEOREM MarksAreTrue == LeadSpec => []CompleteIsComplete
<1>1. LeadInv => CompleteIsComplete
  BY DEF LeadInv
<1> QED BY <1>1, LeadInvariance, PTL

-----------------------------------------------------------------------------
(* Requests that wait for each other: the safety half of                   *)
(* EveryPayloadIsAnswered.                                                 *)

\* What CheckEvent, KeyLost, IngestOne and Answer look at.
CanGoOn(s) ==
    \/ ~ Handling(s) \/ step[s] = "check"
    \/ hook[Current(s)] # "none" \/ ~ Contended(s, Current(s))

\* Whomever a request waits for, and those wait for, and so on: one of them can
\* go on, or is in a circle that PostgreSQL breaks.
EveryWaitEnds ==
    \A W \in SUBSET Servers :
        /\ \E s \in W : whole[s] # <<>>
        /\ \A s \in W, t \in Servers : Waits(s, t) => t \in W
        => \E s \in W : whole[s] # <<>> /\ (CanGoOn(s) \/ InCircle(s))

\* A request that has been answered holds no keys.
IdleHoldsNothing ==
    \A s \in Servers :
        /\ step[s] \in {"check", "insert"}
        /\ whole[s] = <<>> => payload[s] = <<>> /\ Drafted(s) = {}

\* Whoever holds a key, or has something to do, is handling a payload.
LEMMA IdleKept == LeadInv /\ IdleHoldsNothing /\ [LeadNext]_leadVars => IdleHoldsNothing'
<1> SUFFICES ASSUME LeadInv, IdleHoldsNothing, [LeadNext]_leadVars
             PROVE  IdleHoldsNothing'
  OBVIOUS
<1>a. /\ DOMAIN payload = Servers /\ DOMAIN whole = Servers /\ DOMAIN step = Servers
      /\ DOMAIN draft = Servers
  BY DEF LeadInv, RequestsOK
<1>b. ASSUME NEW s \in Servers, whole'[s] # <<>> \/ (payload'[s] = <<>> /\ draft'[s] = <<>>),
             step'[s] \in {"check", "insert"},
             \A t \in Servers \ {s} :
                 /\ step'[t] = step[t] /\ whole'[t] = whole[t]
                 /\ payload'[t] = payload[t] /\ draft'[t] = draft[t]
      PROVE  IdleHoldsNothing'
  <2>1. DOMAIN <<>> = {}
    OBVIOUS
  <2> QED BY <1>b, <2>1 DEF IdleHoldsNothing, Drafted
<1>1. ASSUME NEW s \in Servers, NEW p \in Payloads, Deliver(s, p)
      PROVE  IdleHoldsNothing'
  <2>1. /\ whole'[s] = p /\ payload'[s] = p /\ draft' = draft /\ step' = step
        /\ \A t \in Servers \ {s} : whole'[t] = whole[t] /\ payload'[t] = payload[t]
        /\ Drafted(s) = {}
    BY <1>a, <1>1 DEF Deliver, IdleHoldsNothing
  <2> QED BY <2>1 DEF IdleHoldsNothing, Drafted
<1>2. ASSUME NEW s \in Servers,
             \/ CheckEvent(s) \/ KeyLost(s)
             \/ \E end \in Ends, details \in SUBSET Fields : IngestOne(s, end, details)
      PROVE  IdleHoldsNothing'
  <2>1. whole' = whole /\ Handling(s)
    BY <1>2 DEF CheckEvent, KeyLost, IngestOne
  <2>2. whole[s] # <<>>
    BY <2>1 DEF IdleHoldsNothing, Handling
  <2>3. step'[s] \in {"check", "insert"}
    BY <1>a, <1>2 DEF CheckEvent, KeyLost, IngestOne, Advance
  <2>4. \A t \in Servers \ {s} :
           step'[t] = step[t] /\ payload'[t] = payload[t] /\ draft'[t] = draft[t]
    <3>1. CASE CheckEvent(s)
      BY <1>a, <3>1 DEF CheckEvent, Advance
    <3>2. CASE KeyLost(s)
      BY <1>a, <3>2 DEF KeyLost, Advance
    <3>3. ASSUME NEW end \in Ends, NEW details \in SUBSET Fields, IngestOne(s, end, details)
          PROVE  \A t \in Servers \ {s} :
                   step'[t] = step[t] /\ payload'[t] = payload[t] /\ draft'[t] = draft[t]
      BY <1>a, <3>3 DEF IngestOne, Advance
    <3> QED BY <1>2, <3>1, <3>2, <3>3
  <2> QED BY <1>b, <2>1, <2>2, <2>3, <2>4
<1>3. ASSUME NEW s \in Servers, Answer(s) \/ FailDelivery(s) \/ Deadlocked(s)
      PROVE  IdleHoldsNothing'
  <2>1. Release(s)
    BY <1>3 DEF Answer, FailDelivery, Deadlocked
  <2>2. payload'[s] = <<>> /\ draft'[s] = <<>> /\ step'[s] = "check"
    BY <1>a, <2>1 DEF Release
  <2>3. \A t \in Servers \ {s} :
           /\ step'[t] = step[t] /\ whole'[t] = whole[t]
           /\ payload'[t] = payload[t] /\ draft'[t] = draft[t]
    BY <1>a, <2>1 DEF Release
  <2> QED BY <1>b, <2>2, <2>3
<1>4. ASSUME UNCHANGED serving
      PROVE  IdleHoldsNothing'
  BY <1>4 DEF serving, IdleHoldsNothing, Drafted
<1>5. ASSUME NEW b \in Backfillers,
             \/ BackfillFails(b) \/ \E details \in SUBSET Fields : Backfill(b, details)
             \/ \E e \in LeadEvents : LoadLead(b, e)
      PROVE  UNCHANGED serving
  BY <1>5 DEF BackfillFails, Backfill, LoadLead
<1>6. ASSUME NEW e \in LeadEvents, Clear(e) \/ \E f \in Fields : Edit(e, f)
      PROVE  UNCHANGED serving
  BY <1>6 DEF Edit, Clear
<1> QED BY <1>1, <1>2, <1>3, <1>4, <1>5, <1>6 DEF LeadNext, leadVars

\* Among the finitely many requests of a set in which everyone waits for another
\* one of the set, some wait in a circle: take a smallest such set.
LEMMA WaitersMeet ==
    ASSUME LeadAssumption, NEW B \in SUBSET Servers, B # {},
           \A s \in B : \E t \in B : Waits(s, t)
    PROVE  \E s \in B : InCircle(s)
<1> DEFINE Shut(C)  == C # {} /\ \A s \in C : \E t \in C : Waits(s, t)
           Sizes    == {Cardinality(C) : C \in {D \in SUBSET B : Shut(D)}}
<1>1. \A C \in SUBSET B : IsFiniteSet(C) /\ Cardinality(C) \in Nat
  BY FS_Subset, FS_CardinalityType DEF LeadAssumption
<1>2. Sizes \in SUBSET Nat /\ Sizes # {}
  <2>1. Shut(B)
    OBVIOUS
  <2> QED BY <1>1, <2>1
<1>3. PICK n \in Sizes : \A k \in Sizes : n =< k
  <2> HIDE DEF Sizes
  <2>1. IsWellFoundedOn(OpToRel(<, Nat), Nat)
    BY NatLessThanWellFounded
  <2>2. PICK n \in Sizes : \A k \in Sizes : ~ (<<k, n>> \in OpToRel(<, Nat))
    BY <1>2, <2>1, WFMin
  <2>3. ASSUME NEW k \in Sizes PROVE n =< k
    <3>1. <<k, n>> \notin {pair \in Nat \X Nat : pair[1] < pair[2]}
      BY <2>2 DEF OpToRel
    <3> QED BY <1>2, <3>1
  <2> QED BY <2>3
<1>4. PICK C \in SUBSET B : Shut(C) /\ n = Cardinality(C)
  OBVIOUS
<1>5. ASSUME NEW t \in C, \A u \in C : ~ Waits(u, t)
      PROVE  FALSE
  <2>1. PICK v \in C : Waits(t, v)
    BY <1>4
  <2>2. v # t
    BY <2>1 DEF Waits
  <2>3. Shut(C \ {t})
    <3>1. \A s \in C \ {t} : \E u \in C \ {t} : Waits(s, u)
      BY <1>4, <1>5
    <3> QED BY <2>2, <3>1
  <2>4. Cardinality(C \ {t}) \in Sizes
    BY <2>3
  <2>5. Cardinality(C \ {t}) = Cardinality(C) - 1
    BY <1>1, FS_RemoveElement
  <2> HIDE DEF Sizes, Shut
  <2>6. n \in Nat /\ n =< n - 1
    BY <1>2, <1>3, <1>4, <2>4, <2>5
  <2> QED BY <2>6
<1>6. \A s \in C : InCircle(s)
  <2>1. \A t \in C : (\E u \in C : Waits(t, u)) /\ (\E u \in C : Waits(u, t))
    BY <1>4, <1>5
  <2> QED BY <2>1 DEF InCircle
<1> QED BY <1>4, <1>6

\* However many requests wait for each other's keys, and in whatever order they
\* have inserted them, there is always one that can go on or that PostgreSQL
\* fails: what EveryPayloadIsAnswered needs of the code, besides a server that
\* goes on and Meta's repetitions.
THEOREM NoRequestWaitsForever == LeadSpec => []EveryWaitEnds
<1>1. LeadAssumption
  BY LeadAssumption
<1>2. LeadInit => IdleHoldsNothing
  <2>1. DOMAIN <<>> = {}
    OBVIOUS
  <2> QED BY <2>1 DEF LeadInit, IdleHoldsNothing, Drafted
<1>3. LeadInv /\ IdleHoldsNothing => EveryWaitEnds
  <2> SUFFICES ASSUME LeadInv, IdleHoldsNothing, NEW W \in SUBSET Servers,
                      \E s \in W : whole[s] # <<>>,
                      \A s \in W, t \in Servers : Waits(s, t) => t \in W
               PROVE  \E s \in W : whole[s] # <<>> /\ (CanGoOn(s) \/ InCircle(s))
    BY DEF EveryWaitEnds
  <2> DEFINE B == {s \in W : whole[s] # <<>>}
  <2>1. ASSUME NEW s \in B, ~ CanGoOn(s)
        PROVE  \E t \in B : Waits(s, t)
    <3>1. Handling(s) /\ step[s] = "insert" /\ Contended(s, Current(s))
      BY <2>1 DEF CanGoOn, IdleHoldsNothing
    <3>2. PICK t \in Servers \ {s} : Current(s) \in Drafted(t)
      BY <3>1 DEF Contended
    <3>3. Waits(s, t)
      BY <3>1, <3>2 DEF Waits
    <3>4. whole[t] # <<>>
      BY <3>2 DEF IdleHoldsNothing
    <3> QED BY <3>2, <3>3, <3>4
  <2>2. CASE \E s \in B : CanGoOn(s)
    BY <2>2
  <2>3. CASE \A s \in B : ~ CanGoOn(s)
    <3>1. B # {} /\ B \in SUBSET Servers /\ \A s \in B : \E t \in B : Waits(s, t)
      BY <2>1, <2>3
    <3>2. \E s \in B : InCircle(s)
      <4> HIDE DEF B
      <4> QED BY <1>1, <3>1, WaitersMeet
    <3> QED BY <3>2
  <2> QED BY <2>2, <2>3
<1> QED BY <1>2, <1>3, IdleKept, LeadInvariance, PTL DEF LeadSpec
=============================================================================
