----------------------------- MODULE LeadIngest -----------------------------
(***************************************************************************)
(* Meta lead ads: the ingestion of leadgen webhooks                        *)
(* (app/services/lead_ingest_service.py, app/api/v1/webhooks.py), and the  *)
(* retrieval of contact details that were not available then               *)
(* (app/services/lead_backfill_service.py), with Meta, who repeats a       *)
(* payload until it is answered with success, and people who edit leads.   *)
(*                                                                         *)
(* A payload is a sequence of events, its handling one transaction; the    *)
(* unique key of webhook_events makes an INSERT wait for another one.      *)
(* acked, raced and quiet are history.                                     *)
(***************************************************************************)
EXTENDS Integers, Sequences, FiniteSets

CONSTANTS
    Servers,        \* requests that can be in flight
    Payloads,       \* what Meta sends: sequences of events
    Backfillers,    \* workers and requests that retrieve contact details
    MaxDuplicates,  \* bound: deliveries of a payload that is being handled
    MaxLeadFaults,  \* bound: persistence errors and crashes
    MaxEdits        \* bound: edits by people

LeadEvents == UNION {{p[i] : i \in DOMAIN p} : p \in Payloads}
Ends       == {"processed", "unroutable", "ambiguous"}
Fields     == {"name", "email"}
Sources    == {"none", "meta", "human", "cleared"}  \* who filled in or cleared a field
Blank      == {"none", "cleared"}

\* A lead with nothing but its identifiers: placeholder name, no address.
Unknown    == [f \in Fields |-> "none"]

ASSUME LeadAssumption ==
    /\ IsFiniteSet(Servers)
    /\ \A p \in Payloads : p \in Seq(LeadEvents)
    /\ "none" \notin LeadEvents
    /\ MaxDuplicates \in Nat /\ MaxLeadFaults \in Nat /\ MaxEdits \in Nat

VARIABLES
    hook,       \* event: its committed webhook_events status, or none
    leads,      \* event: committed leads with its external_id
    contact,    \* event: its lead's contact details
    enrich,     \* event: its lead's enrichment_status, COMPLETE or not
    payload,    \* server: the events of the payload still to be handled
    whole,      \* server: the payload it answers, <<>> when idle
    step,       \* server: check or insert
    draft,      \* server: event -> status, the rows of its open transaction
    filled,     \* server: event -> the contact details it ingested
    tried,      \* payloads delivered at least once
    duplicates, \* deliveries of payloads already being handled
    answered,   \* payloads answered with success: Meta stops repeating them
    held,       \* backfiller: the event whose lead it has loaded, or none
    saw,        \* backfiller: its lead's contact details as loaded
    leadFaults, \* persistence errors and crashes so far
    edits,      \* edits so far
    raced,      \* events discarded with a transaction that lost a key race
    quiet       \* fields filled in by a person while nobody was retrieving that
                \* lead, and not cleared since

hooks    == <<hook, leads>>
serving  == <<payload, whole, step, draft, filled>>
meta     == <<tried, duplicates, answered>>
filling  == <<held, saw>>
leadVars == <<hooks, contact, enrich, serving, meta, filling,
              leadFaults, edits, raced, quiet>>

Drafted(s)  == DOMAIN draft[s]
Current(s)  == Head(payload[s])
Handling(s) == payload[s] # <<>>

LeadInit ==
    /\ hook = [e \in LeadEvents |-> "none"]
    /\ leads = [e \in LeadEvents |-> 0]
    /\ contact = [e \in LeadEvents |-> Unknown]
    /\ enrich = [e \in LeadEvents |-> "none"]
    /\ payload = [s \in Servers |-> <<>>]
    /\ whole = [s \in Servers |-> <<>>]
    /\ step = [s \in Servers |-> "check"]
    /\ draft = [s \in Servers |-> <<>>]
    /\ filled = [s \in Servers |-> <<>>]
    /\ tried = {} /\ duplicates = 0 /\ answered = {}
    /\ held = [b \in Backfillers |-> "none"]
    /\ saw = [b \in Backfillers |-> Unknown]
    /\ leadFaults = 0 /\ edits = 0
    /\ raced = {} /\ quiet = {}

-----------------------------------------------------------------------------
(* POST /webhooks/meta.                                                    *)

\* Meta delivers a payload, and again while it has no success for it.
Deliver(s, p) ==
    /\ whole[s] = <<>>
    /\ p \notin answered
    /\ IF \E t \in Servers : whole[t] = p
       THEN duplicates < MaxDuplicates /\ duplicates' = duplicates + 1
       ELSE duplicates' = duplicates
    /\ tried' = tried \cup {p}
    /\ payload' = [payload EXCEPT ![s] = p]
    /\ whole' = [whole EXCEPT ![s] = p]
    /\ UNCHANGED <<hooks, contact, enrich, step, draft, filled, answered,
                   filling, leadFaults, edits, raced, quiet>>

Advance(s) ==
    /\ payload' = [payload EXCEPT ![s] = Tail(@)]
    /\ step' = [step EXCEPT ![s] = "check"]

Processed(s, e) == hook[e] # "none" \/ e \in Drafted(s)

\* _already_processed.
CheckEvent(s) ==
    /\ Handling(s) /\ step[s] = "check"
    /\ IF Processed(s, Current(s))
       THEN Advance(s)
       ELSE /\ step' = [step EXCEPT ![s] = "insert"]
            /\ payload' = payload
    /\ UNCHANGED <<hooks, contact, enrich, whole, draft, filled, meta, filling,
                   leadFaults, edits, raced, quiet>>

\* Mutant: no unique key on (provider, event_id).
Contended_Never(s, e) == FALSE

Contended(s, e) == \E t \in Servers \ {s} : e \in Drafted(t)

Put(f, e, v) == [x \in DOMAIN f \cup {e} |-> IF x = e THEN v ELSE f[x]]

\* The rows of one event: its webhook event and, if it can be routed, a lead
\* with the details that the Graph API gave.
IngestOne(s, end, details) ==
    LET e == Current(s) IN
    /\ Handling(s) /\ step[s] = "insert"
    /\ end # "processed" => details = {}
    /\ ~ Contended(s, e) /\ hook[e] = "none"
    /\ draft' = [draft EXCEPT ![s] = Put(@, e, end)]
    /\ filled' = [filled EXCEPT ![s] =
                    Put(@, e, [f \in Fields |-> IF f \in details THEN "meta" ELSE "none"])]
    /\ Advance(s)
    /\ UNCHANGED <<hooks, contact, enrich, whole, meta, filling, leadFaults,
                   edits, raced, quiet>>

\* Mutant: the session forgets the rows but not the details it fetched.
KeyLost_KeepsFilled(s) ==
    /\ Handling(s) /\ step[s] = "insert"
    /\ hook[Current(s)] # "none"
    /\ raced' = raced \cup Drafted(s)
    /\ draft' = [draft EXCEPT ![s] = <<>>]
    /\ Advance(s)
    /\ UNCHANGED <<hooks, contact, enrich, whole, filled, meta, filling,
                   leadFaults, edits, quiet>>

\* Mutant: the event whose key was taken is tried again.
KeyLost_Retried(s) ==
    /\ Handling(s) /\ step[s] = "insert"
    /\ hook[Current(s)] # "none"
    /\ raced' = raced \cup Drafted(s)
    /\ draft' = [draft EXCEPT ![s] = <<>>]
    /\ filled' = [filled EXCEPT ![s] = <<>>]
    /\ UNCHANGED <<hooks, contact, enrich, payload, whole, step, meta, filling,
                   leadFaults, edits, quiet>>

\* IntegrityError: the rollback takes the payload's earlier events with it.
KeyLost(s) ==
    /\ Handling(s) /\ step[s] = "insert"
    /\ hook[Current(s)] # "none"
    /\ raced' = raced \cup Drafted(s)
    /\ draft' = [draft EXCEPT ![s] = <<>>]
    /\ filled' = [filled EXCEPT ![s] = <<>>]
    /\ Advance(s)
    /\ UNCHANGED <<hooks, contact, enrich, whole, meta, filling, leadFaults,
                   edits, quiet>>

Release(s) ==
    /\ payload' = [payload EXCEPT ![s] = <<>>]
    /\ whole' = [whole EXCEPT ![s] = <<>>]
    /\ step' = [step EXCEPT ![s] = "check"]
    /\ draft' = [draft EXCEPT ![s] = <<>>]
    /\ filled' = [filled EXCEPT ![s] = <<>>]

Created(s) == {e \in Drafted(s) : draft[s][e] = "processed"}

\* has_contact_details, and not is_placeholder_name.
Complete(c) == \A f \in Fields : c[f] \notin Blank

\* Mutant: what is known is taken for enough.
Mark_Any(c) == IF c # Unknown THEN "COMPLETE" ELSE "INCOMPLETE"

Mark(c) == IF Complete(c) THEN "COMPLETE" ELSE "INCOMPLETE"

\* The commit at the end of the payload, and the 200.
Answer(s) ==
    /\ whole[s] # <<>> /\ ~ Handling(s)
    /\ hook' = [e \in LeadEvents |-> IF e \in Drafted(s) THEN draft[s][e] ELSE hook[e]]
    /\ leads' = [e \in LeadEvents |-> IF e \in Created(s) THEN leads[e] + 1 ELSE leads[e]]
    /\ contact' = [e \in LeadEvents |-> IF e \in Created(s) THEN filled[s][e] ELSE contact[e]]
    /\ enrich' = [e \in LeadEvents |->
                    IF e \in Created(s) THEN Mark(filled[s][e]) ELSE enrich[e]]
    /\ answered' = answered \cup {whole[s]}
    /\ Release(s)
    /\ UNCHANGED <<tried, duplicates, filling, leadFaults, edits, raced, quiet>>

\* Mutant: a persistence error is answered like a success.
FailDelivery_Answered(s) ==
    /\ whole[s] # <<>> /\ leadFaults < MaxLeadFaults
    /\ leadFaults' = leadFaults + 1
    /\ answered' = answered \cup {whole[s]}
    /\ Release(s)
    /\ UNCHANGED <<hooks, contact, enrich, tried, duplicates, filling, edits, raced, quiet>>

\* A persistence error (rollback and 500) or the death of the process.
FailDelivery(s) ==
    /\ whole[s] # <<>> /\ leadFaults < MaxLeadFaults
    /\ leadFaults' = leadFaults + 1
    /\ Release(s)
    /\ UNCHANGED <<hooks, contact, enrich, meta, filling, edits, raced, quiet>>

\* The INSERT of s waits for a key that t has inserted.
Waits(s, t) ==
    /\ s # t /\ Handling(s) /\ step[s] = "insert"
    /\ Current(s) \in Drafted(t)

InCircle(s) ==
    \E ring \in SUBSET Servers :
        /\ s \in ring
        /\ \A t \in ring : (\E u \in ring : Waits(t, u)) /\ (\E u \in ring : Waits(u, t))

\* Payloads that wait for each other's keys in a circle: PostgreSQL fails one of
\* them, which is answered with a 500.
Deadlocked(s) ==
    /\ InCircle(s)
    /\ Release(s)
    /\ UNCHANGED <<hooks, contact, enrich, meta, filling, leadFaults, edits,
                   raced, quiet>>

-----------------------------------------------------------------------------
(* Contact details.                                                        *)

NeedsBackfill(e) == leads[e] > 0 /\ ~ Complete(contact[e])

\* backfill_lead_contact loads the lead; a complete one is skipped.
LoadLead(b, e) ==
    /\ held[b] = "none" /\ NeedsBackfill(e)
    /\ held' = [held EXCEPT ![b] = e]
    /\ saw' = [saw EXCEPT ![b] = contact[e]]
    /\ UNCHANGED <<hooks, contact, enrich, serving, meta, leadFaults,
                   edits, raced, quiet>>

LetGo(b) ==
    /\ held' = [held EXCEPT ![b] = "none"]
    /\ saw' = [saw EXCEPT ![b] = Unknown]

\* Mutant: whatever Meta returns is copied.
Filled_Always(old, details) ==
    [f \in Fields |-> IF f \in details THEN "meta" ELSE old[f]]

\* _apply fills only what was empty in the lead as it was loaded.
Filled(old, details) ==
    [f \in Fields |-> IF f \in details /\ old[f] \in Blank THEN "meta" ELSE old[f]]

\* The Graph API answered: the UPDATE names only the columns that changed, the
\* mark is what the loaded object makes of it.
Backfill(b, details) ==
    LET e   == held[b]
        new == Filled(saw[b], details)
    IN
    /\ e # "none"
    /\ contact' = [contact EXCEPT ![e] =
                     [f \in Fields |-> IF new[f] # saw[b][f] THEN new[f] ELSE @[f]]]
    /\ enrich' = [enrich EXCEPT ![e] = Mark(new)]
    /\ LetGo(b)
    /\ UNCHANGED <<hooks, serving, meta, leadFaults, edits, raced, quiet>>

\* No token, or an error: only enrichment_status is written.
BackfillFails(b) ==
    /\ held[b] # "none"
    /\ enrich' = [enrich EXCEPT ![held[b]] = "INCOMPLETE"]
    /\ LetGo(b)
    /\ UNCHANGED <<hooks, contact, serving, meta, leadFaults, edits, raced, quiet>>

\* PATCH /leads: a person fills in or corrects a field.
Edit(e, f) ==
    /\ leads[e] > 0 /\ edits < MaxEdits
    /\ edits' = edits + 1
    /\ contact' = [contact EXCEPT ![e][f] = "human"]
    /\ quiet' = IF \E b \in Backfillers : held[b] = e THEN quiet ELSE quiet \cup {<<e, f>>}
    /\ UNCHANGED <<hooks, enrich, serving, meta, filling, leadFaults, raced>>

\* PATCH /leads with a null email and phone: a person removes the details,
\* and enrichment_status stays.  A name cannot be null.
Clear(e) ==
    /\ leads[e] > 0 /\ edits < MaxEdits
    /\ contact[e]["email"] \notin Blank
    /\ edits' = edits + 1
    /\ contact' = [contact EXCEPT ![e]["email"] = "cleared"]
    /\ quiet' = quiet \ {<<e, "email">>}
    /\ UNCHANGED <<hooks, enrich, serving, meta, filling, leadFaults, raced>>

LeadNext ==
    \/ \E s \in Servers :
         \/ \E p \in Payloads : Deliver(s, p)
         \/ CheckEvent(s) \/ KeyLost(s) \/ Answer(s)
         \/ FailDelivery(s) \/ Deadlocked(s)
         \/ \E end \in Ends, details \in SUBSET Fields : IngestOne(s, end, details)
    \/ \E b \in Backfillers :
         \/ BackfillFails(b)
         \/ \E details \in SUBSET Fields : Backfill(b, details)
         \/ \E e \in LeadEvents : LoadLead(b, e)
    \/ \E e \in LeadEvents : Clear(e) \/ \E f \in Fields : Edit(e, f)

\* A request that is being handled goes on, a waiting INSERT is woken when its
\* key is free, and Meta repeats what it has no success for.
LeadFairness ==
    /\ \A s \in Servers :
         /\ WF_leadVars(CheckEvent(s) \/ KeyLost(s) \/ Answer(s) \/ Deadlocked(s))
         /\ \A e \in LeadEvents :
              SF_leadVars(\E end \in Ends, details \in SUBSET Fields :
                            Handling(s) /\ Current(s) = e /\ IngestOne(s, end, details))
    /\ \A p \in Payloads : WF_leadVars(p \in tried /\ \E s \in Servers : Deliver(s, p))

LeadSpec == LeadInit /\ [][LeadNext]_leadVars /\ LeadFairness

-----------------------------------------------------------------------------
LeadTypeOK ==
    /\ hook \in [LeadEvents -> Ends \cup {"none"}]
    /\ leads \in [LeadEvents -> Nat]
    /\ contact \in [LeadEvents -> [Fields -> Sources]]
    /\ enrich \in [LeadEvents -> {"none", "COMPLETE", "INCOMPLETE"}]
    /\ \A s \in Servers : Drafted(s) \subseteq LeadEvents /\ DOMAIN filled[s] = Drafted(s)
    /\ answered \subseteq Payloads /\ raced \subseteq LeadEvents

\* webhook_events: one lead per leadgen id, however often and in however many
\* payloads at once Meta delivers it; and no event is both on record as
\* processed and without its lead.
OneLeadPerEvent ==
    \A e \in LeadEvents : leads[e] = IF hook[e] = "processed" THEN 1 ELSE 0

\* "The endpoint returns success only after the transaction commits": an event
\* of a payload answered with success is on record, unless its row was in a
\* transaction that lost a key race over a later event.
LossNeedsAKeyRace ==
    \A p \in answered : \A i \in DOMAIN p : hook[p[i]] # "none" \/ p[i] \in raced

\* The same without the exception.
AnsweredIsOnRecord ==
    \A p \in answered : \A i \in DOMAIN p : hook[p[i]] # "none"

\* A retrieval never replaces what a person entered while nobody was retrieving.
QuietEditsSurvive == \A q \in quiet : contact[q[1]][q[2]] = "human"

\* enrichment_status COMPLETE is never a retrieval's overstatement, whatever
\* people edit between its load and its write: whoever reads it can contact the
\* lead by name, unless a person has removed the details since.
CompleteIsComplete ==
    \A e \in LeadEvents : enrich[e] = "COMPLETE" => \A f \in Fields : contact[e][f] # "none"

\* Every payload that Meta has sent is answered with success in the end, in
\* whatever order payloads wait for each other's keys.
EveryPayloadIsAnswered == \A p \in Payloads : (p \in tried) ~> (p \in answered)
=============================================================================
