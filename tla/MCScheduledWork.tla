--------------------------- MODULE MCScheduledWork ---------------------------
\* The components whose liveness is checked, side by side: they share nothing
\* but the kind of session they run in, so a behaviour is one of a single
\* component, and the others rest in an initial state.
EXTENDS LeadIngest, AutopilotScheduler, CampaignRun

VARIABLE focus

workVars == <<focus, leadVars, schedVars, runVars>>

\* Payloads that hold the same events in opposite orders, or only one of them.
Crossed == {<<"e1", "e2">>, <<"e2", "e1">>, <<"e2">>}

\* Two clients of one organisation.
OneOrg == [c \in {1, 2} |-> 1]

WorkInit ==
    /\ LeadInit /\ SchedInit /\ RunInit
    /\ focus \in {"leads", "autopilot", "campaign"}
    /\ enabled = IF focus = "autopilot" THEN Clients ELSE {}

WorkNext ==
    /\ UNCHANGED focus
    /\ \/ focus = "leads" /\ LeadNext /\ UNCHANGED <<schedVars, runVars>>
       \/ focus = "autopilot" /\ SchedNext /\ UNCHANGED <<leadVars, runVars>>
       \/ focus = "campaign" /\ RunNext /\ UNCHANGED <<leadVars, schedVars>>

\* SchedFairness and RunFairness, each for the behaviours that are about its
\* component; without a delivery LeadFairness asks for nothing.
WorkFairness ==
    /\ LeadFairness
    /\ WF_schedVars(focus = "autopilot" /\ NextWindow)
    /\ \A w \in TickWorkers : WF_schedVars(focus = "autopilot" /\ WorkerMoves(w))
    /\ SF_runVars(focus = "campaign" /\ TakesMedia) /\ WF_runVars(focus = "campaign" /\ Recounts)
    /\ \A s \in MediaSessions : WF_runVars(focus = "campaign" /\ GoesOn(s))
    /\ \A m \in Videos : WF_runVars(focus = "campaign" /\ TimesOut(m))

WorkSpec == WorkInit /\ [][WorkNext]_workVars /\ WorkFairness

TypeOK == LeadTypeOK /\ SchedTypeOK /\ MediaTypeOK /\ RunTypeOK
=============================================================================
