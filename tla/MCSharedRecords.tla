--------------------------- MODULE MCSharedRecords ---------------------------
\* Components whose safety is checked, side by side: requests and workers that
\* read and write records in transactions.  They share nothing here, so a
\* behaviour is one of a single component, and the others rest in an initial
\* state.
EXTENDS RefreshTokens, UsageMetering, LeadIngest, ClosedLoop, CampaignRun, RateLimits, TLC

VARIABLE focus

recordVars == <<focus, tokenVars, usageVars, leadVars, loopVars, runVars, limitVars>>

\* A payload of two events, and one that holds the second of them.
Batches == {<<"e1", "e2">>, <<"e2">>}

\* A pause and a resume of one campaign, an increase of another one.
P(k, c, r) == [kind |-> k, campaign |-> c, risk |-> r]
Proposals ==
    [r \in {1, 2, 3} |-> IF r = 1 THEN P("pause", "c1", Risks.high)
                         ELSE IF r = 2 THEN P("resume", "c1", Risks.medium)
                         ELSE P("increase", "c2", Risks.low)]

Unattended == [mode |-> "autonomous", automation |-> TRUE, financial |-> FALSE]
Attended   == [mode |-> "assisted", automation |-> TRUE, financial |-> TRUE]
Settings   == {Unattended, Attended}

\* The processes are the same ones in every component.
Symmetry == Permutations(TokenCallers)

\* A component rests with its parameters fixed; a subscription that is past due
\* is admitted and metered like one on trial.
RecordInit ==
    /\ TokenInit /\ UsageInit /\ LeadInit /\ LoopInit /\ RunInit /\ LimitInit
    /\ focus \in {"tokens", "usage", "leads", "loop", "campaign", "limits"}
    /\ focus # "usage" => limit = Max(PlanLimits) /\ status = "active"
    /\ focus # "loop" => autonomy = Attended
    /\ status # "past_due"
    /\ focus # "limits" => degrade

RecordNext ==
    /\ UNCHANGED focus
    /\ \/ focus = "tokens" /\ TokenNext
          /\ UNCHANGED <<usageVars, leadVars, loopVars, runVars, limitVars>>
       \/ focus = "usage" /\ UsageNext
          /\ UNCHANGED <<tokenVars, leadVars, loopVars, runVars, limitVars>>
       \/ focus = "leads" /\ LeadNext
          /\ UNCHANGED <<tokenVars, usageVars, loopVars, runVars, limitVars>>
       \/ focus = "loop" /\ LoopNext
          /\ UNCHANGED <<tokenVars, usageVars, leadVars, runVars, limitVars>>
       \/ focus = "campaign" /\ RunNext
          /\ UNCHANGED <<tokenVars, usageVars, leadVars, loopVars, limitVars>>
       \/ focus = "limits" /\ LimitNext
          /\ UNCHANGED <<tokenVars, usageVars, leadVars, loopVars, runVars>>

RecordSpec == RecordInit /\ [][RecordNext]_recordVars

TypeOK ==
    /\ TokenTypeOK /\ UsageTypeOK /\ LeadTypeOK /\ LoopTypeOK
    /\ MediaTypeOK /\ RunTypeOK /\ LimitTypeOK
=============================================================================
