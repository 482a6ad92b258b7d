------------------------------ MODULE CampaignRun ------------------------------
(***************************************************************************)
(* One campaign generation run over the media it starts                    *)
(* (app/services/campaign_generation_service.py, the campaign handlers of  *)
(* app/jobs/handlers.py).                                                  *)
(*                                                                         *)
(* A worker generates the campaign and queues its media in one             *)
(* transaction; then jobs that queue each other, and whoever reads the     *)
(* run, count the media that have settled and promote the run once all     *)
(* have.  The stages before the media are one choice of outcome, and so is *)
(* which media get a prompt.  The sixty attempts of the counting job are   *)
(* about an hour of wall clock.                                            *)
(***************************************************************************)
EXTENDS MediaJobs

VARIABLES
    run,        \* its status
    stages,     \* kind of media: the status of its stage (FAILED also stands for
                \* SKIPPED and NOT_CONFIGURED, which are not counted either)
    review,     \* the campaign's review_status
    recount,    \* the last one of its campaign.reconcile background jobs
    watch,      \* session: the counts it has taken
    hourSpent,  \* the sixty attempts are used up
    overlapped  \* history: two sessions were counting at once

campaignVars == <<run, stages, review, recount, watch, hourSpent, overlapped>>
runVars == <<mediaVars, campaignVars>>

MediaKinds == {"images", "videos"}
OfKind(k) == IF k = "videos" THEN Videos ELSE Media \ Videos

NoWatch == [by |-> "none"]
Free(s) == work[s] = NoWork /\ watch[s] = NoWatch

RunInit ==
    /\ MediaInit
    /\ run = "QUEUED"
    /\ stages = [k \in MediaKinds |-> "PENDING"]
    /\ review = "none"
    /\ recount = "none"
    /\ watch = [s \in MediaSessions |-> NoWatch]
    /\ hourSpent = FALSE /\ overlapped = FALSE

\* handle_generate_campaign: execute, a reconciliation and schedule_reconcile.
Execute(s, ms) ==
    /\ run = "QUEUED" /\ Free(s)
    /\ Enqueue(ms)
    /\ stages' = [k \in MediaKinds |-> IF OfKind(k) \cap ms # {} THEN "RUNNING" ELSE "FAILED"]
    /\ IF ms = {}
       THEN run' = "READY" /\ review' = "READY" /\ recount' = "none"
       ELSE run' = "GENERATING" /\ review' = "GENERATING" /\ recount' = "queued"
    /\ UNCHANGED <<named, assets, raises, polling, render, overdue, work, mediaAsks,
                   mediaFaults, crossed, orphaned, regenerated, withdrawn, watch, hourSpent, overlapped>>

\* _fail_run, after some of the media may have been queued.
ExecuteFails(s, ms) ==
    /\ run = "QUEUED" /\ Free(s)
    /\ Enqueue(ms)
    /\ run' = "FAILED" /\ review' = "DRAFT"
    /\ stages' = [k \in MediaKinds |-> IF OfKind(k) \cap ms # {} THEN "FAILED" ELSE "PENDING"]
    /\ UNCHANGED <<named, assets, raises, polling, render, overdue, work, mediaAsks,
                   mediaFaults, crossed, orphaned, regenerated, withdrawn, recount, watch, hourSpent, overlapped>>

-----------------------------------------------------------------------------
(* Reconciliation.                                                         *)

\* Mutant: a medium counts from its submission on.
Outstanding_Submitted(k) == {m \in OfKind(k) : media[m] \in InProgress}

Outstanding(k) == {m \in OfKind(k) : media[m] \notin Settled \cup {"absent"}}

\* A stage that has failed is not counted again.
Counted(k) == stages[k] # "FAILED"

StageOf(k) ==
    IF ~ Counted(k) THEN stages[k]
    ELSE IF Outstanding(k) # {} THEN "RUNNING"
    ELSE IF \E m \in OfKind(k) : media[m] = "completed" THEN "COMPLETED"
    ELSE "FAILED"

\* reconcile, up to its UPDATE: by the queued job, or for a reader of the run.
\* A run that is terminal is left alone, and so is its job.
Count(s, by) ==
    /\ run = "GENERATING" /\ Free(s)
    /\ by = "job" => recount = "queued" /\ \A t \in MediaSessions : watch[t].by # "job"
    /\ LET over == \A k \in MediaKinds : Counted(k) => Outstanding(k) = {}
       IN  watch' = [watch EXCEPT ![s] =
               [by |-> by, counts |-> [k \in MediaKinds |-> StageOf(k)],
                ready |-> over, promote |-> over /\ review = "GENERATING"]]
    /\ overlapped' = (overlapped \/ \E t \in MediaSessions : watch[t] # NoWatch)
    /\ mediaAsks' = IF by = "view" THEN mediaAsks + 1 ELSE mediaAsks
    /\ mediaAsks' <= MaxMediaAsks
    /\ UNCHANGED <<mediaRows, render, overdue, work, mediaFaults, crossed, orphaned, regenerated,
                   withdrawn, run, stages, review, recount, hourSpent>>

\* schedule_reconcile.
NextAttempt(ready) == IF ready THEN "done" ELSE IF hourSpent THEN "over" ELSE "queued"

\* The UPDATE of the columns that changed, and the commit.
CommitCount(s) ==
    LET w == watch[s]
    IN  /\ w # NoWatch
        /\ stages' = w.counts
        /\ run' = IF w.ready THEN "READY" ELSE run
        /\ review' = IF w.promote THEN "READY" ELSE review
        /\ recount' = IF w.by = "job" THEN NextAttempt(w.ready) ELSE recount
        /\ watch' = [watch EXCEPT ![s] = NoWatch]
        /\ UNCHANGED <<mediaVars, hourSpent, overlapped>>

\* The session is rolled back; or the job raises, in its only attempt.
LoseCount(s, raised) ==
    /\ watch[s] # NoWatch /\ mediaFaults < MaxMediaFaults
    /\ mediaFaults' = mediaFaults + 1
    /\ watch' = [watch EXCEPT ![s] = NoWatch]
    /\ raised => watch[s].by = "job"
    /\ recount' = IF raised THEN "failed" ELSE recount
    /\ UNCHANGED <<mediaRows, render, overdue, work, mediaAsks, crossed, orphaned, regenerated,
                   withdrawn, run, stages, review, hourSpent, overlapped>>

HourPasses ==
    /\ run = "GENERATING" /\ ~ hourSpent /\ hourSpent' = TRUE
    /\ UNCHANGED <<mediaVars, run, stages, review, recount, watch, overlapped>>

\* A session that is counting does nothing else.
MediaStep ==
    /\ MediaNext
    /\ \A s \in MediaSessions : work'[s] # work[s] => watch[s] = NoWatch
    /\ UNCHANGED campaignVars

RunNext ==
    \/ MediaStep
    \/ HourPasses
    \/ \E s \in MediaWorkers :
         \/ \E ms \in SUBSET Media : Execute(s, ms) \/ ExecuteFails(s, ms)
         \/ Count(s, "job")
    \/ \E s \in MediaUsers : Count(s, "view")
    \/ \E s \in MediaSessions : CommitCount(s) \/ \E raised \in BOOLEAN : LoseCount(s, raised)

\* What the fairness is about: a worker that takes a job, a session that goes
\* on, a deadline that passes.
TakesMedia ==
    /\ \E s \in MediaWorkers :
         (\E m \in Media : TakeGeneration(s, m)) \/ (\E m \in Videos : TakePoll(s, m))
    /\ MediaStep
Recounts    == \E s \in MediaWorkers : Count(s, "job")
GoesOn(s)   == (Proceed(s) /\ MediaStep) \/ CommitCount(s)
TimesOut(m) == Deadline(m) /\ MediaStep

\* Worker.run_forever takes every due job (that the media jobs are taken, in any
\* order, is enough here: polls end with their deadline, and the counting job is
\* left alone with the worker then) and goes on with the ones it has taken;
\* requests end; time passes.
RunFairness ==
    /\ SF_runVars(TakesMedia) /\ WF_runVars(Recounts)
    /\ \A s \in MediaSessions : WF_runVars(GoesOn(s))
    /\ \A m \in Videos : WF_runVars(TimesOut(m))

RunSpec == RunInit /\ [][RunNext]_runVars /\ RunFairness

-----------------------------------------------------------------------------
StageStates == {"PENDING", "RUNNING", "COMPLETED", "FAILED"}

RunTypeOK ==
    /\ run \in {"QUEUED", "GENERATING", "READY", "FAILED"}
    /\ stages \in [MediaKinds -> StageStates]
    /\ review \in {"none", "GENERATING", "READY", "DRAFT"}
    /\ recount \in MediaJobStates \cup {"over"}
    /\ \A s \in MediaSessions : watch[s] = NoWatch \/
         watch[s] \in [by : {"job", "view"}, counts : [MediaKinds -> StageStates],
                       ready : BOOLEAN, promote : BOOLEAN]
    /\ hourSpent \in BOOLEAN /\ overlapped \in BOOLEAN

\* "A run reaches READY_FOR_REVIEW when ... every media job it started has
\* reached a terminal state": only a cancelled medium that is generated after
\* all, or one that two sessions had loaded, is in progress again later; and no
\* stage of such a run is left running, unless two sessions counted at once.
ReadyMeansSettled ==
    run = "READY" =>
        /\ \A m \in Media : media[m] \in Settled \cup {"absent"} \cup
                            (IF m \in regenerated \cup crossed THEN InProgress ELSE {})
        /\ overlapped \/ \A k \in MediaKinds : stages[k] # "RUNNING"

\* What leaves a run waiting for a reader, or for good: the counting job that is
\* not queued again, a video that nobody polls any more, and a medium whose
\* generation job has failed without settling it.
Stuck ==
    \/ recount \in {"failed", "over"}
    \/ \E m \in named : media[m] \in InProgress /\ polling[m] \in {"done", "failed"}
    \/ \E m \in Media : media[m] \in InProgress /\ generation[m] = "failed"

\* "so a run reaches READY_FOR_REVIEW even if nobody is polling it": a run that
\* is generating becomes ready, or is stuck for one of the reasons above.
RunsFinish == run = "GENERATING" ~> (run = "READY" \/ Stuck)
=============================================================================
