------------------------------- MODULE MediaJobs -------------------------------
(***************************************************************************)
(* Images and videos that a model provider renders                         *)
(* (app/services/media_generation_service.py, the media handlers of        *)
(* app/jobs/handlers.py).                                                  *)
(*                                                                         *)
(* A worker renders an image within one job.  A video is submitted by one  *)
(* job and polled by others, which queue each other until the video has    *)
(* settled or its deadline has passed; a person who looks at the video     *)
(* polls too.  A session loads the row, its first UPDATE takes the row     *)
(* lock, and what it commits are the columns it has changed since it       *)
(* loaded them.  The jobs that one worker cycle handles in one transaction *)
(* are sessions of their own here.  Prompts, bytes, storage keys and error *)
(* texts are left out; that stored bytes can be lost later is not modelled.*)
(*                                                                         *)
(* crossed, orphaned, regenerated and withdrawn are history.               *)
(***************************************************************************)
EXTENDS Integers, FiniteSets

CONSTANTS
    MediaWorkers,   \* worker cycles
    MediaUsers,     \* HTTP requests in flight
    Media,          \* media jobs
    Videos,         \* those that render a video
    GenerationAttempts, \* max_attempts of media.generate_*, three
    MaxMediaAsks,   \* bound: requests ever sent
    MaxMediaFaults  \* bound: rollbacks and handlers that raise

ASSUME MediaAssumption ==
    /\ Videos \subseteq Media
    /\ GenerationAttempts \in Nat \ {0}
    /\ MaxMediaAsks \in Nat /\ MaxMediaFaults \in Nat

MediaSessions == MediaWorkers \cup MediaUsers

VARIABLES
    media,      \* media job: its committed status
    named,      \* videos that were not finished when they got their provider_job_id
    assets,     \* media job: its creative assets, each of them billed
    generation, \* media job: its media.generate_* background job
    raises,     \* media job: attempts of that job that have raised
    polling,    \* video: the last one of its media.poll_video background jobs
    render,     \* video: what has become of it at the provider
    overdue,    \* videos past the deadline of their polls
    work,       \* session: the row it has loaded, and how it leaves it
    mediaAsks,  \* requests sent so far
    mediaFaults,
    crossed,    \* media that two sessions had loaded at once
    orphaned,   \* videos with a rendering the row did not know when it was submitted
    regenerated, \* media generated after their cancellation
    withdrawn   \* media cancelled once they were submitted, with nothing else going on

mediaVars == <<media, named, assets, generation, raises, polling, render, overdue, work,
               mediaAsks, mediaFaults, crossed, orphaned, regenerated, withdrawn>>

mediaRows == <<media, named, assets, generation, raises, polling>>

InProgress == {"submitted", "processing", "generating"}
Settled    == {"completed", "failed", "cancelled"}
MediaStates == {"absent", "queued"} \cup InProgress \cup Settled

\* A background job of a media job; polling may have been given up for good.
MediaJobStates == {"none", "queued", "done", "failed"}

NoWork == [op |-> "none"]

\* What a session holds: the operation, its row, the status it loaded, the
\* status it has given it (none before its first UPDATE), and the state its
\* background job ends in.
Working(op, m) == [op |-> op, on |-> m, seen |-> media[m], left |-> "none", job |-> "none"]

At(s, op, m) == work[s].op = op /\ work[s].on = m
On(s, m)     == work[s].op # "none" /\ work[s].on = m
Alone(s, m)  == \A t \in MediaSessions \ {s} : ~ On(t, m)
RowLocked(s, m) == \E t \in MediaSessions \ {s} : On(t, m) /\ work[t].left # "none"

MediaInit ==
    /\ media = [m \in Media |-> "absent"]
    /\ named = {}
    /\ assets = [m \in Media |-> 0]
    /\ generation = [m \in Media |-> "none"]
    /\ raises = [m \in Media |-> 0]
    /\ polling = [m \in Videos |-> "none"]
    /\ render = [m \in Videos |-> "none"]
    /\ overdue = {}
    /\ work = [s \in MediaSessions |-> NoWork]
    /\ mediaAsks = 0 /\ mediaFaults = 0
    /\ crossed = {} /\ orphaned = {} /\ regenerated = {} /\ withdrawn = {}

-----------------------------------------------------------------------------
\* enqueue_images and enqueue_video: new rows, and a job for each of them.
Enqueue(ms) ==
    /\ media' = [m \in Media |-> IF m \in ms THEN "queued" ELSE media[m]]
    /\ generation' = [m \in Media |-> IF m \in ms THEN "queued" ELSE generation[m]]

LoadMedia(s, m, w) ==
    /\ work[s] = NoWork
    /\ work' = [work EXCEPT ![s] = w]
    /\ crossed' = IF Alone(s, m) THEN crossed ELSE crossed \cup {m}

\* A request.
Ask(s, op, m) ==
    /\ mediaAsks < MaxMediaAsks /\ mediaAsks' = mediaAsks + 1
    /\ LoadMedia(s, m, Working(op, m))

\* handle_generate_image, handle_generate_video: whatever the status is, but for
\* completed; a cancelled medium is generated like a queued one.
TakeGeneration(s, m) ==
    /\ generation[m] = "queued" /\ media[m] # "completed"
    /\ \A t \in MediaSessions : ~ At(t, "generate", m)
    /\ LoadMedia(s, m, Working("generate", m))
    /\ UNCHANGED <<mediaRows, render, overdue, mediaAsks, mediaFaults, orphaned, regenerated, withdrawn>>

\* handle_poll_video.
TakePoll(s, m) ==
    /\ polling[m] = "queued"
    /\ \A t \in MediaSessions : ~ At(t, "poll", m)
    /\ LoadMedia(s, m, Working("poll", m))
    /\ UNCHANGED <<mediaRows, render, overdue, mediaAsks, mediaFaults, orphaned, regenerated, withdrawn>>

\* get_video_job, which writes nothing unless there is something to poll.
View(s, m) ==
    /\ m \in named /\ media[m] \in InProgress
    /\ Ask(s, "view", m)
    /\ UNCHANGED <<mediaRows, render, overdue, mediaFaults, orphaned, regenerated, withdrawn>>

\* Mutant: a refusal is recorded as a cancellation.
Cancel_Refused(s, m) ==
    /\ media[m] \in {"queued"} \cup InProgress
    /\ \E r \in {"stopped", "running"} :
         render' = IF m \in named /\ render[m] = "running" THEN [render EXCEPT ![m] = r] ELSE render
    /\ Ask(s, "cancel", m)
    /\ UNCHANGED <<mediaRows, overdue, mediaFaults, orphaned, regenerated, withdrawn>>

\* cancel_job: the provider stops what has a provider_job_id; when it refuses,
\* everything stays as it is.
Cancel(s, m) ==
    /\ media[m] \in {"queued"} \cup InProgress
    /\ render' = IF m \in named /\ render[m] = "running" THEN [render EXCEPT ![m] = "stopped"]
                 ELSE render
    /\ Ask(s, "cancel", m)
    /\ UNCHANGED <<mediaRows, overdue, mediaFaults, orphaned, regenerated, withdrawn>>

-----------------------------------------------------------------------------
(* What a session does to the row it has loaded, once no other one has it  *)
(* locked.                                                                 *)

Leave(s, end, job) ==
    work' = [work EXCEPT ![s].left = end, ![s].job = job]

MayWrite(s, op) == work[s].op = op /\ work[s].left = "none" /\ ~ RowLocked(s, work[s].on)

\* _process_image_job.
Paint(s, end) ==
    /\ MayWrite(s, "generate") /\ work[s].on \notin Videos
    /\ end \in {"completed", "failed"}
    /\ Leave(s, end, "done")
    /\ regenerated' = IF work[s].seen = "cancelled" THEN regenerated \cup {work[s].on} ELSE regenerated
    /\ UNCHANGED <<mediaRows, render, overdue, mediaAsks, mediaFaults, crossed, orphaned, withdrawn>>

\* The provider renders m, or has rendered it, under a provider_job_id that the
\* session may not get to know.
Accepted(m, state, heard) ==
    /\ render' = [render EXCEPT ![m] = state]
    /\ orphaned' = IF heard /\ render[m] # "running" THEN orphaned ELSE orphaned \cup {m}

\* _process_video_job without a poll: submitted, finished at once, refused, or
\* not heard of.
Submit(s, end, accepted) ==
    LET m == work[s].on
    IN  /\ MayWrite(s, "generate") /\ m \in Videos
        /\ end \in {"submitted", "processing", "completed", "failed"}
        /\ end # "failed" => accepted
        /\ Leave(s, end, "done")
        /\ IF accepted
           THEN Accepted(m, IF end = "completed" THEN "done" ELSE "running", end # "failed")
           ELSE UNCHANGED <<render, orphaned>>
        /\ regenerated' = IF work[s].seen = "cancelled" THEN regenerated \cup {m} ELSE regenerated
        /\ UNCHANGED <<mediaRows, overdue, mediaAsks, mediaFaults, crossed, withdrawn>>

\* JobQueue._fail: another attempt, or none.
NextTry(m) == IF raises[m] + 1 < GenerationAttempts THEN "queued" ELSE "failed"

\* The handler raises: what it has flushed stays, also when the job has failed.
GenerationRaises(s, accepted) ==
    LET m == work[s].on
    IN  /\ MayWrite(s, "generate") /\ mediaFaults < MaxMediaFaults
        /\ mediaFaults' = mediaFaults + 1
        /\ accepted => m \in Videos
        /\ Leave(s, IF m \in Videos THEN "submitted" ELSE "generating", NextTry(m))
        /\ IF accepted THEN Accepted(m, "running", FALSE) ELSE UNCHANGED <<render, orphaned>>
        /\ regenerated' = IF work[s].seen = "cancelled" THEN regenerated \cup {m} ELSE regenerated
        /\ UNCHANGED <<mediaAsks, mediaRows, overdue, crossed, withdrawn>>

\* What the provider tells of a rendering, and the download of a finished one.
Answers(m) ==
    IF render[m] = "running" THEN {"submitted", "processing", "failed"}
    ELSE IF render[m] = "done" THEN {"completed", "failed"}
    ELSE {"failed"}

Pollable(s) == work[s].seen \notin Settled

\* Mutant: the deadline is not looked at.
TimedOut_Never(s) == FALSE

TimedOut(s) == work[s].op = "poll" /\ work[s].on \in overdue

\* Mutant: a submitted video is not polled again.
PollAgain_Processing(end) == end = "processing"

PollAgain(end) == end \in InProgress

\* _process_video_job with a poll; the handler fails a video that is still in
\* progress at its deadline, or queues the next poll.
PollVideo(s, answer) ==
    LET m   == work[s].on
        end == IF answer \in InProgress /\ TimedOut(s) THEN "failed" ELSE answer
    IN  /\ \/ MayWrite(s, "poll") /\ Pollable(s)
           \/ MayWrite(s, "view")
        /\ answer \in Answers(m)
        /\ Leave(s, end, IF PollAgain(end) THEN "queued" ELSE "done")
        /\ UNCHANGED <<mediaRows, render, overdue, mediaAsks, mediaFaults, crossed, orphaned,
                       regenerated, withdrawn>>

\* A poll of a video that has settled already.
PollEnds(s) ==
    /\ MayWrite(s, "poll") /\ ~ Pollable(s)
    /\ Leave(s, work[s].seen, "done")
    /\ UNCHANGED <<mediaRows, render, overdue, mediaAsks, mediaFaults, crossed, orphaned, regenerated, withdrawn>>

\* The only attempt of a poll fails.
PollRaises(s) ==
    /\ MayWrite(s, "poll") /\ Pollable(s) /\ mediaFaults < MaxMediaFaults
    /\ mediaFaults' = mediaFaults + 1
    /\ Leave(s, "processing", "failed")
    /\ UNCHANGED <<mediaAsks, mediaRows, render, overdue, crossed, orphaned, regenerated, withdrawn>>

CancelRow(s) ==
    /\ MayWrite(s, "cancel")
    /\ Leave(s, "cancelled", "none")
    /\ UNCHANGED <<mediaRows, render, overdue, mediaAsks, mediaFaults, crossed, orphaned, regenerated, withdrawn>>

-----------------------------------------------------------------------------
\* The status a handler gives a row before it calls the provider.
Interim(w) ==
    IF w.op \in {"poll", "view"} THEN "processing"
    ELSE IF w.on \in Videos THEN "submitted" ELSE "generating"

\* The status column is as it was loaded all the time: the UPDATE leaves it out.
Unwritten(w) == w.left = w.seen /\ w.left \in Settled \cup {Interim(w)}

\* Mutant: an answer without the finished video is taken for one with it.
Persisted_Unfinished(w) == w.op # "cancel" /\ w.left \notin {"failed", "cancelled"}

\* The session stores a new asset, which is metered under its own key.
Persisted(w) == w.left = "completed" /\ w.seen # "completed"

CommitMedia(s) ==
    LET w == work[s]  m == work[s].on
    IN  /\ w # NoWork /\ w.left # "none"
        /\ media' = IF Unwritten(w) THEN media ELSE [media EXCEPT ![m] = w.left]
        /\ named' = IF w.op = "generate" /\ m \in Videos /\ w.job = "done" /\ w.left \in InProgress
                    THEN named \cup {m} ELSE named
        /\ assets' = IF Persisted(w) THEN [assets EXCEPT ![m] = @ + 1] ELSE assets
        /\ generation' = IF w.op = "generate" THEN [generation EXCEPT ![m] = w.job] ELSE generation
        /\ raises' = IF w.op = "generate" /\ w.job # "done" THEN [raises EXCEPT ![m] = @ + 1]
                     ELSE raises
        /\ polling' = IF w.op = "poll" THEN [polling EXCEPT ![m] = w.job]
                      ELSE IF m \in named' /\ polling[m] = "none" THEN [polling EXCEPT ![m] = "queued"]
                      ELSE polling
        /\ withdrawn' = IF w.op = "cancel" /\ generation[m] = "done" /\ m \notin crossed \cup orphaned
                        THEN withdrawn \cup {m} ELSE withdrawn
        /\ work' = [work EXCEPT ![s] = NoWork]
        /\ UNCHANGED <<render, overdue, mediaAsks, mediaFaults, crossed, orphaned, regenerated>>

\* The session is rolled back; what it has asked of the provider stands.
DropMedia(s) ==
    /\ work[s] # NoWork /\ mediaFaults < MaxMediaFaults
    /\ mediaFaults' = mediaFaults + 1
    /\ work' = [work EXCEPT ![s] = NoWork]
    /\ orphaned' = IF work[s].op = "generate" /\ work[s].left \in InProgress /\ work[s].on \in Videos
                   THEN orphaned \cup {work[s].on} ELSE orphaned
    /\ UNCHANGED <<mediaAsks, mediaRows, render, overdue, crossed, regenerated, withdrawn>>

\* The provider is done with a rendering, one way or the other.
Rendered(m, end) ==
    /\ render[m] = "running" /\ end \in {"done", "failed"}
    /\ render' = [render EXCEPT ![m] = end]
    /\ UNCHANGED <<mediaRows, overdue, work, mediaAsks, mediaFaults, crossed, orphaned, regenerated, withdrawn>>

\* VIDEO_JOB_TIMEOUT_SECONDS after the first poll was queued.
Deadline(m) ==
    /\ polling[m] # "none" /\ m \notin overdue
    /\ overdue' = overdue \cup {m}
    /\ UNCHANGED <<mediaRows, render, work, mediaAsks, mediaFaults, crossed, orphaned, regenerated, withdrawn>>

\* What a worker's session and any session do next.
Proceed(s) ==
    \/ CommitMedia(s) \/ CancelRow(s) \/ PollEnds(s)
    \/ \E st \in MediaStates :
         \/ Paint(s, st) \/ PollVideo(s, st)
         \/ \E accepted \in BOOLEAN : Submit(s, st, accepted)

MediaNext ==
    \/ \E s \in MediaSessions :
         \/ Proceed(s) \/ PollRaises(s) \/ DropMedia(s)
         \/ \E accepted \in BOOLEAN : GenerationRaises(s, accepted)
    \/ \E s \in MediaWorkers :
         \/ \E m \in Media : TakeGeneration(s, m)
         \/ \E m \in Videos : TakePoll(s, m)
    \/ \E s \in MediaUsers :
         \/ \E m \in Media : Cancel(s, m)
         \/ \E m \in Videos : View(s, m)
    \/ \E m \in Videos : Deadline(m) \/ \E end \in {"done", "failed"} : Rendered(m, end)

-----------------------------------------------------------------------------
Loaded == [op : {"generate", "poll", "view", "cancel"}, on : Media, seen : MediaStates,
           left : MediaStates \cup {"none"}, job : MediaJobStates]

MediaTypeOK ==
    /\ media \in [Media -> MediaStates]
    /\ named \subseteq Videos /\ overdue \subseteq Videos
    /\ assets \in [Media -> Nat]
    /\ raises \in [Media -> Nat]
    /\ generation \in [Media -> MediaJobStates] /\ polling \in [Videos -> MediaJobStates]
    /\ render \in [Videos -> {"none", "running", "done", "failed", "stopped"}]
    /\ \A s \in MediaSessions : work[s] = NoWork \/ work[s] \in Loaded
    /\ mediaAsks \in 0..MaxMediaAsks /\ mediaFaults \in 0..MaxMediaFaults
    /\ crossed \cup orphaned \cup regenerated \cup withdrawn \subseteq Media

\* "a retried job that re-persists the same asset does not bill twice": a medium
\* is billed once, unless two sessions had its row loaded at the same time.
BilledOnce == \A m \in Media : assets[m] > 1 => m \in crossed

\* "a database that says CANCELLED while the vendor meter runs": a medium that
\* was cancelled after its submission, with nothing else going on, stays
\* cancelled, is not rendered any longer and never becomes an asset.
CancelledIsOver ==
    \A m \in withdrawn :
        /\ media[m] = "cancelled" /\ assets[m] = 0
        /\ m \in Videos => render[m] # "running"

\* A video in progress at the provider has a poll to come, unless one has raised
\* or another session had the row as well: nothing else would let it settle.
VideosAreWatched ==
    \A m \in named :
        media[m] \in InProgress => polling[m] \in {"queued", "failed"} \/ m \in crossed
=============================================================================
