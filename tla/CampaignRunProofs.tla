--------------------------- MODULE CampaignRunProofs ---------------------------
(***************************************************************************)
(* Theorems about CampaignRun and the media it starts (MediaJobs), for any *)
(* number of workers, requests, images and videos.  What a session will    *)
(* commit depends on a row it loaded earlier; the invariant says what it   *)
(* can still be, given what other sessions have done since.                *)
(***************************************************************************)
EXTENDS CampaignRun, TLAPS

-----------------------------------------------------------------------------
(* The inductive invariant: media.                                         *)

\* The columns of a row fit together.  Unless two sessions had it loaded, it is
\* billed with its completion, and its generation job is not settled before it.
RowsOK ==
    /\ DOMAIN work = MediaSessions
    /\ \A m \in Media :
         /\ media[m] = "absent" <=> generation[m] = "none"
         /\ generation[m] \in MediaJobStates
         /\ m \in named => generation[m] = "done"
         /\ m \in Videos => (polling[m] = "none" <=> m \notin named)
         /\ media[m] = "absent" => assets[m] = 0
         /\ m \notin crossed =>
              /\ assets[m] > 0 => media[m] = "completed" /\ assets[m] = 1
              /\ generation[m] = "queued" => media[m] \notin {"completed", "failed"}

\* What a session that has loaded a row can be about to commit.
Sound(w) ==
    LET m == w.on IN
    /\ media[m] # "absent"
    /\ w.left \in {"none"} \cup InProgress \cup Settled
    /\ w.op = "generate" =>
         /\ generation[m] = "queued" /\ w.seen # "completed"
         /\ w.left # "none" =>
              /\ w.job \in {"done", "queued", "failed"}
              /\ w.job # "done" => w.left \in InProgress
              /\ w.seen = "cancelled" => m \in regenerated
    /\ w.op = "poll" =>
         /\ m \in named /\ polling[m] = "queued"
         /\ w.seen \in Settled => w.left \in {"none", w.seen}
         /\ w.left # "none" =>
              /\ w.job \in {"queued", "done", "failed"}
              /\ w.job = "done" => w.left \notin InProgress
    /\ w.op = "view" => m \in named /\ w.seen \in InProgress
    /\ w.op = "cancel" =>
         /\ w.seen \in {"queued"} \cup InProgress
         /\ w.left \in {"none", "cancelled"}

SessionsSound == \A s \in MediaSessions : work[s] # NoWork => Sound(work[s])

\* A background job is in the hands of one session.
OneOfAKind ==
    \A s, t \in MediaSessions : \A m \in Media :
        \A op \in {"generate", "poll"} : At(s, op, m) /\ At(t, op, m) => s = t

\* A row that was never loaded twice at once is as its only session loaded it.
Undisturbed ==
    \A s \in MediaSessions : \A m \in Media \ crossed : On(s, m) =>
        /\ work[s].seen = media[m]
        /\ \A t \in MediaSessions : On(t, m) => t = s

\* A rendering that runs is one the row knows of, or is about to.
AboutToName(s, m) ==
    At(s, "generate", m) /\ work[s].left \in InProgress /\ work[s].job = "done"

Rendering ==
    \A m \in Videos \ orphaned :
        /\ render[m] = "running" =>
             m \in named \/ \E s \in MediaSessions : AboutToName(s, m)
        /\ \A s \in MediaSessions :
             At(s, "cancel", m) /\ m \notin crossed => render[m] # "running"

\* Whoever looks at a withdrawn medium sees that it is cancelled.
Gone ==
    \A m \in withdrawn :
        /\ media[m] = "cancelled" /\ assets[m] = 0 /\ generation[m] = "done"
        /\ m \in Videos => render[m] # "running"
        /\ \A s \in MediaSessions : On(s, m) => work[s].op = "poll" /\ work[s].seen = "cancelled"

MediaInv ==
    /\ MediaTypeOK /\ RowsOK /\ SessionsSound /\ OneOfAKind /\ Undisturbed
    /\ Rendering /\ Gone /\ VideosAreWatched

-----------------------------------------------------------------------------
(* The inductive invariant: the run.                                       *)

\* Settled for good, but for what the exceptions explain.
Quiet(m) ==
    media[m] \in Settled \cup {"absent"} \cup
                 (IF m \in regenerated \cup crossed THEN InProgress ELSE {})

\* Nothing has been started before the run, and nobody counts before or after.
Phases ==
    /\ DOMAIN watch = MediaSessions
    /\ run = "QUEUED" => \A m \in Media : media[m] = "absent"
    /\ run \in {"QUEUED", "FAILED"} => \A s \in MediaSessions : watch[s] = NoWatch
    /\ ~ overlapped =>
         /\ \A s, t \in MediaSessions : watch[s] # NoWatch /\ watch[t] # NoWatch => s = t
         /\ run = "READY" =>
              /\ \A s \in MediaSessions : watch[s] = NoWatch
              /\ \A k \in MediaKinds : stages[k] # "RUNNING"

\* What was counted as over is over.
CountsStand ==
    /\ run = "READY" => \A m \in Media : Quiet(m)
    /\ run \in {"GENERATING", "READY"} =>
         \A k \in MediaKinds : stages[k] = "FAILED" => \A m \in OfKind(k) : Quiet(m)
    /\ \A s \in MediaSessions : watch[s] # NoWatch =>
         /\ watch[s].ready =>
              /\ \A m \in Media : Quiet(m)
              /\ \A k \in MediaKinds : watch[s].counts[k] # "RUNNING"
         /\ \A k \in MediaKinds :
              watch[s].counts[k] = "FAILED" => \A m \in OfKind(k) : Quiet(m)

RunInv == MediaInv /\ RunTypeOK /\ Phases /\ CountsStand

-----------------------------------------------------------------------------
(* Loading a row.                                                          *)

\* What a session holds is a loaded row, or nothing.
LEMMA Held ==
    ASSUME MediaTypeOK, NEW s \in MediaSessions
    PROVE  /\ work[s].op = "none" <=> work[s] = NoWork
           /\ work[s] # NoWork <=> work[s] \in Loaded
BY DEF MediaTypeOK, Loaded, NoWork

\* What is true when a session loads a row for op.
MayLoad(op, m) ==
    /\ op \in {"generate", "poll", "view", "cancel"} /\ m \in Media
    /\ op = "generate" =>
         /\ generation[m] = "queued" /\ media[m] # "completed"
         /\ \A t \in MediaSessions : ~ At(t, "generate", m)
    /\ op = "poll" =>
         /\ m \in Videos /\ polling[m] = "queued"
         /\ \A t \in MediaSessions : ~ At(t, "poll", m)
    /\ op = "view" => m \in named /\ media[m] \in InProgress
    /\ op = "cancel" => media[m] \in {"queued"} \cup InProgress

\* The renderings that a load stops: those of a row that is cancelled.
Stops(op, m) ==
    /\ render' \in [Videos -> {"none", "running", "done", "failed", "stopped"}]
    /\ \A v \in Videos : render'[v] = "running" => render[v] = "running"
    /\ op = "cancel" /\ m \in named => render'[m] # "running"

\* Loading a row keeps the invariant of the media: the row is as it was, the
\* session has seen it, and whoever had it too makes the two of them cross.
LEMMA LoadKeeps ==
    ASSUME MediaAssumption, MediaInv, NEW s \in MediaSessions, NEW op, NEW m, MayLoad(op, m),
           LoadMedia(s, m, Working(op, m)), Stops(op, m),
           UNCHANGED <<mediaRows, overdue, mediaFaults, orphaned, regenerated, withdrawn>>,
           mediaAsks' \in 0..MaxMediaAsks
    PROVE  MediaInv'
<1> USE DEF MediaInv, mediaRows, InProgress, Settled
<1>1. /\ work[s] = NoWork
      /\ DOMAIN work' = MediaSessions
      /\ work'[s] = Working(op, m)
      /\ \A t \in MediaSessions : t # s => work'[t] = work[t]
  BY DEF LoadMedia, RowsOK
<1>2. /\ Working(op, m) \in Loaded
      /\ m \in Media
  BY DEF Working, Loaded, MayLoad, MediaTypeOK, MediaStates, MediaJobStates
<1>3. MediaTypeOK'
  <2>1. \A t \in MediaSessions : work'[t] = NoWork \/ work'[t] \in Loaded
    BY <1>1, <1>2 DEF MediaTypeOK
  <2>2. crossed' \subseteq Media
    BY <1>2 DEF LoadMedia, MediaTypeOK
  <2> QED BY <2>1, <2>2 DEF MediaTypeOK, Stops
<1>4. crossed \subseteq crossed' /\ (m \notin crossed' => Alone(s, m))
  BY DEF LoadMedia
<1>5. \A t \in MediaSessions, n \in Media :
        /\ On(t, n) => t # s
        /\ On(t, n)' <=> On(t, n) \/ (t = s /\ n = m)
        /\ t # s => work'[t] = work[t]
  BY <1>1, <1>2 DEF On, NoWork, Working, MayLoad
<1>6. RowsOK'
  BY <1>1, <1>4 DEF RowsOK
<1>7. SessionsSound'
  <2>1. Sound(work[s])'
    BY <1>1 DEF Sound, Working, MayLoad, RowsOK, MediaTypeOK
  <2>2. ASSUME NEW t \in MediaSessions, t # s, work[t] # NoWork
        PROVE  Sound(work[t])'
    BY <1>1, <2>2 DEF SessionsSound, Sound
  <2> QED BY <2>1, <2>2, <1>1 DEF SessionsSound
<1>8. OneOfAKind'
  BY <1>1 DEF OneOfAKind, At, MayLoad, Working
<1>9. Undisturbed'
  BY <1>1, <1>4, <1>5 DEF Undisturbed, Alone, Working
<1>10. Rendering'
  BY <1>1, <1>2, <1>4, <1>5 DEF Rendering, AboutToName, At, Stops, Working, NoWork, Alone, On
<1>11. Gone'
  BY <1>1, <1>2, <1>4, <1>5 DEF Gone, At, Stops, Working, NoWork, On, MayLoad
<1>12. VideosAreWatched'
  BY <1>4 DEF VideosAreWatched
<1> QED BY <1>3, <1>6, <1>7, <1>8, <1>9, <1>10, <1>11, <1>12

-----------------------------------------------------------------------------
(* Writing a row that is loaded.                                           *)

\* A write of a session: it leaves its row in some state, and the provider is
\* asked by a generation only, to render at once or under a name that the row is
\* about to have or that counts as unknown.
LEMMA WriteKeeps ==
    ASSUME MediaAssumption, MediaInv, NEW s \in MediaSessions, work[s] # NoWork,
           work[s].left = "none",
           NEW end \in InProgress \cup Settled, NEW job \in MediaJobStates,
           Leave(s, end, job), Sound(work[s])',
           \/ UNCHANGED <<render, orphaned>>
           \/ /\ At(s, "generate", work[s].on) /\ work[s].on \in Videos
              /\ \E state \in {"running", "done"}, heard \in BOOLEAN :
                   /\ Accepted(work[s].on, state, heard)
                   /\ state = "running" =>
                        work[s].on \in orphaned' \/ AboutToName(s, work[s].on)',
           regenerated \subseteq regenerated', regenerated' \subseteq Media,
           UNCHANGED <<mediaRows, overdue, mediaAsks, crossed, withdrawn>>,
           mediaFaults' \in 0..MaxMediaFaults
    PROVE  MediaInv'
<1> USE DEF MediaInv, mediaRows
<1> DEFINE m == work[s].on
<1>1. work[s] \in Loaded /\ m \in Media
  BY Held DEF Loaded
<1>2. /\ DOMAIN work' = MediaSessions
      /\ work'[s] = [work[s] EXCEPT !.left = end, !.job = job]
      /\ \A t \in MediaSessions : t # s => work'[t] = work[t]
  BY DEF Leave, RowsOK
<1>3. /\ work'[s] \in Loaded
      /\ work'[s].op = work[s].op /\ work'[s].on = m /\ work'[s].seen = work[s].seen
      /\ work'[s].left = end /\ work'[s].job = job
  BY <1>1, <1>2 DEF Loaded, InProgress, Settled, MediaStates
<1>4. \A t \in MediaSessions, n \in Media, op \in {"generate", "poll", "view", "cancel"} :
        /\ On(t, n)' <=> On(t, n)
        /\ At(t, op, n)' <=> At(t, op, n)
        /\ work'[t].seen = work[t].seen /\ work'[t].op = work[t].op
  BY <1>2, <1>3 DEF On, At
<1>5. /\ orphaned \subseteq orphaned' /\ orphaned' \subseteq Media
      /\ render' \in [Videos -> {"none", "running", "done", "failed", "stopped"}]
  BY <1>1 DEF Accepted, MediaTypeOK, MediaAssumption
<1>6. ASSUME NEW v \in Videos, render'[v] = "running", render[v] # "running"
      PROVE  /\ v = m /\ At(s, "generate", m)
             /\ v \in orphaned' \/ AboutToName(s, v)'
  <2>1. /\ At(s, "generate", m)
        /\ \E state \in {"running", "done"} :
             /\ render' = [render EXCEPT ![m] = state]
             /\ state = "running" => m \in orphaned' \/ AboutToName(s, m)'
    BY <1>6 DEF Accepted
  <2> DEFINE known == m \in orphaned' \/ AboutToName(s, m)'
  <2>2. PICK state \in {"running", "done"} :
          render' = [render EXCEPT ![m] = state] /\ (state = "running" => known)
    BY <2>1
  <2>3. v = m /\ state = "running"
    <3> HIDE DEF known, m
    <3> QED BY <2>2, <1>6 DEF MediaTypeOK
  <2> QED BY <1>3, <2>1, <2>2, <2>3 DEF AboutToName, At
<1> HIDE DEF m
<1>7. MediaTypeOK'
  <2>1. \A t \in MediaSessions : work'[t] = NoWork \/ work'[t] \in Loaded
    BY <1>2, <1>3 DEF MediaTypeOK
  <2> QED BY <2>1, <1>5 DEF MediaTypeOK
<1>8. RowsOK'
  BY <1>2 DEF RowsOK
<1>9. SessionsSound'
  <2>1. ASSUME NEW t \in MediaSessions, t # s, work[t] # NoWork
        PROVE  Sound(work[t])'
    BY <1>2, <2>1 DEF SessionsSound, Sound
  <2> QED BY <1>2, <2>1 DEF SessionsSound
<1>10. OneOfAKind'
  BY <1>4 DEF OneOfAKind
<1>11. Undisturbed'
  BY <1>4 DEF Undisturbed
<1>12. Rendering'
  <2>1. ASSUME NEW v \in Videos, v \notin orphaned', render'[v] = "running"
        PROVE  v \in named \/ \E t \in MediaSessions : AboutToName(t, v)'
    <3>1. CASE render[v] = "running"
      <4>1. v \in named \/ \E t \in MediaSessions : AboutToName(t, v)
        BY <2>1, <3>1, <1>5 DEF Rendering
      <4>2. ~ AboutToName(s, v)
        BY DEF AboutToName, InProgress
      <4> QED BY <4>1, <4>2, <1>2 DEF AboutToName, At
    <3>2. CASE render[v] # "running"
      BY <2>1, <3>2, <1>6
    <3> QED BY <3>1, <3>2
  <2>2. ASSUME NEW v \in Videos, v \notin orphaned', NEW t \in MediaSessions,
               At(t, "cancel", v)', v \notin crossed'
        PROVE  render'[v] # "running"
    <3>1. At(t, "cancel", v) /\ v \in Media
      BY <2>2, <1>4 DEF MediaAssumption
    <3>2. render[v] # "running"
      BY <2>2, <3>1, <1>5 DEF Rendering
    <3>3. v # m \/ ~ At(s, "generate", m)
      BY <2>2, <3>1, <1>1 DEF Undisturbed, At, On
    <3> QED BY <3>2, <3>3, <1>6
  <2> QED BY <2>1, <2>2 DEF Rendering
<1>13. Gone'
  <2>1. m \in withdrawn => ~ At(s, "generate", m)
    BY <1>1 DEF Gone, On, At
  <2>2. withdrawn \subseteq Media
    BY DEF MediaTypeOK
  <2> QED BY <2>1, <2>2, <1>4, <1>6 DEF Gone
<1>14. VideosAreWatched'
  BY DEF VideosAreWatched
<1> QED BY <1>7, <1>8, <1>9, <1>10, <1>11, <1>12, <1>13, <1>14

-----------------------------------------------------------------------------
(* The end of a session, and of a rendering.                               *)

\* A commit keeps the invariant: it writes what the session was about to write.
LEMMA CommitKeeps ==
    ASSUME MediaAssumption, MediaInv, NEW s \in MediaSessions, CommitMedia(s)
    PROVE  MediaInv'
<1> USE DEF MediaInv
<1> DEFINE w == work[s]
           m == work[s].on
<1>1. w \in Loaded /\ m \in Media /\ w.left # "none" /\ Sound(w)
  BY Held DEF Loaded, CommitMedia, SessionsSound
<1>2. /\ DOMAIN work' = MediaSessions
      /\ work'[s] = NoWork
      /\ \A t \in MediaSessions : t # s => work'[t] = work[t]
  BY DEF CommitMedia, RowsOK
<1>3. /\ media' \in [Media -> MediaStates]
      /\ media'[m] = IF Unwritten(w) THEN media[m] ELSE w.left
      /\ media'[m] # "absent"
      /\ \A n \in Media : n # m => media'[n] = media[n]
  BY <1>1 DEF CommitMedia, MediaTypeOK, Sound, Loaded, MediaStates, InProgress, Settled
<1>4. /\ assets' \in [Media -> Nat]
      /\ assets'[m] = IF Persisted(w) THEN assets[m] + 1 ELSE assets[m]
      /\ \A n \in Media : n # m => assets'[n] = assets[n]
  BY <1>1 DEF CommitMedia, MediaTypeOK
<1>5. /\ generation' \in [Media -> MediaJobStates]
      /\ generation'[m] = IF w.op = "generate" THEN w.job ELSE generation[m]
      /\ \A n \in Media : n # m => generation'[n] = generation[n]
  BY <1>1 DEF CommitMedia, MediaTypeOK, Loaded
<1>6. /\ named \subseteq named' /\ named' \subseteq named \cup {m} /\ named' \subseteq Videos
      /\ m \in named' <=>
           \/ m \in named
           \/ w.op = "generate" /\ m \in Videos /\ w.job = "done" /\ w.left \in InProgress
  BY DEF CommitMedia, MediaTypeOK
<1>7. /\ polling' \in [Videos -> MediaJobStates]
      /\ m \in Videos => polling'[m] = IF w.op = "poll" THEN w.job
                                     ELSE IF m \in named' /\ polling[m] = "none" THEN "queued"
                                     ELSE polling[m]
      /\ \A n \in Videos : n # m => polling'[n] = polling[n]
  BY <1>1, <1>6 DEF CommitMedia, MediaTypeOK, Loaded, MediaJobStates
<1>8. /\ withdrawn \subseteq withdrawn'
      /\ \A n \in withdrawn' \ withdrawn :
           n = m /\ w.op = "cancel" /\ generation[m] = "done" /\ m \notin crossed \cup orphaned
  BY DEF CommitMedia
<1>9. UNCHANGED <<render, overdue, mediaAsks, mediaFaults, crossed, orphaned, regenerated>>
  BY DEF CommitMedia
<1>10. /\ On(s, m)
       /\ m \notin crossed => w.seen = media[m] /\ \A t \in MediaSessions : On(t, m) => t = s
       /\ \A t \in MediaSessions, n \in Media : On(t, n)' <=> On(t, n) /\ t # s
  <2>1. On(s, m)
    BY <1>1 DEF On, Loaded
  <2> QED BY <2>1, <1>1, <1>2 DEF Undisturbed, On, NoWork
<1> HIDE DEF w, m
<1> USE <1>9
<1>11. MediaTypeOK'
  <2>1. \A t \in MediaSessions : work'[t] = NoWork \/ work'[t] \in Loaded
    BY <1>2 DEF MediaTypeOK
  <2>2. withdrawn' \subseteq Media
    BY <1>1, <1>8 DEF MediaTypeOK
  <2>3. raises' \in [Media -> Nat]
    <3>1. raises' = raises \/ raises' = [raises EXCEPT ![m] = raises[m] + 1]
      BY DEF CommitMedia, m
    <3> QED BY <3>1, <1>1 DEF MediaTypeOK
  <2> QED BY <2>1, <2>2, <2>3, <1>3, <1>4, <1>5, <1>6, <1>7 DEF MediaTypeOK
<1>12. RowsOK'
  <2>1. ASSUME NEW n \in Media
        PROVE  /\ media'[n] = "absent" <=> generation'[n] = "none"
               /\ generation'[n] \in MediaJobStates
               /\ n \in named' => generation'[n] = "done"
               /\ media'[n] = "absent" => assets'[n] = 0
    BY <1>1, <1>3, <1>4, <1>5, <1>6, <1>10 DEF RowsOK, Sound, w, m
  <2>2. ASSUME NEW n \in Videos
        PROVE  polling'[n] = "none" <=> n \notin named'
    BY <1>1, <1>6, <1>7 DEF RowsOK, Sound, w, m, MediaAssumption
  <2>3. ASSUME NEW n \in Media, n \notin crossed
        PROVE  /\ assets'[n] > 0 => media'[n] = "completed" /\ assets'[n] = 1
               /\ generation'[n] = "queued" => media'[n] \notin {"completed", "failed"}
    <3>1. CASE n # m
      BY <2>3, <3>1, <1>3, <1>4, <1>5 DEF RowsOK
    <3>2. CASE n = m
      <4>1. w.seen = media[m] /\ assets[m] \in Nat
        BY <2>3, <3>2, <1>10 DEF MediaTypeOK
      <4>2. /\ assets[m] > 0 => media[m] = "completed" /\ assets[m] = 1
            /\ generation[m] = "queued" => media[m] \notin {"completed", "failed"}
        BY <2>3, <3>2, <1>1 DEF RowsOK
      <4>3. Persisted(w) => media'[m] = "completed" /\ assets'[m] = 1
        BY <4>1, <4>2, <1>3, <1>4 DEF Persisted, Unwritten
      <4>4. ~ Persisted(w) /\ assets[m] > 0 => media'[m] = "completed" /\ assets'[m] = 1
        <5>1. CASE ~ Persisted(w) /\ assets[m] > 0
          <6>1. w.seen = "completed"
            BY <5>1, <4>1, <4>2
          <6>2. w.left = "completed"
            BY <6>1, <1>1 DEF Sound, Settled, InProgress, Loaded
          <6> QED BY <5>1, <6>1, <6>2, <4>1, <4>2, <1>3, <1>4
        <5> QED BY <5>1
      <4>5. generation'[m] = "queued" => media'[m] \notin {"completed", "failed"}
        <5>1. CASE w.op = "generate"
          BY <5>1, <4>1, <1>1, <1>3, <1>5 DEF Sound, InProgress, Unwritten
        <5>2. CASE w.op \in {"poll", "view"}
          BY <5>2, <1>1, <1>5 DEF Sound, RowsOK, w, m
        <5>3. CASE w.op = "cancel"
          BY <5>3, <4>1, <1>1, <1>3 DEF Sound, Unwritten
        <5> QED BY <5>1, <5>2, <5>3, <1>1 DEF Loaded
      <4> QED BY <3>2, <4>3, <4>4, <4>5, <4>1, <1>4
    <3> QED BY <3>1, <3>2
  <2> QED BY <1>2, <2>1, <2>2, <2>3 DEF RowsOK
<1>13. SessionsSound'
  <2>1. ASSUME NEW t \in MediaSessions, t # s, work[t] # NoWork
        PROVE  Sound(work[t])'
    <3>1. Sound(work[t]) /\ work[t] \in Loaded /\ work'[t] = work[t]
      BY <2>1, <1>2, Held DEF SessionsSound
    <3>2. CASE work[t].on # m
      BY <3>1, <3>2, <1>3, <1>5, <1>6, <1>7 DEF Sound, Loaded, MediaTypeOK
    <3>3. CASE work[t].on = m
      <4>1. work[t].op \in {"generate", "poll"} => work[t].op # w.op
        BY <2>1, <3>3, <1>1 DEF OneOfAKind, At, w, m
      <4> QED BY <3>1, <3>3, <4>1, <1>1, <1>3, <1>5, <1>6, <1>7 DEF Sound, MediaTypeOK
    <3> QED BY <3>2, <3>3
  <2> QED BY <1>2, <2>1 DEF SessionsSound
<1>14. OneOfAKind'
  BY <1>2 DEF OneOfAKind, At, NoWork
<1>15. Undisturbed'
  BY <1>2, <1>3, <1>10 DEF Undisturbed
<1>16. Rendering'
  <2>1. ASSUME NEW v \in Videos, v \notin orphaned, render[v] = "running", v \notin named'
        PROVE  \E t \in MediaSessions : AboutToName(t, v)'
    <3>1. PICK t \in MediaSessions : AboutToName(t, v)
      BY <2>1, <1>6 DEF Rendering
    <3>2. t # s
      BY <2>1, <3>1, <1>6 DEF AboutToName, At, w, m
    <3>3. AboutToName(t, v)'
      BY <3>1, <3>2, <1>2 DEF AboutToName, At
    <3> QED BY <3>3
  <2>2. ASSUME NEW v \in Videos, v \notin orphaned, NEW t \in MediaSessions,
               At(t, "cancel", v)', v \notin crossed
        PROVE  render[v] # "running"
    BY <2>2, <1>2 DEF Rendering, At, NoWork
  <2> QED BY <2>1, <2>2 DEF Rendering
<1>17. Gone'
  <2>1. ASSUME NEW n \in withdrawn
        PROVE  /\ media'[n] = "cancelled" /\ assets'[n] = 0 /\ generation'[n] = "done"
               /\ \A t \in MediaSessions :
                    On(t, n)' => work'[t].op = "poll" /\ work'[t].seen = "cancelled"
    <3>1. /\ n \in Media
          /\ \A t \in MediaSessions : On(t, n)' => On(t, n) /\ t # s
      BY <1>10 DEF MediaTypeOK
    <3>2. n = m => w.op = "poll" /\ w.seen = "cancelled" /\ w.left = "cancelled"
      BY <1>1, <1>10 DEF Gone, Sound, Settled, w, m
    <3>3. n = m => Unwritten(w) /\ ~ Persisted(w)
      BY <3>2 DEF Unwritten, Persisted, Settled
    <3> QED BY <3>1, <3>2, <3>3, <1>2, <1>3, <1>4, <1>5 DEF Gone
  <2>2. ASSUME NEW n \in withdrawn' \ withdrawn
        PROVE  /\ media'[n] = "cancelled" /\ assets'[n] = 0 /\ generation'[n] = "done"
               /\ n \in Videos => render[n] # "running"
               /\ \A t \in MediaSessions : ~ On(t, n)'
    <3>1. n = m /\ w.op = "cancel" /\ generation[m] = "done" /\ m \notin crossed /\ m \notin orphaned
      BY <1>8
    <3>2. w.seen = media[m] /\ \A t \in MediaSessions : ~ On(t, n)'
      BY <3>1, <1>1, <1>10
    <3>3. w.left = "cancelled" /\ w.seen \in {"queued"} \cup InProgress
      BY <3>1, <1>1 DEF Sound
    <3>4. ~ Unwritten(w) /\ ~ Persisted(w)
      BY <3>3 DEF Unwritten, Persisted, InProgress
    <3>5. assets[m] = 0
      BY <3>1, <3>2, <3>3, <1>1 DEF RowsOK, InProgress, MediaTypeOK
    <3>6. m \in Videos => render[m] # "running"
      BY <3>1, <1>1 DEF Rendering, At, w, m
    <3> QED BY <3>1, <3>2, <3>3, <3>4, <3>5, <3>6, <1>3, <1>4, <1>5
  <2> QED BY <2>1, <2>2 DEF Gone
<1>18. VideosAreWatched'
  <2>1. ASSUME NEW v \in named', media'[v] \in InProgress, v \notin crossed
        PROVE  polling'[v] \in {"queued", "failed"}
    <3>1. v \in Videos /\ v \in Media
      BY <1>6 DEF MediaAssumption
    <3>2. CASE v # m
      BY <2>1, <3>1, <3>2, <1>3, <1>6, <1>7 DEF VideosAreWatched
    <3>3. CASE v = m
      <4>1. w.seen = media[m]
        BY <2>1, <3>3, <1>10
      <4>2. w.left \in InProgress
        BY <2>1, <3>3, <4>1, <1>3 DEF Unwritten
      <4>3. CASE w.op = "generate"
        BY <2>1, <3>1, <3>3, <4>2, <4>3, <1>1, <1>6, <1>7 DEF Sound, RowsOK, w, m
      <4>4. CASE w.op = "poll"
        BY <3>1, <3>3, <4>2, <4>4, <1>1, <1>7 DEF Sound
      <4>5. CASE w.op = "view"
        BY <2>1, <3>1, <3>3, <4>1, <4>5, <1>1, <1>7 DEF Sound, VideosAreWatched, RowsOK, w, m
      <4>6. CASE w.op = "cancel"
        BY <4>2, <4>6, <1>1 DEF Sound, InProgress
      <4> QED BY <4>3, <4>4, <4>5, <4>6, <1>1 DEF Loaded
    <3> QED BY <3>2, <3>3
  <2> QED BY <2>1 DEF VideosAreWatched
<1> QED BY <1>11, <1>12, <1>13, <1>14, <1>15, <1>16, <1>17, <1>18

\* A session that is rolled back leaves its row as it was; a rendering that the
\* row was about to know of is then one that nobody knows of.
LEMMA DropKeeps ==
    ASSUME MediaAssumption, MediaInv, NEW s \in MediaSessions, DropMedia(s)
    PROVE  MediaInv'
<1> USE DEF MediaInv, mediaRows
<1>1. /\ DOMAIN work' = MediaSessions
      /\ work'[s] = NoWork
      /\ \A t \in MediaSessions : t # s => work'[t] = work[t]
      /\ UNCHANGED <<mediaRows, mediaAsks, render, overdue, crossed, regenerated, withdrawn>>
  BY DEF DropMedia, RowsOK
<1>2. /\ work[s].on \in Media
      /\ orphaned \subseteq orphaned' /\ orphaned' \subseteq Media
      /\ \A v \in Videos : AboutToName(s, v) => v \in orphaned'
  BY Held DEF DropMedia, MediaTypeOK, Loaded, AboutToName, At
<1>3. mediaFaults' \in 0..MaxMediaFaults
  BY DEF DropMedia, MediaTypeOK, MediaAssumption
<1>4. MediaTypeOK'
  <2>1. \A t \in MediaSessions : work'[t] = NoWork \/ work'[t] \in Loaded
    BY <1>1 DEF MediaTypeOK
  <2> QED BY <1>1, <1>2, <1>3, <2>1 DEF MediaTypeOK
<1>5. RowsOK'
  BY <1>1 DEF RowsOK
<1>6. SessionsSound'
  BY <1>1 DEF SessionsSound, Sound
<1>7. OneOfAKind'
  BY <1>1 DEF OneOfAKind, At, NoWork
<1>8. Undisturbed'
  BY <1>1 DEF Undisturbed, On, NoWork
<1>9. Rendering'
  BY <1>1, <1>2 DEF Rendering, AboutToName, At, NoWork
<1>10. Gone'
  BY <1>1 DEF Gone, On, NoWork
<1>11. VideosAreWatched'
  BY <1>1 DEF VideosAreWatched
<1> QED BY <1>4, <1>5, <1>6, <1>7, <1>8, <1>9, <1>10, <1>11

\* The end of a rendering, and a deadline, are nothing a row or a session sees.
LEMMA OutsideKeeps ==
    ASSUME MediaAssumption, MediaInv, NEW m \in Videos,
           Deadline(m) \/ \E end \in {"done", "failed"} : Rendered(m, end)
    PROVE  MediaInv'
<1> USE DEF MediaInv, mediaRows
<1>1. /\ UNCHANGED <<mediaRows, work, mediaAsks, mediaFaults, crossed, orphaned, regenerated, withdrawn>>
      /\ overdue' \subseteq Videos
      /\ render' \in [Videos -> {"none", "running", "done", "failed", "stopped"}]
      /\ \A v \in Videos : render'[v] = "running" => render[v] = "running"
  BY DEF Deadline, Rendered, MediaTypeOK
<1>2. MediaTypeOK'
  BY <1>1 DEF MediaTypeOK
<1>3. RowsOK' /\ SessionsSound' /\ OneOfAKind' /\ Undisturbed' /\ VideosAreWatched'
  BY <1>1 DEF RowsOK, SessionsSound, Sound, OneOfAKind, At, Undisturbed, On, VideosAreWatched
<1>4. Rendering' /\ Gone'
  BY <1>1 DEF Rendering, AboutToName, At, Gone, On
<1> QED BY <1>2, <1>3, <1>4

-----------------------------------------------------------------------------
(* Every step of the media.                                                *)

\* Each operation of a session, of a request and of the provider keeps the
\* invariant of the media.
LEMMA MediaKeeps ==
    ASSUME MediaAssumption, MediaInv, MediaNext
    PROVE  MediaInv'
<1> USE DEF MediaSessions
<1>1. ASSUME NEW s \in MediaSessions, CommitMedia(s)
      PROVE  MediaInv'
  BY <1>1, CommitKeeps
<1>2. ASSUME NEW s \in MediaSessions, DropMedia(s)
      PROVE  MediaInv'
  BY <1>2, DropKeeps
<1>3. ASSUME NEW s \in MediaSessions,
             \/ CancelRow(s) \/ PollEnds(s) \/ PollRaises(s)
             \/ \E st \in MediaStates : \/ Paint(s, st) \/ PollVideo(s, st)
                                       \/ \E accepted \in BOOLEAN : Submit(s, st, accepted)
             \/ \E accepted \in BOOLEAN : GenerationRaises(s, accepted)
      PROVE  MediaInv'
  <2> DEFINE m == work[s].on
  <2>1. /\ work[s] # NoWork /\ work[s].left = "none"
        /\ work[s] \in Loaded /\ m \in Media /\ Sound(work[s])
        /\ DOMAIN work = MediaSessions
        /\ regenerated \subseteq Media
        /\ mediaFaults \in 0..MaxMediaFaults
    <3>1. MayWrite(s, "generate") \/ MayWrite(s, "poll") \/ MayWrite(s, "view") \/ MayWrite(s, "cancel")
      BY <1>3 DEF Paint, Submit, GenerationRaises, PollVideo, PollEnds, PollRaises, CancelRow
    <3>2. work[s] # NoWork /\ work[s].left = "none"
      BY <3>1 DEF MayWrite, NoWork
    <3> QED BY <3>2, Held DEF MediaInv, MediaTypeOK, SessionsSound, RowsOK, Loaded
  <2>2. ASSUME NEW end, NEW job, Leave(s, end, job)
        PROVE  /\ work'[s].op = work[s].op /\ work'[s].on = m /\ work'[s].seen = work[s].seen
               /\ work'[s].left = end /\ work'[s].job = job
    BY <2>1, <2>2 DEF Leave, Loaded
  <2>3. ASSUME NEW st \in MediaStates, Paint(s, st)
        PROVE  MediaInv'
    <3>1. Sound(work[s])'
      BY <2>1, <2>2, <2>3 DEF Paint, Sound, MayWrite, mediaRows, InProgress, Settled
    <3>2. /\ st \in InProgress \cup Settled /\ "done" \in MediaJobStates
          /\ Leave(s, st, "done") /\ mediaFaults' \in 0..MaxMediaFaults
          /\ UNCHANGED <<render, orphaned>>
          /\ regenerated \subseteq regenerated' /\ regenerated' \subseteq Media
          /\ UNCHANGED <<mediaRows, overdue, mediaAsks, crossed, withdrawn>>
      BY <2>1, <2>3 DEF Paint, Settled, MediaJobStates
    <3> QED BY <2>1, <3>1, <3>2, WriteKeeps
  <2>4. ASSUME NEW st \in MediaStates, NEW accepted \in BOOLEAN, Submit(s, st, accepted)
        PROVE  MediaInv'
    <3>1. Sound(work[s])'
      BY <2>1, <2>2, <2>4 DEF Submit, Sound, MayWrite, mediaRows, InProgress, Settled
    <3>2. /\ st \in InProgress \cup Settled /\ "done" \in MediaJobStates
          /\ Leave(s, st, "done") /\ mediaFaults' \in 0..MaxMediaFaults
          /\ regenerated \subseteq regenerated' /\ regenerated' \subseteq Media
          /\ UNCHANGED <<mediaRows, overdue, mediaAsks, crossed, withdrawn>>
      BY <2>1, <2>4 DEF Submit, InProgress, Settled, MediaJobStates
    <3>3. \/ UNCHANGED <<render, orphaned>>
          \/ /\ At(s, "generate", m) /\ m \in Videos
             /\ \E state \in {"running", "done"}, heard \in BOOLEAN :
                  /\ Accepted(m, state, heard)
                  /\ state = "running" => m \in orphaned' \/ AboutToName(s, m)'
      <4>1. st = "failed" =>
              \/ UNCHANGED <<render, orphaned>>
              \/ Accepted(m, "running", FALSE) /\ m \in orphaned'
        BY <2>4 DEF Submit, Accepted
      <4>2. st = "completed" => Accepted(m, "done", TRUE)
        BY <2>4 DEF Submit
      <4>3. st \in InProgress => Accepted(m, "running", TRUE) /\ AboutToName(s, m)'
        BY <2>2, <2>4 DEF Submit, AboutToName, At, MayWrite, InProgress
      <4>4. st \in InProgress \cup {"completed", "failed"}
        BY <2>4 DEF Submit, InProgress
      <4>5. At(s, "generate", m) /\ m \in Videos
        BY <2>4 DEF Submit, At, MayWrite
      <4> QED BY <4>1, <4>2, <4>3, <4>4, <4>5
    <3> QED BY <2>1, <3>1, <3>2, <3>3, WriteKeeps
  <2>5. ASSUME NEW accepted \in BOOLEAN, GenerationRaises(s, accepted)
        PROVE  MediaInv'
    <3> DEFINE end == IF m \in Videos THEN "submitted" ELSE "generating"
               job == NextTry(m)
    <3>1. Sound(work[s])'
      BY <2>1, <2>2, <2>5 DEF GenerationRaises, NextTry, Sound, MayWrite, mediaRows, InProgress, Settled
    <3>2. /\ end \in InProgress \cup Settled /\ job \in MediaJobStates
          /\ Leave(s, end, job) /\ mediaFaults' \in 0..MaxMediaFaults
          /\ regenerated \subseteq regenerated' /\ regenerated' \subseteq Media
          /\ UNCHANGED <<mediaRows, overdue, mediaAsks, crossed, withdrawn>>
      BY <2>1, <2>5 DEF GenerationRaises, NextTry, InProgress, MediaJobStates, MediaAssumption
    <3>3. \/ UNCHANGED <<render, orphaned>>
          \/ /\ At(s, "generate", m) /\ m \in Videos
             /\ Accepted(m, "running", FALSE) /\ m \in orphaned'
      BY <2>5 DEF GenerationRaises, Accepted, At, MayWrite
    <3> HIDE DEF end, job
    <3> QED BY <2>1, <3>1, <3>2, <3>3, WriteKeeps
  <2>6. ASSUME NEW end \in InProgress \cup Settled, NEW job \in MediaJobStates,
               Leave(s, end, job), Sound(work[s])',
               UNCHANGED <<mediaRows, render, overdue, mediaAsks, crossed, orphaned, regenerated, withdrawn>>,
               mediaFaults' \in 0..MaxMediaFaults
        PROVE  MediaInv'
    BY <2>1, <2>6, WriteKeeps
  <2>7. ASSUME NEW st \in MediaStates, PollVideo(s, st)
        PROVE  MediaInv'
    <3>1. PICK end \in InProgress \cup {"completed", "failed"}, job \in {"queued", "done"} :
             Leave(s, end, job) /\ (end \in InProgress <=> job = "queued")
      <4>1. st \in InProgress \cup {"completed", "failed"}
        BY <2>7 DEF PollVideo, Answers, InProgress
      <4> QED BY <2>7, <4>1 DEF PollVideo, PollAgain, InProgress
    <3>2. Sound(work[s])'
      BY <2>1, <2>2, <2>7, <3>1 DEF PollVideo, Pollable, Sound, MayWrite, mediaRows, InProgress, Settled
    <3> QED BY <2>1, <2>6, <2>7, <3>1, <3>2 DEF PollVideo, Settled, MediaJobStates
  <2>8. ASSUME PollEnds(s)
        PROVE  MediaInv'
    <3>1. Sound(work[s])'
      BY <2>1, <2>2, <2>8 DEF PollEnds, Pollable, Sound, MayWrite, mediaRows, InProgress, Settled
    <3> QED BY <2>1, <2>6, <2>8, <3>1 DEF PollEnds, Pollable, MediaJobStates
  <2>9. ASSUME PollRaises(s)
        PROVE  MediaInv'
    <3>1. Sound(work[s])'
      BY <2>1, <2>2, <2>9 DEF PollRaises, Pollable, Sound, MayWrite, mediaRows, InProgress, Settled
    <3> QED BY <2>1, <2>6, <2>9, <3>1 DEF PollRaises, InProgress, MediaJobStates, MediaAssumption
  <2>10. ASSUME CancelRow(s)
         PROVE  MediaInv'
    <3>1. Sound(work[s])'
      BY <2>1, <2>2, <2>10 DEF CancelRow, Sound, MayWrite, mediaRows, InProgress, Settled
    <3> QED BY <2>1, <2>6, <2>10, <3>1 DEF CancelRow, Settled, MediaJobStates
  <2> QED BY <1>3, <2>3, <2>4, <2>5, <2>7, <2>8, <2>9, <2>10
<1>4. MediaTypeOK /\ RowsOK
  BY DEF MediaInv
<1>5. ASSUME NEW s \in MediaWorkers, NEW m \in Media, TakeGeneration(s, m)
      PROVE  MediaInv'
  <2>1. MayLoad("generate", m) /\ Stops("generate", m) /\ mediaAsks' \in 0..MaxMediaAsks
    BY <1>4, <1>5 DEF TakeGeneration, MayLoad, Stops, MediaTypeOK
  <2> QED BY <1>5, <2>1, LoadKeeps DEF TakeGeneration
<1>6. ASSUME NEW s \in MediaWorkers, NEW m \in Videos, TakePoll(s, m)
      PROVE  MediaInv'
  <2>1. MayLoad("poll", m) /\ Stops("poll", m) /\ mediaAsks' \in 0..MaxMediaAsks
    BY <1>4, <1>6 DEF TakePoll, MayLoad, Stops, MediaTypeOK, MediaAssumption
  <2> QED BY <1>6, <2>1, LoadKeeps DEF TakePoll
<1>7. ASSUME NEW s \in MediaUsers, NEW m \in Media, Cancel(s, m)
      PROVE  MediaInv'
  <2>1. MayLoad("cancel", m) /\ mediaAsks' \in 0..MaxMediaAsks
    BY <1>4, <1>7 DEF Cancel, Ask, MayLoad, MediaTypeOK, MediaAssumption
  <2>2. Stops("cancel", m)
    BY <1>4, <1>7 DEF Cancel, Stops, MediaTypeOK
  <2> QED BY <1>7, <2>1, <2>2, LoadKeeps DEF Cancel, Ask
<1>8. ASSUME NEW s \in MediaUsers, NEW m \in Videos, View(s, m)
      PROVE  MediaInv'
  <2>1. MayLoad("view", m) /\ Stops("view", m) /\ mediaAsks' \in 0..MaxMediaAsks
    BY <1>4, <1>8 DEF View, Ask, MayLoad, Stops, MediaTypeOK, MediaAssumption
  <2> QED BY <1>8, <2>1, LoadKeeps DEF View, Ask
<1> QED BY <1>1, <1>2, <1>3, <1>5, <1>6, <1>7, <1>8, OutsideKeeps DEF MediaNext, Proceed

\* The status of a row changes with a commit only, and a commit that puts a
\* settled row in progress again is one that the exceptions are about.
LEMMA QuietStays ==
    ASSUME MediaAssumption, MediaInv, MediaNext, NEW m \in Media
    PROVE  /\ media[m] = "absent" => media'[m] = "absent"
           /\ Quiet(m) => Quiet(m)'
<1> USE DEF MediaInv
<1>a. ASSUME NEW s \in MediaSessions, Proceed(s)
      PROVE  /\ crossed \subseteq crossed' /\ regenerated \subseteq regenerated'
             /\ UNCHANGED media \/ CommitMedia(s)
  <2>1. CASE CommitMedia(s) \/ CancelRow(s) \/ PollEnds(s)
    BY <2>1 DEF CommitMedia, CancelRow, PollEnds, mediaRows
  <2>2. CASE \E st \in MediaStates : Paint(s, st) \/ PollVideo(s, st)
    BY <2>2 DEF Paint, PollVideo, mediaRows
  <2>3. CASE \E st \in MediaStates, accepted \in BOOLEAN : Submit(s, st, accepted)
    BY <2>3 DEF Submit, mediaRows
  <2> QED BY <1>a, <2>1, <2>2, <2>3 DEF Proceed
<1>b. ASSUME NEW s \in MediaSessions,
             PollRaises(s) \/ DropMedia(s) \/ \E accepted \in BOOLEAN : GenerationRaises(s, accepted)
      PROVE  crossed \subseteq crossed' /\ regenerated \subseteq regenerated' /\ UNCHANGED media
  BY <1>b DEF PollRaises, DropMedia, GenerationRaises, mediaRows
<1>c. ASSUME NEW s \in MediaSessions, NEW k \in Media,
             TakeGeneration(s, k) \/ TakePoll(s, k) \/ Cancel(s, k) \/ View(s, k)
      PROVE  crossed \subseteq crossed' /\ regenerated \subseteq regenerated' /\ UNCHANGED media
  BY <1>c DEF TakeGeneration, TakePoll, Cancel, View, Ask, LoadMedia, mediaRows
<1>d. ASSUME NEW k \in Videos, Deadline(k) \/ \E end \in {"done", "failed"} : Rendered(k, end)
      PROVE  crossed \subseteq crossed' /\ regenerated \subseteq regenerated' /\ UNCHANGED media
  BY <1>d DEF Deadline, Rendered, mediaRows
<1>e. MediaWorkers \subseteq MediaSessions /\ MediaUsers \subseteq MediaSessions /\ Videos \subseteq Media
  BY DEF MediaSessions, MediaAssumption
<1>1. crossed \subseteq crossed' /\ regenerated \subseteq regenerated'
  BY <1>a, <1>b, <1>c, <1>d, <1>e DEF MediaNext
<1>2. CASE UNCHANGED media
  BY <1>1, <1>2 DEF Quiet
<1>3. ASSUME NEW s \in MediaSessions, CommitMedia(s)
      PROVE  /\ media[m] = "absent" => media'[m] = "absent"
             /\ Quiet(m) => Quiet(m)'
  <2> DEFINE w == work[s]
  <2>1. w \in Loaded /\ w.left # "none" /\ Sound(w)
    BY <1>3, Held DEF CommitMedia, SessionsSound
  <2>2. CASE w.on # m
    BY <1>1, <1>3, <2>1, <2>2 DEF CommitMedia, Quiet, MediaTypeOK
  <2>3. CASE w.on = m
    <3>1. /\ media[m] # "absent"
          /\ media'[m] \in {media[m], w.left}
          /\ w.left \in InProgress \cup Settled
      BY <1>3, <2>1, <2>3 DEF CommitMedia, Sound, MediaTypeOK
    <3>2. ASSUME w.left \in InProgress, media'[m] = w.left, m \notin crossed, Quiet(m)
          PROVE  m \in regenerated
      <4>1. w.seen = media[m]
        BY <2>1, <2>3, <3>2 DEF Undisturbed, On, Loaded
      <4>2. CASE media[m] \in InProgress
        BY <3>2, <4>2 DEF Quiet, InProgress, Settled
      <4>3. CASE media[m] \in Settled
        <5>1. w.op = "generate" => media[m] = "cancelled"
          BY <2>1, <2>3, <3>2, <4>3 DEF Sound, RowsOK, Settled
        <5>2. w.op = "generate" => m \in regenerated
          BY <5>1, <2>1, <2>3, <4>1 DEF Sound
        <5>3. w.op # "generate" => w.left \notin InProgress
          BY <2>1, <4>1, <4>3 DEF Sound, Loaded, InProgress, Settled
        <5> QED BY <5>2, <5>3, <3>2
      <4> QED BY <3>1, <3>2, <4>2, <4>3 DEF Quiet, InProgress, Settled
    <3> QED BY <1>1, <3>1, <3>2 DEF Quiet
  <2> QED BY <2>2, <2>3
<1>4. UNCHANGED media \/ \E s \in MediaSessions : CommitMedia(s)
  BY <1>a, <1>b, <1>c, <1>d, <1>e DEF MediaNext
<1> QED BY <1>2, <1>3, <1>4

-----------------------------------------------------------------------------
(* The steps of the run.                                                   *)

\* Before the run there are no rows, so nobody holds one; the media it queues
\* are the first.
LEMMA StartKeeps ==
    ASSUME MediaAssumption, RunInv, run = "QUEUED", NEW ms \in SUBSET Media, Enqueue(ms),
           UNCHANGED <<named, assets, raises, polling, render, overdue, work, mediaAsks, mediaFaults,
                       crossed, orphaned, regenerated, withdrawn>>
    PROVE  /\ MediaInv'
           /\ \A m \in Media : media'[m] = IF m \in ms THEN "queued" ELSE "absent"
<1> USE DEF RunInv, MediaInv
<1>1. \A m \in Media :
        /\ media[m] = "absent" /\ generation[m] = "none" /\ assets[m] = 0
        /\ m \notin named /\ m \notin withdrawn
  BY DEF Phases, RowsOK, Gone
<1>2. \A s \in MediaSessions : work[s] = NoWork
  BY <1>1, Held DEF SessionsSound, Sound, Loaded
<1>3. /\ media' \in [Media -> MediaStates] /\ generation' \in [Media -> MediaJobStates]
      /\ \A m \in Media : /\ media'[m] = IF m \in ms THEN "queued" ELSE "absent"
                          /\ generation'[m] = IF m \in ms THEN "queued" ELSE "none"
  BY <1>1 DEF Enqueue, MediaStates, MediaJobStates
<1>4. named = {} /\ withdrawn = {}
  BY <1>1 DEF MediaTypeOK, MediaAssumption
<1>5. MediaTypeOK'
  BY <1>3 DEF MediaTypeOK
<1>6. RowsOK'
  BY <1>1, <1>3 DEF RowsOK
<1>7. SessionsSound' /\ OneOfAKind' /\ Undisturbed'
  BY <1>2 DEF SessionsSound, OneOfAKind, At, Undisturbed, On, NoWork
<1>8. Rendering' /\ Gone' /\ VideosAreWatched'
  BY <1>2, <1>4 DEF Rendering, AboutToName, At, NoWork, Gone, VideosAreWatched
<1> QED BY <1>3, <1>5, <1>6, <1>7, <1>8

\* The run starts with all its media queued, or fails with some of them queued.
LEMMA ExecuteKeeps ==
    ASSUME MediaAssumption, RunInv, NEW s \in MediaSessions, NEW ms \in SUBSET Media,
           Execute(s, ms) \/ ExecuteFails(s, ms)
    PROVE  RunInv'
<1> USE DEF RunInv
<1>1. /\ run = "QUEUED" /\ Enqueue(ms)
      /\ UNCHANGED <<named, assets, raises, polling, render, overdue, work, mediaAsks, mediaFaults,
                     crossed, orphaned, regenerated, withdrawn, watch, overlapped>>
  BY DEF Execute, ExecuteFails
<1>2. MediaInv' /\ \A m \in Media : media'[m] = IF m \in ms THEN "queued" ELSE "absent"
  BY <1>1, StartKeeps
<1>3. \A t \in MediaSessions : watch'[t] = NoWatch
  BY <1>1 DEF Phases
<1>4. RunTypeOK'
  BY <1>1 DEF Execute, ExecuteFails, RunTypeOK, StageStates, MediaJobStates
<1>5. /\ run' \in {"READY", "GENERATING", "FAILED"}
      /\ run' = "READY" => ms = {} /\ \A k \in MediaKinds : stages'[k] = "FAILED"
      /\ run' = "GENERATING" => \A k \in MediaKinds : stages'[k] = "FAILED" => OfKind(k) \cap ms = {}
  BY DEF Execute, ExecuteFails
<1>6. Phases'
  BY <1>1, <1>3, <1>5 DEF Phases
<1>7. CountsStand'
  <2>1. \A m \in Media : m \notin ms => Quiet(m)'
    BY <1>2 DEF Quiet
  <2>2. \A k \in MediaKinds : OfKind(k) \subseteq Media
    BY DEF OfKind, MediaAssumption
  <2> QED BY <1>3, <1>5, <2>1, <2>2 DEF CountsStand, OfKind
<1> QED BY <1>2, <1>4, <1>6, <1>7

\* A session counts: a medium that is not outstanding is quiet, and so is one
\* of a stage that is not counted again.
LEMMA CountKeeps ==
    ASSUME MediaAssumption, RunInv, NEW s \in MediaSessions, NEW by \in {"job", "view"}, Count(s, by)
    PROVE  RunInv'
<1> USE DEF RunInv
<1> DEFINE over == \A k \in MediaKinds : Counted(k) => Outstanding(k) = {}
           counts == [k \in MediaKinds |-> StageOf(k)]
           w == [by |-> by, counts |-> counts, ready |-> over,
                 promote |-> over /\ review = "GENERATING"]
<1>1. /\ run = "GENERATING"
      /\ watch'[s] = w /\ DOMAIN watch' = MediaSessions
      /\ \A t \in MediaSessions : t # s => watch'[t] = watch[t]
      /\ overlapped' = (overlapped \/ \E t \in MediaSessions : watch[t] # NoWatch)
      /\ UNCHANGED <<mediaRows, render, overdue, work, mediaFaults, crossed, orphaned, regenerated,
                     withdrawn, run, stages, review, recount, hourSpent>>
  BY DEF Count, Phases
<1>2. MediaInv'
  <2>1. mediaAsks' \in 0..MaxMediaAsks
    BY DEF Count, MediaInv, MediaTypeOK, MediaAssumption
  <2> QED BY <1>1, <2>1 DEF mediaRows, MediaInv, MediaTypeOK, RowsOK, SessionsSound, Sound, OneOfAKind,
             At, Undisturbed, On, Rendering, AboutToName, Gone, VideosAreWatched
<1>3. counts \in [MediaKinds -> StageStates]
  BY DEF StageOf, RunTypeOK, StageStates
<1>4. \A m \in Media : Quiet(m) <=> Quiet(m)'
  BY <1>1 DEF Quiet, mediaRows
<1>5. \A k \in MediaKinds :
        Outstanding(k) = {} \/ ~ Counted(k) => \A m \in OfKind(k) : m \in Media /\ Quiet(m)
  BY <1>1 DEF CountsStand, Outstanding, Counted, Quiet, OfKind, MediaAssumption
<1>6. over => /\ \A m \in Media : Quiet(m)
              /\ \A k \in MediaKinds : counts[k] # "RUNNING"
  <2> SUFFICES ASSUME over
               PROVE  /\ \A m \in Media : Quiet(m)
                      /\ \A k \in MediaKinds : counts[k] # "RUNNING"
    OBVIOUS
  <2>1. \A m \in Media : \E k \in MediaKinds : m \in OfKind(k)
    BY DEF MediaKinds, OfKind
  <2> QED BY <1>5, <2>1 DEF StageOf, Counted
<1>7. \A k \in MediaKinds : counts[k] = "FAILED" => \A m \in OfKind(k) : m \in Media /\ Quiet(m)
  BY <1>5 DEF StageOf
<1>8. RunTypeOK'
  <2>1. \A t \in MediaSessions : watch'[t] = NoWatch \/
           watch'[t] \in [by : {"job", "view"}, counts : [MediaKinds -> StageStates],
                         ready : BOOLEAN, promote : BOOLEAN]
    <3>1. w \in [by : {"job", "view"}, counts : [MediaKinds -> StageStates],
                 ready : BOOLEAN, promote : BOOLEAN]
      BY <1>3
    <3> QED BY <1>1, <3>1 DEF RunTypeOK
  <2> QED BY <1>1, <2>1 DEF RunTypeOK
<1>9. w # NoWatch /\ w.ready = over /\ w.counts = counts
  BY DEF NoWatch
<1> HIDE DEF w, over, counts
<1>10. Phases'
  BY <1>1, <1>9 DEF Phases
<1>11. CountsStand'
  <2>1. \A k \in MediaKinds : \A m \in OfKind(k) : m \in Media
    BY DEF OfKind, MediaAssumption
  <2> QED BY <1>1, <1>4, <1>6, <1>7, <1>9, <2>1 DEF CountsStand, OfKind
<1> QED BY <1>2, <1>8, <1>10, <1>11

\* What a session counted stands when it commits it.
LEMMA CommitCountKeeps ==
    ASSUME MediaAssumption, RunInv, NEW s \in MediaSessions, CommitCount(s)
    PROVE  RunInv'
<1> USE DEF RunInv
<1> DEFINE w == watch[s]
<1>1. /\ w # NoWatch
      /\ w \in [by : {"job", "view"}, counts : [MediaKinds -> StageStates],
               ready : BOOLEAN, promote : BOOLEAN]
      /\ run \in {"GENERATING", "READY"}
  BY DEF CommitCount, RunTypeOK, Phases
<1>2. /\ UNCHANGED <<mediaVars, hourSpent, overlapped>>
      /\ watch'[s] = NoWatch /\ DOMAIN watch' = MediaSessions
      /\ \A t \in MediaSessions : t # s => watch'[t] = watch[t]
      /\ stages' = w.counts
      /\ run' = IF w.ready THEN "READY" ELSE run
      /\ review' = IF w.promote THEN "READY" ELSE review
      /\ recount' \in {"done", "over", "queued", recount}
  BY DEF CommitCount, NextAttempt, Phases
<1>3. /\ w.ready => /\ \A m \in Media : Quiet(m)
                    /\ \A k \in MediaKinds : w.counts[k] # "RUNNING"
      /\ \A k \in MediaKinds : w.counts[k] = "FAILED" => \A m \in OfKind(k) : Quiet(m)
  BY <1>1 DEF CountsStand
<1> HIDE DEF w
<1>4. MediaInv'
  BY <1>2 DEF mediaVars, MediaInv, MediaTypeOK, RowsOK, SessionsSound, Sound, OneOfAKind, At,
     Undisturbed, On, Rendering, AboutToName, Gone, VideosAreWatched
<1>5. \A m : Quiet(m) <=> Quiet(m)'
  BY <1>2 DEF Quiet, mediaVars
<1>6. RunTypeOK'
  BY <1>1, <1>2 DEF RunTypeOK, MediaJobStates
<1>7. Phases'
  <2>1. run' \in {"GENERATING", "READY"}
    BY <1>1, <1>2
  <2>2. ~ overlapped => \A t \in MediaSessions : watch'[t] = NoWatch
    BY <1>1, <1>2 DEF Phases, w
  <2>3. ~ overlapped => run = "GENERATING"
    BY <1>1 DEF Phases, w
  <2> QED BY <1>2, <1>3, <2>1, <2>2, <2>3 DEF Phases
<1>8. CountsStand'
  <2>1. run' = "READY" => \A m \in Media : Quiet(m)
    BY <1>2, <1>3 DEF CountsStand
  <2>2. ASSUME NEW t \in MediaSessions, watch'[t] # NoWatch
        PROVE  watch'[t] = watch[t] /\ watch[t] # NoWatch
    BY <1>2, <2>2
  <2> QED BY <1>2, <1>3, <1>5, <2>1, <2>2 DEF CountsStand
<1> QED BY <1>4, <1>6, <1>7, <1>8

\* A count that is lost, and an hour that passes, leave rows and stages alone.
LEMMA NothingCounted ==
    ASSUME MediaAssumption, RunInv,
           HourPasses \/ \E s \in MediaSessions, raised \in BOOLEAN : LoseCount(s, raised)
    PROVE  RunInv'
<1> USE DEF RunInv
<1>1. /\ UNCHANGED <<mediaRows, render, overdue, work, mediaAsks, crossed, orphaned, regenerated,
                     withdrawn, run, stages, review, overlapped>>
      /\ recount' \in {recount, "failed"}
      /\ hourSpent' \in BOOLEAN
      /\ mediaFaults' \in 0..MaxMediaFaults
  <2>1. mediaFaults \in 0..MaxMediaFaults /\ hourSpent \in BOOLEAN
    BY DEF MediaInv, MediaTypeOK, RunTypeOK
  <2>2. mediaFaults' \in 0..MaxMediaFaults
    BY <2>1 DEF HourPasses, LoseCount, mediaVars, MediaAssumption
  <2> QED BY <2>1, <2>2 DEF HourPasses, LoseCount, mediaVars, mediaRows
<1>2. /\ DOMAIN watch' = MediaSessions
      /\ \A t \in MediaSessions : watch'[t] \in {watch[t], NoWatch}
  BY DEF HourPasses, LoseCount, Phases
<1>3. MediaInv'
  BY <1>1, <1>2 DEF mediaRows, MediaInv, MediaTypeOK, RowsOK, SessionsSound, Sound, OneOfAKind, At,
     Undisturbed, On, Rendering, AboutToName, Gone, VideosAreWatched
<1>4. RunTypeOK'
  BY <1>1, <1>2 DEF RunTypeOK, MediaJobStates
<1>5. Phases'
  BY <1>1, <1>2 DEF Phases, mediaRows
<1>6. CountsStand'
  <2>1. \A m : Quiet(m) <=> Quiet(m)'
    BY <1>1, <1>2 DEF Quiet, mediaRows
  <2>2. ASSUME NEW t \in MediaSessions, watch'[t] # NoWatch
        PROVE  watch'[t] = watch[t] /\ watch[t] # NoWatch
    BY <1>1, <1>2, <2>2
  <2> QED BY <1>1, <1>2, <2>1, <2>2 DEF CountsStand
<1> QED BY <1>3, <1>4, <1>5, <1>6

\* While the media go on, what was counted as settled stays settled.
LEMMA MediaStepKeeps ==
    ASSUME MediaAssumption, RunInv, MediaStep
    PROVE  RunInv'
<1> USE DEF RunInv
<1>1. MediaNext /\ UNCHANGED campaignVars
  BY DEF MediaStep
<1>2. MediaInv'
  BY <1>1, MediaKeeps
<1>3. \A m \in Media : (media[m] = "absent" => media'[m] = "absent") /\ (Quiet(m) => Quiet(m)')
  BY <1>1, QuietStays
<1>4. RunTypeOK' /\ Phases'
  BY <1>1, <1>3 DEF RunTypeOK, Phases, campaignVars
<1>5. CountsStand'
  BY <1>1, <1>3 DEF CountsStand, campaignVars, OfKind, MediaAssumption
<1> QED BY <1>2, <1>4, <1>5

\* The invariant holds before anything has been asked for.
LEMMA RunInvInit == MediaAssumption /\ RunInit => RunInv
<1> SUFFICES ASSUME MediaAssumption, RunInit
             PROVE  RunInv
  OBVIOUS
<1> USE DEF RunInit, MediaInit
<1>1. MediaTypeOK /\ RowsOK
  BY DEF MediaTypeOK, RowsOK, MediaStates, MediaJobStates, MediaAssumption
<1>2. SessionsSound /\ OneOfAKind /\ Undisturbed
  BY DEF SessionsSound, OneOfAKind, At, Undisturbed, On, NoWork
<1>3. Rendering /\ Gone /\ VideosAreWatched
  BY DEF Rendering, Gone, VideosAreWatched, MediaAssumption, At, NoWork
<1>4. RunTypeOK
  BY DEF RunTypeOK, StageStates, MediaJobStates
<1>5. Phases /\ CountsStand
  BY DEF Phases, CountsStand
<1> QED BY <1>1, <1>2, <1>3, <1>4, <1>5 DEF RunInv, MediaInv

\* Every step of the run and of its media keeps it.
LEMMA RunInvKept == MediaAssumption /\ RunInv /\ [RunNext]_runVars => RunInv'
<1> SUFFICES ASSUME MediaAssumption, RunInv, [RunNext]_runVars
             PROVE  RunInv'
  OBVIOUS
<1>1. CASE MediaStep
  BY <1>1, MediaStepKeeps
<1>2. CASE HourPasses
  BY <1>2, NothingCounted
<1>3. ASSUME NEW s \in MediaWorkers, NEW ms \in SUBSET Media, Execute(s, ms) \/ ExecuteFails(s, ms)
      PROVE  RunInv'
  BY <1>3, ExecuteKeeps DEF MediaSessions
<1>4. ASSUME NEW s \in MediaSessions, Count(s, "job") \/ Count(s, "view")
      PROVE  RunInv'
  BY <1>4, CountKeeps
<1>5. ASSUME NEW s \in MediaSessions, CommitCount(s) \/ \E raised \in BOOLEAN : LoseCount(s, raised)
      PROVE  RunInv'
  BY <1>5, CommitCountKeeps, NothingCounted
<1>6. CASE UNCHANGED runVars
  BY <1>6 DEF runVars, mediaVars, campaignVars, RunInv, MediaInv, MediaTypeOK, RowsOK, SessionsSound, Sound,
     OneOfAKind, At, Undisturbed, On, Rendering, AboutToName, Gone, VideosAreWatched,
     RunTypeOK, Phases, CountsStand, Quiet
<1> QED BY <1>1, <1>2, <1>3, <1>4, <1>5, <1>6 DEF RunNext, MediaSessions

-----------------------------------------------------------------------------
(* What holds of every behaviour.                                          *)

\* The inductive invariant of the run and its media.
THEOREM CampaignInvariance == RunSpec => []RunInv
<1>1. MediaAssumption
  BY MediaAssumption
<1>2. RunInit => RunInv
  BY <1>1, RunInvInit
<1>3. RunInv /\ [RunNext]_runVars => RunInv'
  BY <1>1, RunInvKept
<1> QED BY <1>2, <1>3, PTL DEF RunSpec

\* The columns of the media rows, of the sessions and of the run have their types.
THEOREM CampaignTypes == RunSpec => [](MediaTypeOK /\ RunTypeOK)
<1>1. RunInv => MediaTypeOK /\ RunTypeOK
  BY DEF RunInv, MediaInv
<1> QED BY <1>1, CampaignInvariance, PTL

\* A medium that no two sessions had loaded at once is billed once, however
\* often its job is retried.
THEOREM EachMediumIsBilledOnce == RunSpec => []BilledOnce
<1>1. RunInv => BilledOnce
  BY DEF RunInv, MediaInv, BilledOnce, RowsOK, MediaTypeOK
<1> QED BY <1>1, CampaignInvariance, PTL

\* What was cancelled with nothing else going on stays cancelled, unbilled, and
\* is not rendered any longer.
THEOREM CancellationIsFinal == RunSpec => []CancelledIsOver
<1>1. RunInv => CancelledIsOver
  BY DEF RunInv, MediaInv, CancelledIsOver, Gone
<1> QED BY <1>1, CampaignInvariance, PTL

\* A video in progress has a poll to come, or one that raised; or two sessions
\* had its row.
THEOREM VideosStayWatched == RunSpec => []VideosAreWatched
<1>1. RunInv => VideosAreWatched
  BY DEF RunInv, MediaInv
<1> QED BY <1>1, CampaignInvariance, PTL

\* A run is ready for review with all its media settled, but for those that were
\* generated after their cancellation or that two sessions had loaded.
THEOREM ReadyIsSettled == RunSpec => []ReadyMeansSettled
<1>1. RunInv => ReadyMeansSettled
  BY DEF RunInv, ReadyMeansSettled, CountsStand, Quiet, Phases
<1> QED BY <1>1, CampaignInvariance, PTL

-----------------------------------------------------------------------------
(* What a run still waits for is in somebody's hands: the safety half of   *)
(* RunsFinish.  Weak fairness only helps who is not forgotten.             *)

\* A background job that is queued, or that a session has taken, will look at
\* the medium.
HasJob(m) == generation[m] = "queued" \/ (m \in named /\ polling[m] = "queued")

\* While a run is generating and not stuck, its counting job is queued and so is
\* a job for every medium that has not settled.
GeneratingIsDriven ==
    run = "GENERATING" =>
        \/ Stuck
        \/ /\ recount = "queued"
           /\ \A m \in Media : media[m] \notin Settled \cup {"absent"} => HasJob(m)

\* Statuses a medium can have before its generation job has ended.
Unrendered == {"queued", "cancelled"} \cup InProgress

\* A session has loaded a medium that was waiting as waiting, and ends the
\* generation of an image only with its outcome.
Tends(s, m) ==
    /\ media[m] = "queued" => work[s].seen = "queued"
    /\ work[s].op = "generate" =>
         /\ work[s].seen \in Unrendered /\ work[s].left # "cancelled"
         /\ work[s].job = "done" /\ m \notin Videos => work[s].left \in {"completed", "failed"}

\* A medium in progress whose generation job has ended, and has not failed, has a
\* provider_job_id.
Tended ==
    \A m \in Media :
        /\ generation[m] = "queued" => media[m] \in Unrendered
        /\ media[m] = "queued" => generation[m] = "queued"
        /\ media[m] \in InProgress /\ generation[m] \notin {"queued", "failed"} => m \in named
        /\ \A s \in MediaSessions : On(s, m) => Tends(s, m)

Followed == run = "GENERATING" => recount \in {"queued", "failed", "over"}

\* A step that leaves the rows alone, and gives one session at most a row that
\* it tends.
LEMMA RowsStayTended ==
    ASSUME MediaInv, Tended, UNCHANGED mediaRows, NEW s \in MediaSessions,
           \A t \in MediaSessions \ {s} : work'[t] = work[t],
           \A m \in Media : On(s, m)' => Tends(s, m)'
    PROVE  Tended'
<1>1. \A m \in Media : \A t \in MediaSessions : On(t, m)' => Tends(t, m)'
  <2> SUFFICES ASSUME NEW m \in Media, NEW t \in MediaSessions, On(t, m)', t # s
               PROVE  Tends(t, m)'
    OBVIOUS
  <2>1. work'[t] = work[t] /\ UNCHANGED media
    BY DEF mediaRows
  <2>2. On(t, m)
    BY <2>1 DEF On
  <2>3. Tends(t, m)
    BY <2>2 DEF Tended
  <2> QED BY <2>1, <2>3 DEF Tends
<1> QED BY <1>1 DEF Tended, mediaRows

\* Loading a row.
LEMMA LoadTends ==
    ASSUME MediaInv, Tended, UNCHANGED mediaRows, NEW s \in MediaSessions, NEW m \in Media,
           NEW op \in {"generate", "poll", "view", "cancel"},
           op = "generate" => generation[m] = "queued",
           LoadMedia(s, m, Working(op, m))
    PROVE  Tended'
<1>1. DOMAIN work = MediaSessions
  BY DEF MediaInv, RowsOK
<1>2. /\ work'[s] = Working(op, m)
      /\ \A t \in MediaSessions \ {s} : work'[t] = work[t]
  BY <1>1 DEF LoadMedia
<1>3. ASSUME NEW k \in Media, On(s, k)'
      PROVE  Tends(s, k)'
  <2>1. k = m
    BY <1>2, <1>3 DEF On, Working
  <2>2. op = "generate" => media[m] \in Unrendered
    BY DEF Tended
  <2> QED BY <1>2, <2>1, <2>2 DEF Tends, Working, mediaRows
<1> QED BY <1>2, <1>3, RowsStayTended

\* A handler gives its row a status.
LEMMA LeaveTends ==
    ASSUME MediaInv, Tended, UNCHANGED mediaRows, NEW s \in MediaSessions, NEW end, NEW job,
           work[s] # NoWork, Leave(s, end, job),
           work[s].op = "generate" =>
               /\ end # "cancelled"
               /\ job = "done" /\ work[s].on \notin Videos => end \in {"completed", "failed"}
    PROVE  Tended'
<1>1. work[s] \in Loaded /\ DOMAIN work = MediaSessions
  BY Held DEF MediaInv, RowsOK
<1>2. /\ work'[s] = [work[s] EXCEPT !.left = end, !.job = job]
      /\ \A t \in MediaSessions \ {s} : work'[t] = work[t]
  BY <1>1 DEF Leave
<1>3. /\ work'[s].op = work[s].op /\ work'[s].on = work[s].on /\ work'[s].seen = work[s].seen
      /\ work'[s].left = end /\ work'[s].job = job
  BY <1>1, <1>2 DEF Loaded
<1>4. ASSUME NEW k \in Media, On(s, k)'
      PROVE  Tends(s, k)'
  <2>1. On(s, k) /\ k = work[s].on
    BY <1>3, <1>4 DEF On
  <2>2. Tends(s, k)
    BY <2>1 DEF Tended
  <2> QED BY <1>3, <2>1, <2>2 DEF Tends, mediaRows
<1> QED BY <1>2, <1>4, RowsStayTended

\* A session ends, with or without its commit.
LEMMA DropTends ==
    ASSUME MediaInv, Tended, NEW s \in MediaSessions, DropMedia(s)
    PROVE  Tended'
<1>1. UNCHANGED mediaRows /\ DOMAIN work = MediaSessions
  BY DEF DropMedia, MediaInv, RowsOK
<1>2. work'[s] = NoWork /\ \A t \in MediaSessions \ {s} : work'[t] = work[t]
  BY <1>1 DEF DropMedia
<1>3. \A k \in Media : ~ On(s, k)'
  BY <1>2 DEF On, NoWork
<1> QED BY <1>1, <1>2, <1>3, RowsStayTended

LEMMA CommitTends ==
    ASSUME MediaInv, Tended, NEW s \in MediaSessions, CommitMedia(s)
    PROVE  Tended'
<1> DEFINE w == work[s]
           m == work[s].on
<1>1. w \in Loaded /\ w.left # "none" /\ Sound(w) /\ m \in Media /\ DOMAIN work = MediaSessions
  BY Held DEF CommitMedia, SessionsSound, MediaInv, RowsOK, Loaded
<1>2. /\ media' = IF Unwritten(w) THEN media ELSE [media EXCEPT ![m] = w.left]
      /\ named' = IF w.op = "generate" /\ m \in Videos /\ w.job = "done" /\ w.left \in InProgress
                  THEN named \cup {m} ELSE named
      /\ generation' = IF w.op = "generate" THEN [generation EXCEPT ![m] = w.job] ELSE generation
      /\ work' = [work EXCEPT ![s] = NoWork]
  BY DEF CommitMedia
<1>3. On(s, m) /\ Tends(s, m)
  BY <1>1 DEF On, Loaded, Tended
<1>4. DOMAIN media = Media /\ DOMAIN generation = Media
  BY DEF MediaInv, MediaTypeOK
<1>5. /\ media'[m] \in {media[m], w.left}
      /\ media'[m] = media[m] => Unwritten(w) \/ w.left = media[m]
      /\ \A k \in Media \ {m} : media'[k] = media[k] /\ generation'[k] = generation[k]
      /\ generation'[m] = IF w.op = "generate" THEN w.job ELSE generation[m]
      /\ named \subseteq named'
      /\ \A t \in MediaSessions \ {s} : work'[t] = work[t]
      /\ work'[s] = NoWork
  <2> HIDE DEF w, m
  <2> QED BY <1>1, <1>2, <1>4 DEF w, m
<1>6. w.left \in InProgress \cup Settled
  BY <1>1 DEF Sound
<1>7. media'[m] = "queued" => (media[m] = "queued" /\ ~ Unwritten(w)) \/ media'[m] = media[m]
  BY <1>5, <1>6 DEF InProgress, Settled
<1>8. media'[m] = "queued" => FALSE
  <2> SUFFICES ASSUME media'[m] = "queued" PROVE FALSE
    OBVIOUS
  <2>1. media[m] = "queued" /\ w.left # "queued"
    BY <1>5, <1>6 DEF InProgress, Settled
  <2>2. Unwritten(w)
    BY <1>5, <2>1
  <2>3. w.seen = "queued"
    BY <1>3, <2>1 DEF Tends
  <2> QED BY <2>1, <2>2, <2>3 DEF Unwritten
<1>9. generation'[m] = "queued" => media'[m] \in Unrendered
  <2> SUFFICES ASSUME generation'[m] = "queued" PROVE media'[m] \in Unrendered
    OBVIOUS
  <2>1. CASE w.op = "generate"
    <3>1. generation[m] = "queued" /\ w.left \in InProgress
      BY <1>1, <1>5, <2>1 DEF Sound
    <3> QED BY <1>1, <1>5, <3>1 DEF Tended, Unrendered
  <2>2. CASE w.op = "cancel"
    <3>1. w.left = "cancelled" /\ generation[m] = "queued"
      BY <1>1, <1>5, <2>2 DEF Sound
    <3> QED BY <1>1, <1>5, <3>1 DEF Tended, Unrendered
  <2>3. CASE w.op \in {"poll", "view"}
    <3>1. m \in named
      BY <1>1, <2>3 DEF Sound
    <3>2. generation[m] = "done"
      BY <1>1, <3>1 DEF MediaInv, RowsOK
    <3> QED BY <1>5, <2>3, <3>2
  <2> QED BY <1>1, <2>1, <2>2, <2>3 DEF Loaded
<1>10. media'[m] \in InProgress /\ generation'[m] \notin {"queued", "failed"} => m \in named'
  <2> SUFFICES ASSUME media'[m] \in InProgress, generation'[m] \notin {"queued", "failed"}
               PROVE  m \in named'
    OBVIOUS
  <2>1. CASE w.op = "generate"
    <3>1. w.job = "done"
      BY <1>1, <1>5, <2>1 DEF Sound
    <3>2. w.left \in InProgress
      <4>1. w.seen \in Unrendered /\ w.left # "cancelled"
        BY <1>3, <2>1 DEF Tends
      <4>2. Unwritten(w) => w.left \in InProgress
        BY <1>6, <4>1 DEF Unwritten, Unrendered, Settled, InProgress
      <4>3. Unwritten(w) \/ media'[m] = w.left
        BY <1>2, <1>4, <1>1
      <4> QED BY <4>2, <4>3
    <3>3. m \in Videos
      BY <1>1, <1>3, <2>1, <3>1, <3>2 DEF Tends, InProgress
    <3> QED BY <1>2, <2>1, <3>1, <3>2, <3>3
  <2>2. CASE w.op = "cancel"
    <3>1. media[m] \in InProgress /\ generation[m] \notin {"queued", "failed"}
      BY <1>1, <1>5, <2>2 DEF Sound, InProgress
    <3> QED BY <1>1, <1>5, <3>1 DEF Tended
  <2>3. CASE w.op \in {"poll", "view"}
    BY <1>1, <1>5, <2>3 DEF Sound
  <2> QED BY <1>1, <2>1, <2>2, <2>3 DEF Loaded
<1>11. ASSUME NEW k \in Media, NEW t \in MediaSessions, On(t, k)'
       PROVE  Tends(t, k)'
  <2>1. t # s
    BY <1>5, <1>11 DEF On, NoWork
  <2>2. work'[t] = work[t]
    BY <1>5, <2>1
  <2>3. On(t, k)
    BY <1>11, <2>2 DEF On
  <2>4. Tends(t, k)
    BY <2>3 DEF Tended
  <2>5. media'[k] = "queued" => media[k] = "queued"
    BY <1>5, <1>8
  <2> QED BY <2>2, <2>4, <2>5 DEF Tends
<1>12. ASSUME NEW k \in Media \ {m}
       PROVE  /\ generation'[k] = "queued" => media'[k] \in Unrendered
              /\ media'[k] = "queued" => generation'[k] = "queued"
              /\ media'[k] \in InProgress /\ generation'[k] \notin {"queued", "failed"} => k \in named'
  BY <1>5, <1>12 DEF Tended
<1> HIDE DEF w, m
<1> QED BY <1>8, <1>9, <1>10, <1>11, <1>12 DEF Tended

LEMMA MediaTend ==
    ASSUME MediaAssumption, MediaInv, Tended, MediaNext
    PROVE  Tended'
<1>a. MediaWorkers \subseteq MediaSessions /\ MediaUsers \subseteq MediaSessions /\ Videos \subseteq Media
  BY DEF MediaSessions, MediaAssumption
<1>b. \A s \in MediaSessions : work[s] # NoWork => work[s] \in Loaded
  BY DEF MediaInv, MediaTypeOK
<1>1. ASSUME NEW s \in MediaSessions, Proceed(s)
      PROVE  Tended'
  <2>1. CASE CommitMedia(s)
    BY <2>1, CommitTends
  <2>2. CASE CancelRow(s) \/ PollEnds(s) \/ \E st \in MediaStates : PollVideo(s, st)
    <3>1. work[s] # NoWork /\ work[s].op # "generate" /\ UNCHANGED mediaRows
      BY <2>2 DEF CancelRow, PollEnds, PollVideo, MayWrite, NoWork
    <3>2. PICK end, job : Leave(s, end, job)
      BY <2>2 DEF CancelRow, PollEnds, PollVideo
    <3> QED BY <3>1, <3>2, LeaveTends
  <2>3. ASSUME NEW st \in MediaStates, Paint(s, st)
        PROVE  Tended'
    <3>1. work[s] # NoWork /\ Leave(s, st, "done") /\ UNCHANGED mediaRows /\ st \in {"completed", "failed"}
      BY <2>3 DEF Paint, MayWrite, NoWork
    <3> QED BY <3>1, LeaveTends
  <2>4. ASSUME NEW st \in MediaStates, NEW accepted \in BOOLEAN, Submit(s, st, accepted)
        PROVE  Tended'
    <3>1. work[s] # NoWork /\ Leave(s, st, "done") /\ UNCHANGED mediaRows
          /\ work[s].on \in Videos /\ st # "cancelled"
      BY <2>4 DEF Submit, MayWrite, NoWork
    <3> QED BY <3>1, LeaveTends
  <2> QED BY <1>1, <2>1, <2>2, <2>3, <2>4 DEF Proceed
<1>2. ASSUME NEW s \in MediaSessions, PollRaises(s) \/ \E accepted \in BOOLEAN : GenerationRaises(s, accepted)
      PROVE  Tended'
  <2>1. CASE PollRaises(s)
    <3>1. work[s] # NoWork /\ UNCHANGED mediaRows /\ Leave(s, "processing", "failed")
      BY <2>1 DEF PollRaises, MayWrite, NoWork
    <3> QED BY <3>1, LeaveTends
  <2>2. ASSUME NEW accepted \in BOOLEAN, GenerationRaises(s, accepted)
        PROVE  Tended'
    <3>1. work[s] # NoWork /\ UNCHANGED mediaRows
      BY <2>2 DEF GenerationRaises, MayWrite, NoWork
    <3>2. PICK end \in InProgress, job \in {"queued", "failed"} : Leave(s, end, job)
      BY <2>2 DEF GenerationRaises, NextTry, InProgress
    <3> QED BY <3>1, <3>2, LeaveTends DEF InProgress
  <2> QED BY <1>2, <2>1, <2>2
<1>3. ASSUME NEW s \in MediaSessions, DropMedia(s)
      PROVE  Tended'
  BY <1>3, DropTends
<1>4. ASSUME NEW s \in MediaSessions, NEW m \in Media,
             TakeGeneration(s, m) \/ TakePoll(s, m) \/ Cancel(s, m) \/ View(s, m)
      PROVE  Tended'
  <2>1. /\ UNCHANGED mediaRows
        /\ \E op \in {"generate", "poll", "view", "cancel"} :
              /\ op = "generate" => generation[m] = "queued"
              /\ LoadMedia(s, m, Working(op, m))
    BY <1>4 DEF TakeGeneration, TakePoll, Cancel, View, Ask
  <2> QED BY <2>1, LoadTends
<1>5. ASSUME NEW m \in Videos, Deadline(m) \/ \E end \in {"done", "failed"} : Rendered(m, end)
      PROVE  Tended'
  <2>1. UNCHANGED <<mediaRows, work>>
    BY <1>5 DEF Deadline, Rendered
  <2> QED BY <2>1 DEF mediaRows, Tended, On, Tends
<1> QED BY <1>a, <1>1, <1>2, <1>3, <1>4, <1>5 DEF MediaNext

\* The steps of the run queue media that nobody has, or leave them alone, and
\* queue the counting job again unless it has failed or the hour is over.
LEMMA RunTends ==
    ASSUME MediaAssumption, RunInv, Tended, Followed, [RunNext]_runVars
    PROVE  Tended' /\ Followed'
<1>a. UNCHANGED <<mediaRows, work>> => Tended'
  BY DEF mediaRows, Tended, On, Tends
<1>1. CASE MediaStep
  <2>1. MediaNext /\ UNCHANGED campaignVars /\ MediaInv
    BY <1>1 DEF MediaStep, RunInv
  <2> QED BY <2>1, MediaTend DEF campaignVars, Followed
<1>2. ASSUME NEW s \in MediaWorkers, NEW ms \in SUBSET Media, Execute(s, ms) \/ ExecuteFails(s, ms)
      PROVE  Tended' /\ Followed'
  <2>1. /\ run = "QUEUED" /\ Enqueue(ms)
        /\ UNCHANGED <<named, assets, raises, polling, render, overdue, work, mediaAsks, mediaFaults,
                       crossed, orphaned, regenerated, withdrawn>>
    BY <1>2 DEF Execute, ExecuteFails
  <2>2. /\ MediaInv'
        /\ \A m \in Media : media'[m] = IF m \in ms THEN "queued" ELSE "absent"
    BY <2>1, StartKeeps
  <2>3. \A m \in Media : generation'[m] = IF m \in ms THEN "queued" ELSE generation[m]
    BY <2>1 DEF Enqueue
  <2>4. \A m \in Media : m \notin ms => generation'[m] = "none"
    BY <2>2 DEF MediaInv, RowsOK
  <2>5. ASSUME NEW t \in MediaSessions, NEW m \in Media
        PROVE  ~ On(t, m)'
    <3>1. \A k \in Media : media[k] = "absent"
      BY <2>1 DEF RunInv, Phases
    <3>2. work[t] = NoWork
      <4>1. work[t] # NoWork => work[t] \in Loaded /\ Sound(work[t])
        BY Held DEF RunInv, MediaInv, SessionsSound
      <4> QED BY <3>1, <4>1 DEF Sound, Loaded
    <3> QED BY <2>1, <3>2 DEF On, NoWork
  <2>6. Tended'
    BY <2>2, <2>3, <2>4, <2>5 DEF Tended, Unrendered, InProgress
  <2>7. Followed'
    BY <1>2 DEF Execute, ExecuteFails, Followed
  <2> QED BY <2>6, <2>7
<1>3. ASSUME NEW s \in MediaSessions, Count(s, "job") \/ Count(s, "view")
      PROVE  Tended' /\ Followed'
  BY <1>a, <1>3 DEF Count, Followed
<1>4. ASSUME NEW s \in MediaSessions,
             CommitCount(s) \/ \E raised \in BOOLEAN : LoseCount(s, raised)
      PROVE  Tended' /\ Followed'
  <2>1. UNCHANGED <<mediaRows, work>>
    BY <1>4 DEF CommitCount, LoseCount, mediaVars, mediaRows
  <2>2. run' = "GENERATING" => run = "GENERATING"
    BY <1>4 DEF CommitCount, LoseCount
  <2>3. run' = "GENERATING" => recount' \in {"queued", "over", "failed", recount}
    BY <1>4 DEF CommitCount, LoseCount, NextAttempt
  <2> QED BY <1>a, <2>1, <2>2, <2>3 DEF Followed
<1>5. CASE HourPasses \/ UNCHANGED runVars
  BY <1>a, <1>5 DEF HourPasses, runVars, mediaVars, campaignVars, mediaRows, Followed
<1> QED BY <1>1, <1>2, <1>3, <1>4, <1>5 DEF RunNext, MediaSessions

\* A run that is generating and not stuck has its counting job queued, and a job
\* for every medium it still waits for: what RunsFinish needs of the code, besides
\* workers that go on.  A medium whose generation job has used up its attempts is
\* the one way to be forgotten that nobody reports.
THEOREM NoRunIsForgotten == RunSpec => []GeneratingIsDriven
<1>1. MediaAssumption
  BY MediaAssumption
<1>2. RunInit => Tended /\ Followed
  BY DEF RunInit, MediaInit, Tended, On, NoWork, Followed, InProgress
<1>3. RunInv /\ Tended /\ Followed => GeneratingIsDriven
  <2> SUFFICES ASSUME RunInv, Tended, Followed, run = "GENERATING", ~ Stuck
               PROVE  /\ recount = "queued"
                      /\ \A m \in Media : media[m] \notin Settled \cup {"absent"} => HasJob(m)
    BY DEF GeneratingIsDriven
  <2>1. recount = "queued"
    BY DEF Followed, Stuck
  <2>2. ASSUME NEW m \in Media, media[m] \notin Settled \cup {"absent"}, generation[m] # "queued"
        PROVE  m \in named /\ polling[m] = "queued"
    <3>1. media[m] \in InProgress /\ m \in named
      BY <2>2 DEF Stuck, Tended, RunInv, MediaInv, MediaTypeOK, MediaStates
    <3>2. m \in Videos /\ polling[m] \in MediaJobStates /\ polling[m] # "none"
      BY <3>1 DEF RunInv, MediaInv, MediaTypeOK, RowsOK
    <3>3. polling[m] \notin {"done", "failed"}
      BY <3>1 DEF Stuck
    <3> QED BY <3>1, <3>2, <3>3 DEF MediaJobStates
  <2> QED BY <2>1, <2>2 DEF HasJob
<1>4. RunInv /\ Tended /\ Followed /\ [RunNext]_runVars => Tended' /\ Followed'
  BY <1>1, RunTends
<1> QED BY <1>2, <1>3, <1>4, CampaignInvariance, PTL DEF RunSpec
=============================================================================
