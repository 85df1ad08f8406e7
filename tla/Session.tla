------------------------------ MODULE Session ------------------------------
(***************************************************************************)
(* One editing session: the asynchronous work that changes which document   *)
(* is loaded, or what is in it, composed with the playback transport that   *)
(* sounds it.                                                               *)
(*                                                                          *)
(*   - the wholesale loaders and audio-track loads of JotEditorPresenter    *)
(*     (frontend/src/editing/jot_editor_presenter.ts), which fire           *)
(*     SessionReset (session_reset.ts) and swap the document;               *)
(*   - the transcribe flows of TranscribePresenter (transcribe_presenter.ts):*)
(*     append into the current document, resume and replace it;             *)
(*   - the stem split of MixerPresenter (mixer/mixer_presenter.ts).         *)
(*                                                                          *)
(* A job is one such call between its first await and its end.  It carries  *)
(* the document that was loaded when the user asked for it; nothing in the  *)
(* code does, which is what the leak property is about.                     *)
(***************************************************************************)
EXTENDS Transport

CONSTANTS
    JobIds,   \* bound: jobs in flight at once: 1 .. n
    NoJob,    \* a free slot, and an absent AbortController
    MaxActs   \* bound: user gestures in a behaviour

VARIABLES
    jobs,          \* the calls in flight
    loadingCount,  \* jotEditorStore.loadingCount: the modal overlay is up when > 0
    trackCtl,      \* trackControllers: track id -> the job that owns it
    trackStatuses, \* transcribe.trackStatuses: tracks showing a spinner
    replaceCtl,    \* replaceController
    replaceStatus, \* transcribe.replaceStatus.phase
    layers,        \* transcriptions merged into the document, by the song asked for
    acts           \* gestures so far

jobVars == <<jobs, loadingCount, trackCtl, trackStatuses, replaceCtl, replaceStatus, layers>>
vars == <<transportVars, jobVars, acts>>

Job == [kind : {"load", "audio", "transcribe", "resume", "split"},
        phase : {"read", "decode", "run", "bytes", "fetch", "unzip"},
        song : Songs, track : TrackIds \cup {0}, aborted : BOOLEAN]

ASSUME JobsAssumption == IsFiniteSet(JobIds) /\ NoJob \notin JobIds /\ \A r \in Job : r # NoJob
ASSUME MaxActsAssumption == MaxActs \in Nat

TypeOK ==
    /\ TransportTypeOK
    /\ jobs \in [JobIds -> Job \cup {NoJob}]
    /\ loadingCount \in 0 .. 2 * Cardinality(JobIds)
    /\ trackCtl \in [TrackIds -> JobIds \cup {NoJob}]
    /\ trackStatuses \subseteq TrackIds
    /\ replaceCtl \in JobIds \cup {NoJob}
    /\ replaceStatus \in {"idle", "uploading"}
    /\ layers \subseteq Songs
    /\ acts \in 0 .. MaxActs

Init ==
    /\ TransportInit
    /\ jobs = [j \in JobIds |-> NoJob]
    /\ loadingCount = 0
    /\ trackCtl = [t \in TrackIds |-> NoJob]
    /\ trackStatuses = {}
    /\ replaceCtl = NoJob
    /\ replaceStatus = "idle"
    /\ layers = {}
    /\ acts = 0

At(j, kind, phase) == jobs[j] # NoJob /\ jobs[j].kind = kind /\ jobs[j].phase = phase

\* The overlay takes every click; the keyboard and file drops go past it.
Clickable == loadingCount = 0

Gesture == acts < MaxActs /\ acts' = acts + 1

-----------------------------------------------------------------------------
(* Starting and ending a job.                                               *)

\* j is the first free slot and takes the job.
Free(j) == jobs[j] = NoJob /\ \A i \in JobIds : i < j => jobs[i] # NoJob
NewJob(kind, phase, t) ==
    [kind |-> kind, phase |-> phase, song |-> song, track |-> t, aborted |-> FALSE]

Abort(js, c) == IF c = NoJob THEN js ELSE [js EXCEPT ![c].aborted = TRUE]

To(j, phase) == jobs' = [jobs EXCEPT ![j].phase = phase]
End(j) == jobs' = [jobs EXCEPT ![j] = NoJob]

\* The wholesale prelude and the install, one runInAction: playback stops, the mixer and
\* its tracks go, the document and its peers are swapped.
Install(sc) ==
    /\ song + 1 \in Songs
    /\ song' = song + 1
    /\ score' = [score EXCEPT ![song + 1] = sc]
    /\ muted' = {}
    /\ tracks' = {}
    /\ player' = React(Stopped(player), {})
    /\ layers' = {}

\* A debug bundle whose MIDI does not convert: the reset stands, the document stays.
ResetOnly ==
    /\ muted' = {}
    /\ tracks' = {}
    /\ player' = React(Stopped(player), {})
    /\ UNCHANGED <<song, score, layers>>

-----------------------------------------------------------------------------
(* Loading documents and audio tracks.                                      *)

\* setJot, loadExample, createNewJot: no await.
LoadExample ==
    /\ Gesture /\ Clickable
    /\ \E sc \in {{}, Lanes} : Install(sc)
    /\ UNCHANGED <<minted, kit, waiting, ctx, ctxQ, overlap>>
    /\ UNCHANGED <<jobs, loadingCount, trackCtl, trackStatuses, replaceCtl, replaceStatus>>

\* loadJotFile, loadMidiFile, loadParadbMap, loadDebugBundleFile up to the first await.
\* A file dropped while another loads goes past the overlay: the last to install stays.
LoadFile(j) ==
    /\ Gesture /\ Free(j)
    /\ jobs' = [jobs EXCEPT ![j] = NewJob("load", "read", 0)]
    /\ loadingCount' = loadingCount + 1
    /\ UNCHANGED <<transportVars, trackCtl, trackStatuses, replaceCtl, replaceStatus, layers>>

\* The file cannot be read, parsed or converted: a toast, the song stays.
LoadEnds(j) == End(j) /\ loadingCount' = loadingCount - 1
LoadFailed(j) ==
    /\ At(j, "load", "read")
    /\ LoadEnds(j)
    /\ UNCHANGED <<transportVars, trackCtl, trackStatuses, replaceCtl, replaceStatus, layers, acts>>

\* It can: reset, install, and the pack's audio, if any, starts to decode under a
\* withLoading of its own.
LoadInstalls(j) ==
    /\ At(j, "load", "read")
    /\ \/ /\ Install(Lanes)
          /\ LoadEnds(j)
          /\ UNCHANGED <<kit, ctx>>
       \/ /\ Install(Lanes) \/ ResetOnly
          /\ jobs' = [jobs EXCEPT ![j].phase = "decode", ![j].song = song']
          /\ loadingCount' = loadingCount + 1
          /\ Preloading
    /\ UNCHANGED <<minted, waiting, ctxQ, overlap, trackCtl, trackStatuses, replaceCtl,
                   replaceStatus, acts>>

\* An audio file dropped on the editor, or added from the menu.
DropAudio(j) ==
    /\ Gesture /\ Free(j)
    /\ jobs' = [jobs EXCEPT ![j] = NewJob("audio", "decode", 0)]
    /\ loadingCount' = loadingCount + 1
    /\ Preloading
    /\ UNCHANGED <<song, score, muted, tracks, minted, waiting, ctxQ, player, overlap,
                   trackCtl, trackStatuses, replaceCtl, replaceStatus, layers>>

\* A decode ends: the track is added, or reported and left out, and the loader that
\* waited for it is done.  How many overlays it held depends on the loader.
MutOverlaysFlat(kind) == CASE kind \in {"load", "audio", "resume"} -> 2 [] OTHER -> 0
Overlays(kind) ==
    CASE kind = "load" -> 2
      [] kind \in {"audio", "resume"} -> 1
      [] kind \in {"split", "transcribe"} -> 0
DecodeEnds(j) ==
    /\ jobs[j] # NoJob /\ jobs[j].phase = "decode"
    /\ \/ TrackInstalled(jobs[j].song)
       \/ UNCHANGED <<minted, tracks, player>>
    /\ End(j)
    /\ loadingCount' = loadingCount - Overlays(jobs[j].kind)
    /\ IF jobs[j].kind = "resume"
         THEN /\ replaceStatus' = "idle"
              /\ replaceCtl' = IF replaceCtl = j THEN NoJob ELSE replaceCtl
         ELSE UNCHANGED <<replaceStatus, replaceCtl>>
    /\ UNCHANGED <<song, score, muted, kit, waiting, ctx, ctxQ, overlap, trackCtl,
                   trackStatuses, layers, acts>>

-----------------------------------------------------------------------------
(* Transcribe a track into the document, and cancel it.                     *)

\* transcribeAudioTrack up to the run: an earlier run of the same track is aborted.
Transcribe(j, t) ==
    /\ Gesture /\ Clickable /\ Free(j)
    /\ t \in Ids(tracks)
    /\ jobs' = [Abort(jobs, trackCtl[t]) EXCEPT ![j] = NewJob("transcribe", "run", t)]
    /\ trackCtl' = [trackCtl EXCEPT ![t] = j]
    /\ trackStatuses' = trackStatuses \cup {t}
    /\ UNCHANGED <<transportVars, loadingCount, replaceCtl, replaceStatus, layers>>

CancelTranscribe(t) ==
    /\ Gesture /\ Clickable
    /\ trackCtl[t] # NoJob
    /\ jobs' = Abort(jobs, trackCtl[t])
    /\ trackCtl' = [trackCtl EXCEPT ![t] = NoJob]
    /\ trackStatuses' = trackStatuses \ {t}
    /\ UNCHANGED <<transportVars, loadingCount, replaceCtl, replaceStatus, layers>>

\* The finally block: only the job that still owns the track tears its status down.
MutSettleAlways(j) ==
    /\ End(j)
    /\ trackCtl' = IF trackCtl[jobs[j].track] = j
                     THEN [trackCtl EXCEPT ![jobs[j].track] = NoJob] ELSE trackCtl
    /\ trackStatuses' = trackStatuses \ {jobs[j].track}
TranscribeSettles(j) ==
    /\ End(j)
    /\ IF trackCtl[jobs[j].track] = j
         THEN /\ trackCtl' = [trackCtl EXCEPT ![jobs[j].track] = NoJob]
              /\ trackStatuses' = trackStatuses \ {jobs[j].track}
         ELSE UNCHANGED <<trackCtl, trackStatuses>>

\* The run resolves (an abort may lose the race with its result) ...
TranscribeResolves(j) ==
    /\ At(j, "transcribe", "run")
    /\ To(j, "bytes")
    /\ UNCHANGED <<transportVars, loadingCount, trackCtl, trackStatuses, replaceCtl,
                   replaceStatus, layers, acts>>

\* ... or it, or reading the MIDI, fails, or the MIDI is missing or does not convert.
TranscribeFails(j) ==
    /\ At(j, "transcribe", "run") \/ At(j, "transcribe", "bytes")
    /\ TranscribeSettles(j)
    /\ UNCHANGED <<transportVars, loadingCount, replaceCtl, replaceStatus, layers, acts>>

\* The bytes are in: unless aborted, mergeAppendedJot appends a layer to whatever document
\* is loaded by now.
MutMergesAborted(j) == TRUE
Merges(j) == ~jobs[j].aborted
TranscribeDone(j) ==
    /\ At(j, "transcribe", "bytes")
    /\ IF Merges(j)
         THEN LET sc == [score EXCEPT ![song] = Lanes] IN
              /\ layers' = layers \cup {jobs[j].song}
              /\ score' = sc
              /\ player' = Seen(player, song, sc)
         ELSE UNCHANGED <<layers, score, player>>
    /\ TranscribeSettles(j)
    /\ UNCHANGED <<song, muted, tracks, minted, kit, waiting, ctx, ctxQ, overlap,
                   loadingCount, replaceCtl, replaceStatus, acts>>

-----------------------------------------------------------------------------
(* Resume an earlier run and replace the document.                          *)

ResumeTakesOver(j) ==
    /\ jobs' = [Abort(jobs, replaceCtl) EXCEPT ![j] = NewJob("resume", "run", 0)]
    /\ replaceCtl' = j
ResumeReplace(j) ==
    /\ Gesture /\ Clickable /\ Free(j)
    /\ ResumeTakesOver(j)
    /\ replaceStatus' = "uploading"
    /\ UNCHANGED <<transportVars, loadingCount, trackCtl, trackStatuses, layers>>

\* The run, then the fetch of its bundle, reject once aborted; unzipping does not look.
ResumeAdvances(j) ==
    /\ jobs[j] # NoJob /\ ~jobs[j].aborted
    /\ \/ At(j, "resume", "run") /\ To(j, "fetch")
       \/ At(j, "resume", "fetch") /\ To(j, "unzip")
    /\ UNCHANGED <<transportVars, loadingCount, trackCtl, trackStatuses, replaceCtl,
                   replaceStatus, layers, acts>>

\* An error or an abort thrown to resumeReplace: handleTranscribeError resets the status
\* only for the controller that still owns it.
MutErrorLeavesStatus(j) == UNCHANGED replaceStatus
ErrorResets(j) == replaceStatus' = IF replaceCtl = j THEN "idle" ELSE replaceStatus
ResumeThrows(j) ==
    /\ \/ At(j, "resume", "run")
       \/ At(j, "resume", "fetch") /\ jobs[j].aborted
    /\ ErrorResets(j)
    /\ replaceCtl' = IF replaceCtl = j THEN NoJob ELSE replaceCtl
    /\ End(j)
    /\ UNCHANGED <<transportVars, loadingCount, trackCtl, trackStatuses, layers, acts>>

\* No bundle, a failed fetch or a bad zip: autoLoadDebugBundle answers false and the
\* status goes idle, whoever owns it.
ResumeGivesUp(j) ==
    /\ \/ (At(j, "resume", "run") \/ At(j, "resume", "fetch")) /\ ~jobs[j].aborted
       \/ At(j, "resume", "unzip")
    /\ replaceStatus' = "idle"
    /\ replaceCtl' = IF replaceCtl = j THEN NoJob ELSE replaceCtl
    /\ End(j)
    /\ UNCHANGED <<transportVars, loadingCount, trackCtl, trackStatuses, layers, acts>>

\* applyDebugBundle: reset, install, and its tracks start to decode.
ResumeApplies(j) ==
    /\ At(j, "resume", "unzip")
    /\ Install(Lanes) \/ ResetOnly
    /\ jobs' = [jobs EXCEPT ![j].phase = "decode", ![j].song = song']
    /\ loadingCount' = loadingCount + 1
    /\ Preloading
    /\ UNCHANGED <<minted, waiting, ctxQ, overlap, trackCtl, trackStatuses, replaceCtl,
                   replaceStatus, acts>>

-----------------------------------------------------------------------------
(* Split a track into stems.                                                *)

SplitTrack(j, t) ==
    /\ Gesture /\ Clickable /\ Free(j)
    /\ t \in Ids(tracks)
    /\ jobs' = [jobs EXCEPT ![j] = NewJob("split", "run", t)]
    /\ UNCHANGED <<transportVars, loadingCount, trackCtl, trackStatuses, replaceCtl,
                   replaceStatus, layers>>

\* Separation is done, and its stem is fetched and decoded as a new track ...
SplitSeparated(j) ==
    /\ At(j, "split", "run")
    /\ To(j, "decode")
    /\ Preloading
    /\ UNCHANGED <<song, score, muted, tracks, minted, waiting, ctxQ, player, overlap,
                   loadingCount, trackCtl, trackStatuses, replaceCtl, replaceStatus,
                   layers, acts>>

\* ... or it failed.
SplitFailed(j) ==
    /\ At(j, "split", "run")
    /\ End(j)
    /\ UNCHANGED <<transportVars, loadingCount, trackCtl, trackStatuses, replaceCtl,
                   replaceStatus, layers, acts>>

-----------------------------------------------------------------------------
(* The transport's tasks in the session.  The keyboard reaches play, pause   *)
(* and edits under the overlay; the mouse does not.                          *)

Keys == Play \/ Pause \/ Resume \/ \E l \in Lanes : Edit(l)
Clicks ==
    \/ StopButton \/ SetSpeed \/ Seek \/ DrumOffset
    \/ \E l \in Lanes : ToggleMute(l)
    \/ \E t \in tracks : ClearTrack(t)
UserTransport ==
    /\ Gesture
    /\ Keys \/ (Clickable /\ Clicks)
    /\ UNCHANGED jobVars
KitSettles == (KitLoaded \/ KitFailed) /\ UNCHANGED <<jobVars, acts>>
PlayResumes == PlayGoesOn /\ UNCHANGED <<jobVars, acts>>
ContextAnswers == ContextDone /\ UNCHANGED <<jobVars, acts>>
TimerFires == TailTimer /\ UNCHANGED <<jobVars, acts>>

JobStarts(j) ==
    \/ LoadFile(j) \/ DropAudio(j) \/ ResumeReplace(j)
    \/ \E t \in TrackIds : Transcribe(j, t) \/ SplitTrack(j, t)
JobGoesOn(j) ==
    \/ LoadFailed(j) \/ LoadInstalls(j) \/ DecodeEnds(j)
    \/ TranscribeResolves(j) \/ TranscribeFails(j) \/ TranscribeDone(j)
    \/ ResumeAdvances(j) \/ ResumeThrows(j) \/ ResumeGivesUp(j) \/ ResumeApplies(j)
    \/ SplitSeparated(j) \/ SplitFailed(j)

Task ==
    \/ LoadExample
    \/ \E t \in TrackIds : CancelTranscribe(t)
    \/ \E j \in JobIds : JobStarts(j) \/ JobGoesOn(j)
    \/ UserTransport
    \/ KitSettles \/ ContextAnswers \/ TimerFires

Next == PlayResumes \/ (Drained /\ Task)

\* The kit load ends, by its timeout if need be, and the context answers.  File reads,
\* backend runs and the user are promised nothing.
Fairness == WF_vars(KitSettles) /\ WF_vars(PlayResumes) /\ WF_vars(ContextAnswers)

Spec == Init /\ [][Next]_vars /\ Fairness

-----------------------------------------------------------------------------
(* Properties.                                                              *)

\* What the kit will sound is the loaded document, as it now stands, under the current
\* mutes, each note once; so an edit, a mute toggled while paused, or a document
\* swapped while play() waits for the kit, is heard.  It holds as long as no transport
\* call was made while another was outstanding.
ScheduleFollowsDocument ==
    Live(player) /\ ~overlap =>
        /\ player.drums = Audible(Events(song, score))
        /\ ~player.doubled

\* Whatever raced, playing always has the end-of-playback timer armed, or a pause
\* outstanding that will end it: playback is never left running for good.
PlayingIsArmed ==
    player.st = "playing" =>
        player.timer \/ \E i \in DOMAIN ctxQ : ctxQ[i].who = "pause"

\* Off-transport nothing is left behind to sound or to stop a later play: no note in the
\* kit, no audio track, no timer.
IdleIsQuiet ==
    player.st = "idle" /\ ~overlap =>
        player.drums = {} /\ player.ctl = NoCtl /\ ~player.timer

\* Audio tracks follow the transport: while it plays every loaded track sounds, one added
\* while paused or during the load included; while paused the context is suspended.
TracksFollowTransport ==
    ctxQ = <<>> =>
        /\ player.st = "playing" /\ player.ctl # NoCtl => player.ctl = Ids(tracks)
        /\ player.st = "paused" => ctx = "suspended"

\* A track shows a transcription spinner exactly while a run that was not aborted owns
\* it, a superseded run's end included.
StatusHasLiveRun ==
    \A t \in TrackIds :
        /\ t \in trackStatuses <=> trackCtl[t] # NoJob
        /\ trackCtl[t] # NoJob =>
             LET r == jobs[trackCtl[t]] IN
             r # NoJob /\ r.kind = "transcribe" /\ r.track = t /\ ~r.aborted

\* The replace pill never outlives its run: while it shows, the newest resume is still
\* in flight and not aborted.
PillHasLiveRun ==
    replaceStatus = "uploading" =>
        /\ replaceCtl # NoJob
        /\ jobs[replaceCtl] # NoJob
        /\ jobs[replaceCtl].kind = "resume" /\ ~jobs[replaceCtl].aborted

\* A transcription that was cancelled, or superseded by a newer one of the same track,
\* puts nothing into the document when it ends, even if its result won the race.
AbortedNeverMerges ==
    [][\A j \in JobIds :
          jobs[j] # NoJob /\ jobs[j].kind = "transcribe" /\ jobs[j].aborted
            /\ jobs'[j] = NoJob
          => layers' = layers /\ score' = score]_vars

\* The play button never stays in its loading state.
LoadingEnds == player.st = "loading" ~> player.st # "loading"

\* Nothing of an earlier song reaches the loaded one: every audio track, every merged
\* transcription and the playback in progress was asked for in this song
\* (session_reset.ts: "so the previous song's transient and per-song state can't leak
\* onto the new one").
NothingLeaks ==
    /\ \A t \in tracks : t.song = song
    /\ layers \subseteq {song}
    /\ player.by \in {NoSong, song} /\ player.timeline \in {NoSong, song}
=============================================================================
