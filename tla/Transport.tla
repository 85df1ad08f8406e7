----------------------------- MODULE Transport -----------------------------
(***************************************************************************)
(* The playback transport of the editor: the JotPlayer engine               *)
(* (frontend/src/editing/playback/player.ts) over its DrumScheduler,        *)
(* SoundfontLoader and AudioTrackPlaybackController, driven by              *)
(* PlaybackPresenter (playback_presenter.ts).                               *)
(*                                                                          *)
(* JavaScript runs one task at a time, so an action is one task: a handler  *)
(* up to its await, or the continuation after it.  What interleaves are the *)
(* continuations: play() waiting for the drum kit or the AudioContext,      *)
(* pause() and resume() waiting for the context.                            *)
(*                                                                          *)
(* Time is not modelled.  Every note of a schedule is still to sound, a     *)
(* seek moves nothing a property distinguishes, and the end-of-playback     *)
(* timer is a flag that may fire whenever it is armed.                      *)
(***************************************************************************)
EXTENDS Integers, FiniteSets, Sequences

CONSTANTS
    Lanes,      \* instrument rows of the score
    Songs,      \* documents, in the order they are loaded: 1 .. n
    TrackIds,   \* audio-track ids, in the order they are allocated: 1 .. n
    NoSong,     \* "none", where a song is expected
    NoCtl,      \* audioTrackController = undefined
    MaxWaiting  \* bound: calls outstanding on the kit, and on the context

ASSUME SongsAssumption == Songs \subseteq Nat /\ 1 \in Songs /\ NoSong \notin Songs
ASSUME TrackIdsAssumption == TrackIds \subseteq Nat \ {0} /\ \A S \in SUBSET TrackIds : S # NoCtl
ASSUME MaxWaitingAssumption == MaxWaiting \in Nat

VARIABLES
    song,     \* the loaded document
    score,    \* the lanes each document has notes on
    muted,    \* the lane filter
    tracks,   \* the loaded audio tracks: [id, song they were asked for in]
    minted,   \* audioTrackIdCounter
    kit,      \* the drum kit: "none", "loading" or "ready"
    waiting,  \* play() calls awaiting ensureLoaded, by the song they captured
    ctx,      \* the AudioContext's state
    ctxQ,     \* calls awaiting ctx.suspend() or ctx.resume(), in order
    player,   \* the engine's fields
    overlap   \* history: a call came while another was outstanding

transportVars == <<song, score, muted, tracks, minted, kit, waiting, ctx, ctxQ, player, overlap>>

Notes == [song : Songs, lane : Lanes]
Ids(ts) == {t.id : t \in ts}

\* jotToEvents: the notes of a document as it now stands.
Events(s, sc) == {[song |-> s, lane |-> l] : l \in sc[s]}

\* isAudibleUnder
Audible(ev) == {n \in ev : n.lane \notin muted}

Live(p) == p.st \in {"playing", "paused"}

Calls == [who : {"play"}, song : Songs] \cup [who : {"pause", "resume"}, song : {NoSong}]
Players ==
    [st : {"idle", "loading", "playing", "paused"},
     events : SUBSET Notes, drums : SUBSET Notes, doubled : BOOLEAN,
     ctl : {NoCtl} \cup SUBSET TrackIds, timer : BOOLEAN,
     timeline : Songs \cup {NoSong}, by : Songs \cup {NoSong},
     tracked : {<<>>} \cup {<<ev>> : ev \in SUBSET Notes}]

TransportTypeOK ==
    /\ song \in Songs
    /\ score \in [Songs -> SUBSET Lanes]
    /\ muted \subseteq Lanes
    /\ tracks \subseteq [id : TrackIds, song : Songs]
    /\ minted \in TrackIds \cup {0}
    /\ kit \in {"none", "loading", "ready"}
    /\ waiting \in Seq(Songs)
    /\ ctx \in {"none", "suspended", "running"}
    /\ ctxQ \in Seq(Calls)
    /\ player \in Players
    /\ overlap \in BOOLEAN

-----------------------------------------------------------------------------
(* The engine's handlers, as functions of its fields.                       *)

\* cancelScheduledStops and stopDrums flush everything the kit was handed.
Cancelled(p) == [p EXCEPT !.drums = {}, !.doubled = FALSE]

\* scheduleEvents adds to what the kit already holds: it cancels nothing.
Scheduled(p, ev) ==
    [p EXCEPT !.drums = @ \cup Audible(ev),
              !.doubled = @ \/ p.drums \cap Audible(ev) # {}]

\* scheduleTailTimer while playing; while paused the callers only note the tail.
TailArmed(p) == IF p.st = "playing" THEN [p EXCEPT !.timer = TRUE] ELSE p

\* AudioTrackPlaybackController.scheduleAll over every loaded track.
AudioScheduled(p, ts) == IF p.ctl = NoCtl THEN p ELSE [p EXCEPT !.ctl = Ids(ts)]

\* stop()
MutStopKeepsDrums(p) ==
    [p EXCEPT !.st = "idle", !.events = {}, !.ctl = NoCtl, !.timer = FALSE,
              !.timeline = NoSong, !.by = NoSong]
Stopped(p) ==
    [Cancelled(p) EXCEPT !.st = "idle", !.events = {}, !.ctl = NoCtl, !.timer = FALSE,
                         !.timeline = NoSong, !.by = NoSong]

\* refreshDrumSchedule
Refreshed(p, ev) ==
    IF Live(p) THEN TailArmed(Scheduled(Cancelled([p EXCEPT !.events = ev]), ev)) ELSE p

\* The live-edit reaction.  Its tracker is null off-transport; its effect runs when
\* the tracked value changes to a list.  It runs after every task.
React(p, ev) ==
    LET now == IF Live(p) THEN <<ev>> ELSE <<>> IN
    IF now = p.tracked THEN p
    ELSE IF now = <<>> THEN [p EXCEPT !.tracked = now]
    ELSE Refreshed([p EXCEPT !.tracked = now], ev)

\* play() after its awaits, for the document s it captured: it does not look at what
\* happened meanwhile.  The reaction runs as soon as the state is "playing".
MutBeginFailsLive(p, s) ==
    IF score[s] = {} THEN [p EXCEPT !.timeline = NoSong]
    ELSE React([Scheduled([p EXCEPT !.events = Events(s, score)], Events(s, score))
                    EXCEPT !.st = "playing", !.ctl = Ids(tracks), !.timeline = s,
                           !.by = s, !.timer = TRUE], Events(song, score))
Begin(p, s) ==
    IF score[s] = {} THEN React([p EXCEPT !.st = "idle", !.timeline = NoSong], {})
    ELSE React([Scheduled([p EXCEPT !.events = Events(s, score)], Events(s, score))
                    EXCEPT !.st = "playing", !.ctl = Ids(tracks), !.timeline = s,
                           !.by = s, !.timer = TRUE], Events(song, score))

\* resume() after its await.
MutContinueUnarmed(p) == AudioScheduled(React([p EXCEPT !.st = "playing"], Events(song, score)), tracks)
Continue(p) ==
    [AudioScheduled(React([p EXCEPT !.st = "playing"], Events(song, score)), tracks)
        EXCEPT !.timer = TRUE]

\* repositionAudioForOffset
Repositioned(p) ==
    IF Live(p) /\ p.ctl # NoCtl THEN TailArmed(AudioScheduled(p, tracks)) ELSE p

\* A new document, or the same one edited: what the transport sees of it.
Seen(p, s, sc) == React(p, Events(s, sc))

TransportInit ==
    /\ song = 1
    /\ score = [s \in Songs |-> Lanes]
    /\ muted = {}
    /\ tracks = {}
    /\ minted = 0
    /\ kit = "none"
    /\ waiting = <<>>
    /\ ctx = "none"
    /\ ctxQ = <<>>
    /\ player = [st |-> "idle", events |-> {}, drums |-> {}, doubled |-> FALSE,
                 ctl |-> NoCtl, timer |-> FALSE, timeline |-> NoSong, by |-> NoSong,
                 tracked |-> <<>>]
    /\ overlap = FALSE

Outstanding == waiting # <<>> \/ ctxQ # <<>>
Noted == overlap' = (overlap \/ Outstanding)

\* ensureAudioContext: some browsers hand out a fresh context suspended.
ContextMade == IF ctx = "none" THEN ctx' \in {"suspended", "running"} ELSE UNCHANGED ctx

-----------------------------------------------------------------------------
(* The transport's tasks.                                                   *)

\* togglePlayPause, idle.  With the kit loaded and the context running nothing is
\* awaited but a settled promise, and playback starts in the same turn.
Play ==
    /\ player.st = "idle"
    /\ Noted
    /\ LET loading == [Stopped(player) EXCEPT !.st = "loading"] IN
       IF kit = "ready" THEN
            /\ IF ctx = "suspended"
                 THEN /\ Len(ctxQ) < MaxWaiting
                      /\ ctxQ' = Append(ctxQ, [who |-> "play", song |-> song])
                      /\ player' = loading
                 ELSE player' = Begin(loading, song) /\ UNCHANGED ctxQ
            /\ UNCHANGED <<kit, waiting, ctx>>
       ELSE
            /\ Len(waiting) < MaxWaiting
            /\ waiting' = Append(waiting, song)
            /\ player' = loading
            /\ kit' = "loading"
            /\ ContextMade
            /\ UNCHANGED ctxQ
    /\ UNCHANGED <<song, score, muted, tracks, minted>>

\* ensureLoaded resolves ...
KitLoaded ==
    /\ kit = "loading"
    /\ kit' = "ready"
    /\ UNCHANGED <<song, score, muted, tracks, minted, waiting, ctx, ctxQ, player, overlap>>

\* ... and the play() calls that awaited it go on, in order, as microtasks: no other task
\* runs until the last one has.
Drained == kit = "ready" => waiting = <<>>
PlayGoesOn ==
    /\ ~Drained
    /\ waiting' = Tail(waiting)
    /\ IF ctx = "suspended"
         THEN /\ ctxQ' = Append(ctxQ, [who |-> "play", song |-> Head(waiting)])
              /\ UNCHANGED player
         ELSE /\ player' = Begin(player, Head(waiting))
              /\ UNCHANGED ctxQ
    /\ UNCHANGED <<song, score, muted, tracks, minted, kit, ctx, overlap>>

\* ensureLoaded rejects (network, or the load timeout): each waiting play() ends in its
\* catch.  A preload's rejection is swallowed.
KitFailed ==
    /\ kit = "loading"
    /\ kit' = "none"
    /\ waiting' = <<>>
    /\ player' = IF waiting = <<>> THEN player
                 ELSE React([player EXCEPT !.st = "idle", !.timeline = NoSong], {})
    /\ UNCHANGED <<song, score, muted, tracks, minted, ctx, ctxQ, overlap>>

\* togglePlayPause, playing: pause() up to ctx.suspend().
Pause ==
    /\ player.st = "playing"
    /\ Len(ctxQ) < MaxWaiting
    /\ Noted
    /\ player' = [player EXCEPT !.timer = FALSE,
                                !.ctl = IF @ = NoCtl THEN NoCtl ELSE {}]
    /\ ctxQ' = Append(ctxQ, [who |-> "pause", song |-> NoSong])
    /\ UNCHANGED <<song, score, muted, tracks, minted, kit, waiting, ctx>>

\* togglePlayPause, paused: resume() up to ctx.resume().
Resume ==
    /\ player.st = "paused"
    /\ Len(ctxQ) < MaxWaiting
    /\ Noted
    /\ ctxQ' = Append(ctxQ, [who |-> "resume", song |-> NoSong])
    /\ UNCHANGED <<song, score, muted, tracks, minted, kit, waiting, ctx, player>>

\* The context changes state and the oldest call outstanding on it goes on.  The
\* continuations write their state whatever it has become.
MutPauseKeepsRunning(who) == "running"
ContextAfter(who) == IF who = "pause" THEN "suspended" ELSE "running"
ContextDone ==
    /\ ctxQ # <<>>
    /\ LET c == Head(ctxQ) IN
       /\ ctx' = ContextAfter(c.who)
       /\ player' = CASE c.who = "pause" ->
                            React([player EXCEPT !.st = "paused"], Events(song, score))
                      [] c.who = "resume" -> Continue(player)
                      [] c.who = "play" -> Begin(player, c.song)
    /\ ctxQ' = Tail(ctxQ)
    /\ UNCHANGED <<song, score, muted, tracks, minted, kit, waiting, overlap>>

\* The Stop button, enabled while playback is on screen.
StopButton ==
    /\ Live(player)
    /\ player' = React(Stopped(player), {})
    /\ UNCHANGED <<song, score, muted, tracks, minted, kit, waiting, ctx, ctxQ, overlap>>

\* The end-of-playback timer.
TailTimer ==
    /\ player.timer
    /\ player' = React(Stopped(player), {})
    /\ UNCHANGED <<song, score, muted, tracks, minted, kit, waiting, ctx, ctxQ, overlap>>

\* An edit puts notes on a lane or takes them off it.
Edit(l) ==
    LET sc == [score EXCEPT ![song] = IF l \in @ THEN @ \ {l} ELSE @ \cup {l}] IN
    /\ score' = sc
    /\ player' = Seen(player, song, sc)
    /\ UNCHANGED <<song, muted, tracks, minted, kit, waiting, ctx, ctxQ, overlap>>

\* A row's mute toggles; the filter reaction calls applyLaneFilter.  It re-arms no timer.
MutFilterSkipsPaused(p) == p.st = "playing"
FilterApplies(p) == Live(p)
ToggleMute(l) ==
    LET m == IF l \in muted THEN muted \ {l} ELSE muted \cup {l} IN
    /\ muted' = m
    /\ player' = IF FilterApplies(player)
                   THEN [Cancelled(player) EXCEPT !.drums = {n \in player.events : n.lane \notin m}]
                   ELSE player
    /\ UNCHANGED <<song, score, tracks, minted, kit, waiting, ctx, ctxQ, overlap>>

\* setPlaybackSpeed while playing: drums only, the tracks keep their schedule.
SetSpeed ==
    /\ player.st = "playing"
    /\ player' = TailArmed(Scheduled(Cancelled(player), player.events))
    /\ UNCHANGED <<song, score, muted, tracks, minted, kit, waiting, ctx, ctxQ, overlap>>

\* seek: idle it parks the playhead on the document's own timeline, else it
\* reschedules drums and tracks; while loading there is nothing to reschedule.
Seek ==
    /\ ctx # "none" \/ player.st = "idle"
    /\ player' = IF player.st = "idle" THEN [player EXCEPT !.timeline = song]
                 ELSE TailArmed(AudioScheduled(Scheduled(Cancelled(player), player.events), tracks))
    /\ UNCHANGED <<song, score, muted, tracks, minted, kit, waiting, ctx, ctxQ, overlap>>

\* setDrumOffset: setSongLeadIn, then an explicit refresh on the moved notes.
DrumOffset ==
    /\ Live(player)
    /\ player' = Refreshed(Repositioned(player), Events(song, score))
    /\ UNCHANGED <<song, score, muted, tracks, minted, kit, waiting, ctx, ctxQ, overlap>>

\* installAudioTrack, for a track asked for while s was loaded.
TrackInstalled(s) ==
    /\ minted + 1 \in TrackIds
    /\ minted' = minted + 1
    /\ tracks' = tracks \cup {[id |-> minted + 1, song |-> s]}
    /\ player' = IF player.st = "playing" /\ player.ctl # NoCtl
                   THEN [player EXCEPT !.ctl = @ \cup {minted + 1}] ELSE player

\* clearAudioTrack
ClearTrack(t) ==
    /\ t \in tracks
    /\ tracks' = tracks \ {t}
    /\ player' = IF player.ctl = NoCtl THEN player ELSE [player EXCEPT !.ctl = @ \ {t.id}]
    /\ UNCHANGED <<song, score, muted, minted, kit, waiting, ctx, ctxQ, overlap>>

\* preload: a track load warms the kit up, and needs the context to decode in.
Preloading ==
    /\ kit' = IF kit = "none" THEN "loading" ELSE kit
    /\ ContextMade

=============================================================================
