--------------------------- MODULE Session_proofs ---------------------------
(***************************************************************************)
(* For every number of songs, lanes, tracks, jobs and gestures: what sounds *)
(* is what is loaded, a stop leaves nothing behind, and the transcribe      *)
(* flows own what they show.                                                *)
(***************************************************************************)
EXTENDS Session, FiniteSetTheorems, SequenceTheorems, TLAPS

(***************************************************************************)
(* The inductive invariant, the transport's half.                          *)
(***************************************************************************)
\* The live-edit reaction has seen the document as it is, on the transport only.
Tracking ==
    player.tracked = IF Live(player) THEN <<Events(song, score)>> ELSE <<>>

\* Unless calls overlapped there is at most one outstanding, and a play() that is
\* still to begin finds the transport off.
Awaited == waiting # <<>> \/ \E i \in DOMAIN ctxQ : ctxQ[i].who = "play"
OneCall ==
    ~overlap =>
        /\ Len(waiting) + Len(ctxQ) <= 1
        /\ Awaited => ~Live(player)

\* ... and then the schedule is the document's, and off the transport is empty.
Sounds(p) ==
    /\ p.events = Events(song, score)
    /\ p.drums = Audible(Events(song, score))
    /\ ~p.doubled
Quiet(p) ==
    p.events = {} /\ p.drums = {} /\ ~p.doubled /\ p.ctl = NoCtl /\ ~p.timer
Schedule == ~overlap => IF Live(player) THEN Sounds(player) ELSE Quiet(player)

\* Track ids are handed out once.
TracksOnce ==
    /\ \A t \in tracks : t.id <= minted
    /\ \A t \in tracks, u \in tracks : t.id = u.id => t = u

TransportInv ==
    /\ TransportTypeOK /\ Tracking /\ OneCall /\ Schedule /\ TracksOnce
    /\ PlayingIsArmed /\ TracksFollowTransport

(***************************************************************************)
(* The jobs' half.                                                         *)
(***************************************************************************)
\* The overlay counts the loaders in flight: one while a file is read or its audio
\* decoded alone, two while a load waits for its audio.
Holds(r) ==
    /\ r # NoJob
    /\ r.kind = "load" \/ (r.phase = "decode" /\ r.kind \in {"audio", "resume"})
HoldsTwice(r) == r # NoJob /\ r.kind = "load" /\ r.phase = "decode"
Holders == {j \in JobIds : Holds(jobs[j])}
TwiceHolders == {j \in JobIds : HoldsTwice(jobs[j])}
OverlayCounts == loadingCount = Cardinality(Holders) + Cardinality(TwiceHolders)

\* The replace controller is that of a resume in flight that was not aborted.
ReplaceIsLive ==
    replaceCtl # NoJob =>
        LET r == jobs[replaceCtl] IN r # NoJob /\ r.kind = "resume" /\ ~r.aborted

\* A transcription has no audio of its own to decode.
NeverDecodes(r) == r # NoJob /\ r.kind = "transcribe" => r.phase # "decode"
DecodesAreLoads == \A j \in JobIds : NeverDecodes(jobs[j])

JobsTypeOK ==
    /\ jobs \in [JobIds -> Job \cup {NoJob}]
    /\ trackCtl \in [TrackIds -> JobIds \cup {NoJob}]
    /\ trackStatuses \subseteq TrackIds
    /\ replaceCtl \in JobIds \cup {NoJob}
    /\ replaceStatus \in {"idle", "uploading"}
    /\ layers \subseteq Songs
    /\ acts \in 0 .. MaxActs

JobsInv ==
    /\ JobsTypeOK /\ OverlayCounts /\ DecodesAreLoads /\ ReplaceIsLive
    /\ StatusHasLiveRun /\ PillHasLiveRun

IInv == TransportInv /\ JobsInv

-----------------------------------------------------------------------------
(***************************************************************************)
(* The engine's handlers.                                                  *)
(***************************************************************************)
LEMMA EventsAreNotes ==
    ASSUME NEW sc \in [Songs -> SUBSET Lanes], NEW s \in Songs
    PROVE  Events(s, sc) \in SUBSET Notes
BY DEF Events, Notes

\* Handing events to the kit touches nothing but the drums.
LEMMA CancelledFacts ==
    ASSUME NEW p \in Players
    PROVE  /\ Cancelled(p) \in Players
           /\ Cancelled(p).drums = {} /\ ~Cancelled(p).doubled
           /\ Cancelled(p).st = p.st /\ Cancelled(p).events = p.events /\ Cancelled(p).ctl = p.ctl
           /\ Cancelled(p).timer = p.timer /\ Cancelled(p).tracked = p.tracked
BY DEF Cancelled, Players

\* Scheduling adds the audible notes, and doubles none if the kit was empty.
LEMMA ScheduledFacts ==
    ASSUME NEW p \in Players, NEW ev \in SUBSET Notes
    PROVE  /\ Scheduled(p, ev) \in Players
           /\ Scheduled(p, ev).drums = p.drums \cup Audible(ev)
           /\ p.drums = {} /\ ~p.doubled => ~Scheduled(p, ev).doubled
           /\ Scheduled(p, ev).st = p.st /\ Scheduled(p, ev).events = p.events
           /\ Scheduled(p, ev).ctl = p.ctl
           /\ Scheduled(p, ev).timer = p.timer /\ Scheduled(p, ev).tracked = p.tracked
<1>1. Audible(ev) \in SUBSET Notes
  BY DEF Audible
<1>2. QED BY <1>1 DEF Scheduled, Players

\* Arming the tail arms the timer while playing, and nothing else.
LEMMA TailArmedFacts ==
    ASSUME NEW p \in Players
    PROVE  /\ TailArmed(p) \in Players
           /\ (TailArmed(p).timer <=> p.timer \/ p.st = "playing")
           /\ TailArmed(p).drums = p.drums /\ TailArmed(p).doubled = p.doubled
           /\ TailArmed(p).st = p.st /\ TailArmed(p).events = p.events
           /\ TailArmed(p).ctl = p.ctl /\ TailArmed(p).tracked = p.tracked
BY DEF TailArmed, Players

\* Scheduling the audio reaches every loaded track, if there is a controller.
LEMMA AudioScheduledFacts ==
    ASSUME NEW p \in Players, Ids(tracks) \in SUBSET TrackIds
    PROVE  LET q == AudioScheduled(p, tracks) IN
           /\ q \in Players
           /\ q.ctl = IF p.ctl = NoCtl THEN NoCtl ELSE Ids(tracks)
           /\ q.drums = p.drums /\ q.doubled = p.doubled
           /\ q.st = p.st /\ q.events = p.events
           /\ q.timer = p.timer /\ q.tracked = p.tracked
BY DEF AudioScheduled, Players

\* stop() leaves the engine quiet.
LEMMA StoppedFacts ==
    ASSUME NEW p \in Players
    PROVE  LET q == Stopped(p) IN
           /\ q \in Players /\ q.st = "idle" /\ Quiet(q) /\ q.tracked = p.tracked
<1> DEFINE c == Cancelled(p)
<1>1. c \in Players /\ c.drums = {} /\ ~c.doubled /\ c.tracked = p.tracked
  BY CancelledFacts
<1>2. Stopped(p) = [c EXCEPT !.st = "idle", !.events = {}, !.ctl = NoCtl, !.timer = FALSE,
                             !.timeline = NoSong, !.by = NoSong]
  BY DEF Stopped
<1> HIDE DEF c
<1>3. QED BY <1>1, <1>2 DEF Players, Quiet

\* A refreshed schedule is the one it is given, and is armed while playing.
LEMMA RefreshedFacts ==
    ASSUME NEW p \in Players, NEW ev \in SUBSET Notes
    PROVE  LET q == Refreshed(p, ev) IN
           /\ q \in Players
           /\ q.st = p.st /\ q.ctl = p.ctl /\ q.tracked = p.tracked
           /\ p.timer => q.timer
           /\ ~Live(p) => q = p
           /\ Live(p) => /\ q.events = ev /\ q.drums = Audible(ev) /\ ~q.doubled
                         /\ q.st = "playing" => q.timer
<1> DEFINE e == [p EXCEPT !.events = ev]
           c == Cancelled(e)
           s == Scheduled(c, ev)
<1>1. e \in Players /\ e.st = p.st /\ e.ctl = p.ctl /\ e.tracked = p.tracked
        /\ e.timer = p.timer /\ e.events = ev
  BY DEF Players
<1>2. Refreshed(p, ev) = IF Live(p) THEN TailArmed(s) ELSE p
  BY DEF Refreshed
<1> HIDE DEF e
<1>3. /\ c \in Players /\ c.st = p.st /\ c.ctl = p.ctl /\ c.tracked = p.tracked
      /\ c.timer = p.timer /\ c.events = ev /\ c.drums = {} /\ ~c.doubled
  BY <1>1, CancelledFacts
<1> HIDE DEF c
<1>4. /\ s \in Players /\ s.st = p.st /\ s.ctl = p.ctl /\ s.tracked = p.tracked
      /\ s.timer = p.timer /\ s.events = ev /\ s.drums = Audible(ev) /\ ~s.doubled
  BY <1>3, ScheduledFacts
<1> HIDE DEF s
<1> DEFINE q == TailArmed(s)
<1>5. /\ q \in Players /\ q.st = p.st /\ q.ctl = p.ctl /\ q.tracked = p.tracked
      /\ q.events = ev /\ q.drums = Audible(ev) /\ ~q.doubled
      /\ p.timer => q.timer
      /\ q.st = "playing" => q.timer
  BY <1>4, TailArmedFacts
<1> HIDE DEF q
<1>6. CASE Live(p)
  <2>1. Refreshed(p, ev) = q
    BY <1>2, <1>6 DEF q
  <2>2. QED BY <2>1, <1>5, <1>6
<1>7. CASE ~Live(p)
  <2>1. Refreshed(p, ev) = p
    BY <1>2, <1>7
  <2>2. QED BY <2>1, <1>7
<1>8. QED BY <1>6, <1>7

\* The live-edit reaction: afterwards the tracked value is current, and whenever
\* it was not the schedule has been refreshed.
LEMMA ReactFacts ==
    ASSUME NEW p \in Players, NEW ev \in SUBSET Notes
    PROVE  LET q == React(p, ev) IN
           /\ q \in Players
           /\ q.st = p.st /\ q.ctl = p.ctl
           /\ q.tracked = IF Live(p) THEN <<ev>> ELSE <<>>
           /\ p.timer => q.timer
           /\ ~Live(p) => /\ q.events = p.events /\ q.drums = p.drums
                          /\ q.doubled = p.doubled /\ q.timer = p.timer
           /\ Live(p) /\ p.tracked # <<ev>> =>
                 /\ q.events = ev /\ q.drums = Audible(ev) /\ ~q.doubled
                 /\ q.st = "playing" => q.timer
           /\ Live(p) /\ p.tracked = <<ev>> => q = p
<1> DEFINE now == IF Live(p) THEN <<ev>> ELSE <<>>
           t == [p EXCEPT !.tracked = now]
<1>0. now \in {<<>>} \cup {<<x>> : x \in SUBSET Notes}
  OBVIOUS
<1>1. React(p, ev) = IF now = p.tracked THEN p ELSE IF now = <<>> THEN t ELSE Refreshed(t, ev)
  BY DEF React
<1>2. now = <<>> <=> ~Live(p)
  OBVIOUS
<1>n. now = IF Live(p) THEN <<ev>> ELSE <<>>
  OBVIOUS
<1> HIDE DEF now
<1>3. /\ t \in Players /\ t.st = p.st /\ t.ctl = p.ctl /\ t.tracked = now
      /\ t.events = p.events /\ t.drums = p.drums /\ t.doubled = p.doubled /\ t.timer = p.timer
  BY <1>0 DEF Players
<1>4. Live(t) <=> Live(p)
  BY <1>3 DEF Live
<1> HIDE DEF t
<1>5. CASE now = p.tracked
  BY <1>1, <1>5, <1>n, <1>2
<1>6. CASE now # p.tracked /\ ~Live(p)
  <2>1. React(p, ev) = t
    BY <1>1, <1>2, <1>6
  <2>2. QED BY <2>1, <1>3, <1>n, <1>6
<1>7. CASE now # p.tracked /\ Live(p)
  <2>1. React(p, ev) = Refreshed(t, ev)
    BY <1>1, <1>2, <1>7
  <2>2. QED BY <2>1, <1>3, <1>4, <1>7, <1>n, RefreshedFacts
<1>8. QED BY <1>5, <1>6, <1>7

\* The reaction's value for a player that is on the transport, and for one that is not.
Current(p) == p.tracked = IF Live(p) THEN <<Events(song, score)>> ELSE <<>>
InTune(p) == IF Live(p) THEN Sounds(p) ELSE Quiet(p)

\* The loaded document's notes and the loaded tracks are as typed.
LEMMA LoadedFacts ==
    ASSUME TransportTypeOK
    PROVE  Events(song, score) \in SUBSET Notes /\ Ids(tracks) \in SUBSET TrackIds
BY EventsAreNotes DEF TransportTypeOK, Ids

\* A player that goes on the transport is refreshed if it was not on it.
LEMMA PutFacts ==
    ASSUME TransportTypeOK, NEW p \in Players, Current(p), NEW l \in {"playing", "paused"}
    PROVE  LET q == React([p EXCEPT !.st = l], Events(song, score)) IN
           /\ q \in Players /\ q.st = l /\ q.ctl = p.ctl
           /\ Current(q)
           /\ ~Live(p) \/ Sounds(p) => Sounds(q)
<1> DEFINE e == [p EXCEPT !.st = l]
           ev == Events(song, score)
           q == React(e, ev)
<1>0. ev \in SUBSET Notes
  BY LoadedFacts
<1>1. /\ e \in Players /\ e.st = l /\ e.ctl = p.ctl /\ e.tracked = p.tracked
      /\ e.events = p.events /\ e.drums = p.drums /\ e.doubled = p.doubled
  BY DEF Players
<1>2. Live(e)
  BY <1>1 DEF Live
<1> HIDE DEF e
<1>3. q \in Players /\ q.st = l /\ q.ctl = p.ctl /\ q.tracked = <<ev>>
  BY <1>0, <1>1, <1>2, ReactFacts
<1>c. Current(q)
  <2> HIDE DEF q
  <2>1. Live(q)
    BY <1>3 DEF Live
  <2>2. QED BY <2>1, <1>3 DEF Current
<1>4. ASSUME ~Live(p) PROVE Sounds(q)
  <2>1. e.tracked # <<ev>>
    BY <1>1, <1>4 DEF Current
  <2>2. q.events = ev /\ q.drums = Audible(ev) /\ ~q.doubled
    BY <2>1, <1>0, <1>1, <1>2, ReactFacts
  <2>3. QED BY <2>2 DEF Sounds
<1>5. ASSUME Live(p), Sounds(p) PROVE Sounds(q)
  <2>1. e.tracked = <<ev>>
    BY <1>1, <1>5 DEF Current
  <2>2. q = e
    BY <2>1, <1>0, <1>1, <1>2, ReactFacts
  <2>3. QED BY <2>2, <1>1, <1>5 DEF Sounds
<1> HIDE DEF q
<1>6. React([p EXCEPT !.st = l], Events(song, score)) = q
  BY DEF q, e
<1>7. QED BY <1>3, <1>c, <1>4, <1>5, <1>6

\* play() after its awaits: it plays, armed and with every track, or ends idle.
LEMMA BeginFacts ==
    ASSUME TransportTypeOK, NEW p \in Players, Current(p), NEW s \in Songs
    PROVE  LET q == Begin(p, s) IN
           /\ q \in Players /\ q.st \in {"idle", "playing"}
           /\ Current(q)
           /\ q.st = "playing" => q.timer /\ q.ctl = Ids(tracks)
           /\ ~Live(p) /\ Quiet(p) => InTune(q)
<1>0. Events(song, score) \in SUBSET Notes /\ Events(s, score) \in SUBSET Notes /\ {} \in SUBSET Notes
        /\ Ids(tracks) \in SUBSET TrackIds
  BY LoadedFacts, EventsAreNotes DEF TransportTypeOK
<1>1. CASE score[s] = {}
  <2> DEFINE e == [p EXCEPT !.st = "idle", !.timeline = NoSong]
             q == React(e, {})
  <2>1. /\ e \in Players /\ e.st = "idle" /\ e.ctl = p.ctl /\ e.timer = p.timer
        /\ e.events = p.events /\ e.drums = p.drums /\ e.doubled = p.doubled
    BY DEF Players
  <2>2. ~Live(e)
    BY <2>1 DEF Live
  <2>3. Begin(p, s) = q
    BY <1>1 DEF Begin
  <2> HIDE DEF e
  <2>4. /\ q \in Players /\ q.st = "idle" /\ q.tracked = <<>> /\ q.ctl = p.ctl
        /\ q.timer = p.timer /\ q.events = p.events /\ q.drums = p.drums
        /\ q.doubled = p.doubled
    BY <1>0, <2>1, <2>2, ReactFacts
  <2> HIDE DEF q
  <2>5. ~Live(q)
    BY <2>4 DEF Live
  <2>6. Quiet(p) => Quiet(q)
    BY <2>4 DEF Quiet
  <2>7. QED BY <2>3, <2>4, <2>5, <2>6 DEF Current, InTune
<1>2. CASE score[s] # {}
  <2> DEFINE ev == Events(s, score)
             e == [p EXCEPT !.events = ev]
             c == Scheduled(e, ev)
             b == [c EXCEPT !.st = "playing", !.ctl = Ids(tracks), !.timeline = s,
                            !.by = s, !.timer = TRUE]
             q == React(b, Events(song, score))
  <2>1. e \in Players /\ e.tracked = p.tracked
    BY <1>0 DEF Players
  <2>2. Begin(p, s) = q
    BY <1>2 DEF Begin
  <2> HIDE DEF e
  <2>3. c \in Players /\ c.tracked = p.tracked
    BY <1>0, <2>1, ScheduledFacts
  <2> HIDE DEF c
  <2>4. /\ b \in Players /\ b.st = "playing" /\ b.ctl = Ids(tracks) /\ b.timer
        /\ b.tracked = p.tracked
    BY <1>0, <2>3 DEF Players
  <2>5. Live(b)
    BY <2>4 DEF Live
  <2> HIDE DEF b
  <2>6. /\ q \in Players /\ q.st = "playing" /\ q.ctl = Ids(tracks) /\ q.timer
        /\ q.tracked = <<Events(song, score)>>
    BY <1>0, <2>4, <2>5, ReactFacts
  <2>7. ASSUME ~Live(p) PROVE Sounds(q)
    <3>1. b.tracked # <<Events(song, score)>>
      BY <2>4, <2>7 DEF Current
    <3>2. q.events = Events(song, score) /\ q.drums = Audible(Events(song, score)) /\ ~q.doubled
      BY <3>1, <1>0, <2>4, <2>5, ReactFacts
    <3>3. QED BY <3>2 DEF Sounds
  <2> HIDE DEF q
  <2>8. Live(q)
    BY <2>6 DEF Live
  <2>9. QED BY <2>2, <2>6, <2>7, <2>8 DEF Current, InTune
<1>3. QED BY <1>1, <1>2

\* resume() after its await: it plays, armed, with every track it has a controller for.
LEMMA ContinueFacts ==
    ASSUME TransportTypeOK, NEW p \in Players, Current(p)
    PROVE  LET q == Continue(p) IN
           /\ q \in Players /\ q.st = "playing" /\ q.timer
           /\ q.ctl # NoCtl => q.ctl = Ids(tracks)
           /\ Current(q)
           /\ ~Live(p) \/ Sounds(p) => InTune(q)
<1> DEFINE r == React([p EXCEPT !.st = "playing"], Events(song, score))
           a == AudioScheduled(r, tracks)
           q == [a EXCEPT !.timer = TRUE]
<1>1. /\ r \in Players /\ r.st = "playing" /\ Current(r)
      /\ ~Live(p) \/ Sounds(p) => Sounds(r)
  BY PutFacts
<1>2. Continue(p) = q
  BY DEF Continue
<1> HIDE DEF r
<1>3. /\ a \in Players /\ a.st = "playing" /\ a.tracked = r.tracked
      /\ a.events = r.events /\ a.drums = r.drums /\ a.doubled = r.doubled
      /\ a.ctl # NoCtl => a.ctl = Ids(tracks)
  BY <1>1, LoadedFacts, AudioScheduledFacts
<1> HIDE DEF a
<1>4. /\ q \in Players /\ q.st = "playing" /\ q.timer /\ q.tracked = r.tracked
      /\ q.events = r.events /\ q.drums = r.drums /\ q.doubled = r.doubled
      /\ q.ctl # NoCtl => q.ctl = Ids(tracks)
  BY <1>3 DEF Players
<1> HIDE DEF q
<1>5. Live(q) /\ Live(r)
  BY <1>1, <1>4 DEF Live
<1>6. Sounds(r) => Sounds(q)
  BY <1>4 DEF Sounds
<1>7. QED BY <1>1, <1>2, <1>4, <1>5, <1>6 DEF Current, InTune

-----------------------------------------------------------------------------
(***************************************************************************)
(* The transport's tasks.                                                  *)
(***************************************************************************)
LEMMA TransportParts ==
    ASSUME TransportInv
    PROVE  /\ TransportTypeOK /\ player \in Players
           /\ Current(player)
           /\ ~overlap => InTune(player)
           /\ Ids(tracks) \in SUBSET TrackIds
           /\ Events(song, score) \in SUBSET Notes
BY LoadedFacts DEF TransportInv, TransportTypeOK, Tracking, Current, Schedule, InTune

\* A step that makes no call, drops calls at most, and puts nothing on the transport.
LEMMA PlayerMoves ==
    ASSUME TransportInv, TransportTypeOK',
           waiting' \in {waiting, <<>>}, ctxQ' = ctxQ, overlap' = overlap,
           tracks' \subseteq tracks, minted' = minted, ctx # "none" => ctx' = ctx,
           Current(player)', ~overlap => InTune(player)',
           Live(player)' => player'.st = player.st,
           player'.st = "playing" /\ player.timer => player'.timer,
           ctxQ = <<>> /\ player'.st = "playing" /\ player'.ctl # NoCtl =>
               player'.ctl = Ids(tracks)'
    PROVE  TransportInv'
<1>1. Tracking' /\ Schedule'
  BY DEF Tracking, Current, Schedule, InTune
<1>2. TracksOnce'
  BY DEF TransportInv, TracksOnce
<1>3. Live(player)' => Live(player)
  BY DEF Live
<1>4. OneCall'
  <2>1. Len(waiting') <= Len(waiting) /\ Len(waiting') \in Nat /\ Len(waiting) \in Nat /\ Len(ctxQ) \in Nat
    BY DEF TransportInv, TransportTypeOK
  <2>2. Awaited' => Awaited
    BY DEF Awaited
  <2>3. QED BY <2>1, <2>2, <1>3 DEF TransportInv, OneCall
<1>5. PlayingIsArmed'
  <2>1. player'.st = "playing" => player.st = "playing"
    BY DEF Live
  <2>2. QED BY <2>1 DEF TransportInv, PlayingIsArmed
<1>6. TracksFollowTransport'
  <2>1. player'.st = "paused" => player.st = "paused"
    BY DEF Live
  <2>2. QED BY <2>1 DEF TransportInv, TracksFollowTransport
<1>7. QED BY <1>1, <1>2, <1>4, <1>5, <1>6 DEF TransportInv

\* A transport call: it is noted when another is outstanding.
LEMMA NotedFacts ==
    ASSUME TransportInv, Noted
    PROVE  overlap' \in BOOLEAN /\ (~overlap' => ~overlap /\ waiting = <<>> /\ ctxQ = <<>>)
BY DEF TransportInv, TransportTypeOK, Noted, Outstanding

\* play() up to its first wait, or to its end when there is nothing to wait for.
LEMMA PlayStep == ASSUME TransportInv, Play PROVE TransportInv'
<1> DEFINE stopped == Stopped(player)
           loading == [stopped EXCEPT !.st = "loading"]
<1>1. /\ player.st = "idle" /\ song \in Songs
      /\ UNCHANGED <<song, score, muted, tracks, minted>>
  BY DEF Play, TransportInv, TransportTypeOK
<1>2. stopped \in Players /\ Quiet(stopped) /\ stopped.tracked = <<>>
  <2>1. player.tracked = <<>>
    BY <1>1, TransportParts DEF Current, Live
  <2>2. QED BY <2>1, TransportParts, StoppedFacts
<1> HIDE DEF stopped
<1>3. loading \in Players /\ loading.st = "loading" /\ loading.tracked = <<>> /\ Quiet(loading)
  BY <1>2 DEF Players, Quiet
<1>a. \/ /\ ctxQ' = Append(ctxQ, [who |-> "play", song |-> song])
         /\ player' = loading /\ UNCHANGED <<kit, waiting, ctx>>
      \/ /\ player' = Begin(loading, song) /\ UNCHANGED <<kit, waiting, ctx, ctxQ>>
         /\ ctx # "suspended"
      \/ /\ waiting' = Append(waiting, song) /\ player' = loading
         /\ kit' = "loading" /\ ContextMade /\ UNCHANGED ctxQ
  BY DEF Play, stopped
<1> HIDE DEF loading
<1>4. ~Live(loading) /\ Current(loading) /\ InTune(loading)
  BY <1>3 DEF Live, Current, InTune
<1>5. TracksOnce'
  BY <1>1 DEF TransportInv, TracksOnce
<1>6. Noted
  BY DEF Play
<1>7. overlap' \in BOOLEAN /\ (~overlap' => ~overlap /\ waiting = <<>> /\ ctxQ = <<>>)
  BY <1>6, NotedFacts
<1>8. CASE /\ ctxQ' = Append(ctxQ, [who |-> "play", song |-> song])
           /\ player' = loading /\ UNCHANGED <<kit, waiting, ctx>>
  <2>1. [who |-> "play", song |-> song] \in Calls
    BY <1>1 DEF Calls
  <2>2. ctxQ' \in Seq(Calls) /\ ctxQ' # <<>> /\ (ctxQ = <<>> => Len(ctxQ') = 1)
    BY <2>1, <1>8, AppendProperties DEF TransportInv, TransportTypeOK
  <2>3. TransportTypeOK'
    BY <2>2, <1>1, <1>3, <1>7, <1>8 DEF TransportInv, TransportTypeOK
  <2>4. Tracking' /\ Schedule'
    BY <1>1, <1>4, <1>3, <1>8 DEF Tracking, Current, Schedule, InTune, Live, Quiet
  <2>5. OneCall'
    BY <1>4, <1>7, <1>8, <2>2 DEF OneCall, Live
  <2>6. PlayingIsArmed' /\ TracksFollowTransport'
    BY <1>3, <1>8, <2>2 DEF PlayingIsArmed, TracksFollowTransport
  <2>7. QED BY <2>3, <2>4, <2>5, <2>6, <1>5 DEF TransportInv
<1>9. CASE /\ player' = Begin(loading, song) /\ UNCHANGED <<kit, waiting, ctx, ctxQ>>
           /\ ctx # "suspended"
  <2> DEFINE q == Begin(loading, song)
  <2>1. /\ q \in Players /\ q.st \in {"idle", "playing"} /\ Current(q) /\ InTune(q)
        /\ q.st = "playing" => q.timer /\ q.ctl = Ids(tracks)
    BY <1>1, <1>3, <1>4, TransportParts, BeginFacts
  <2> HIDE DEF q
  <2>q. player' = q
    BY <1>9 DEF q
  <2>2. TransportTypeOK'
    BY <2>1, <2>q, <1>1, <1>7, <1>9 DEF TransportInv, TransportTypeOK
  <2>3. Tracking' /\ Schedule'
    BY <1>1, <2>1, <2>q DEF Tracking, Current, Schedule, InTune, Live, Quiet, Sounds, Audible
  <2>4. OneCall'
    BY <1>7, <1>9 DEF OneCall, Awaited
  <2>5. PlayingIsArmed' /\ TracksFollowTransport'
    BY <1>1, <2>1, <2>q, <1>9 DEF PlayingIsArmed, TracksFollowTransport
  <2>6. QED BY <2>2, <2>3, <2>4, <2>5, <1>5 DEF TransportInv
<1>10. CASE /\ waiting' = Append(waiting, song) /\ player' = loading
            /\ kit' = "loading" /\ ContextMade /\ UNCHANGED ctxQ
  <2>1. waiting' \in Seq(Songs) /\ (waiting = <<>> => Len(waiting') = 1)
    BY <1>1, <1>10, AppendProperties DEF TransportInv, TransportTypeOK
  <2>2. ctx' \in {"none", "suspended", "running"}
    BY <1>10 DEF ContextMade, TransportInv, TransportTypeOK
  <2>3. TransportTypeOK'
    BY <2>1, <2>2, <1>1, <1>3, <1>7, <1>10 DEF TransportInv, TransportTypeOK
  <2>4. Tracking' /\ Schedule'
    BY <1>1, <1>4, <1>3, <1>10 DEF Tracking, Current, Schedule, InTune, Live, Quiet
  <2>5. OneCall'
    BY <1>4, <1>7, <1>10, <2>1 DEF OneCall, Live
  <2>6. PlayingIsArmed' /\ TracksFollowTransport'
    BY <1>3, <1>10 DEF PlayingIsArmed, TracksFollowTransport
  <2>7. QED BY <2>3, <2>4, <2>5, <2>6, <1>5 DEF TransportInv
<1>11. QED BY <1>a, <1>8, <1>9, <1>10

\* The kit is loaded; the calls that wait for it have not gone on yet.
LEMMA KitLoadedStep == ASSUME TransportInv, KitLoaded PROVE TransportInv'
<1>1. TransportTypeOK'
  BY DEF KitLoaded, TransportInv, TransportTypeOK
<1>2. Current(player)' /\ (~overlap => InTune(player)')
  BY TransportParts DEF KitLoaded, Current, InTune, Live, Quiet, Sounds, Audible
<1>3. ctxQ = <<>> /\ player'.st = "playing" /\ player'.ctl # NoCtl => player'.ctl = Ids(tracks)'
  BY DEF KitLoaded, TransportInv, TracksFollowTransport
<1>4. QED BY <1>1, <1>2, <1>3, PlayerMoves DEF KitLoaded

\* One of them goes on: it begins, or waits for the context.
LEMMA PlayGoesOnStep == ASSUME TransportInv, PlayGoesOn PROVE TransportInv'
<1> DEFINE s == Head(waiting)
<1>1. /\ waiting # <<>> /\ waiting' = Tail(waiting)
      /\ UNCHANGED <<song, score, muted, tracks, minted, kit, ctx, overlap>>
  BY DEF PlayGoesOn, Drained
<1>2. s \in Songs /\ waiting' \in Seq(Songs) /\ Len(waiting') = Len(waiting) - 1
        /\ Len(waiting) \in Nat \ {0}
  BY <1>1, HeadTailProperties, EmptySeq, LenProperties DEF TransportInv, TransportTypeOK
<1>3. Len(ctxQ) \in Nat
  BY LenProperties DEF TransportInv, TransportTypeOK
<1>4. ~overlap => ctxQ = <<>> /\ waiting' = <<>> /\ ~Live(player)
  <2>1. ASSUME ~overlap PROVE Len(waiting) = 1 /\ Len(ctxQ) = 0
    BY <2>1, <1>2, <1>3 DEF TransportInv, OneCall
  <2>2. ~overlap => ctxQ = <<>> /\ waiting' = <<>>
    <3>1. ~overlap => Len(waiting') = 0 /\ Len(ctxQ) = 0
      BY <2>1, <1>2
    <3>2. waiting' \in Seq(Songs) /\ ctxQ \in Seq(Calls)
      BY <1>2 DEF TransportInv, TransportTypeOK
    <3>3. QED BY <3>1, <3>2, EmptySeq
  <2>3. Awaited
    BY <1>1 DEF Awaited
  <2>4. QED BY <2>2, <2>3 DEF TransportInv, OneCall
<1>5. TracksOnce'
  BY <1>1 DEF TransportInv, TracksOnce
<1>a. \/ /\ ctxQ' = Append(ctxQ, [who |-> "play", song |-> s]) /\ player' = player
      \/ /\ ctx # "suspended" /\ ctxQ' = ctxQ /\ player' = Begin(player, s)
  BY DEF PlayGoesOn
<1> HIDE DEF s
<1>6. CASE ctxQ' = Append(ctxQ, [who |-> "play", song |-> s]) /\ player' = player
  <2>1. [who |-> "play", song |-> s] \in Calls
    BY <1>2 DEF Calls
  <2>2. /\ ctxQ' \in Seq(Calls) /\ ctxQ' # <<>> /\ (ctxQ = <<>> => Len(ctxQ') = 1)
        /\ \A i \in DOMAIN ctxQ : i \in DOMAIN ctxQ' /\ ctxQ'[i] = ctxQ[i]
    BY <2>1, <1>6, AppendProperties DEF TransportInv, TransportTypeOK
  <2>3. TransportTypeOK'
    BY <2>2, <1>1, <1>2, <1>6 DEF TransportInv, TransportTypeOK
  <2>4. Tracking' /\ Schedule'
    BY <1>1, <1>6, TransportParts DEF Tracking, Current, Schedule, InTune, Live, Quiet, Sounds, Audible
  <2>5. OneCall'
    BY <1>1, <1>4, <1>6, <2>2 DEF OneCall, Live
  <2>6. PlayingIsArmed' /\ TracksFollowTransport'
    BY <1>6, <2>2 DEF TransportInv, PlayingIsArmed, TracksFollowTransport
  <2>7. QED BY <2>3, <2>4, <2>5, <2>6, <1>5 DEF TransportInv
<1>7. CASE ctx # "suspended" /\ ctxQ' = ctxQ /\ player' = Begin(player, s)
  <2> DEFINE q == Begin(player, s)
  <2>1. /\ q \in Players /\ q.st \in {"idle", "playing"} /\ Current(q)
        /\ ~Live(player) /\ Quiet(player) => InTune(q)
        /\ q.st = "playing" => q.timer /\ q.ctl = Ids(tracks)
    BY <1>2, TransportParts, BeginFacts
  <2> HIDE DEF q
  <2>q. player' = q
    BY <1>7 DEF q
  <2>2. ~overlap => InTune(q)
    BY <2>1, <1>4, TransportParts DEF InTune
  <2>3. TransportTypeOK'
    BY <2>1, <2>q, <1>1, <1>2, <1>7 DEF TransportInv, TransportTypeOK
  <2>4. Tracking' /\ Schedule'
    BY <1>1, <2>1, <2>2, <2>q DEF Tracking, Current, Schedule, InTune, Live, Quiet, Sounds, Audible
  <2>5. OneCall'
    <3>1. ~overlap' => waiting' = <<>> /\ ctxQ' = <<>>
      BY <1>1, <1>4, <1>7
    <3>2. QED BY <3>1 DEF OneCall, Awaited
  <2>6. PlayingIsArmed' /\ TracksFollowTransport'
    BY <1>1, <2>1, <2>q, <1>7 DEF PlayingIsArmed, TracksFollowTransport
  <2>7. QED BY <2>3, <2>4, <2>5, <2>6, <1>5 DEF TransportInv
<1>8. QED BY <1>a, <1>6, <1>7

\* Every handler that stops playback clears the schedule, the tracks and the timer.
LEMMA StopFacts ==
    ASSUME TransportInv
    PROVE  LET q == React(Stopped(player), {}) IN
           q \in Players /\ q.st = "idle" /\ q.tracked = <<>> /\ Quiet(q)
<1> DEFINE s == Stopped(player)
           q == React(s, {})
<1>1. s \in Players /\ s.st = "idle" /\ Quiet(s)
  BY TransportParts, StoppedFacts
<1> HIDE DEF s
<1>2. ~Live(s) /\ {} \in SUBSET Notes
  BY <1>1 DEF Live
<1>3. /\ q \in Players /\ q.st = "idle" /\ q.tracked = <<>> /\ q.ctl = s.ctl
      /\ q.timer = s.timer /\ q.events = s.events /\ q.drums = s.drums /\ q.doubled = s.doubled
  BY <1>1, <1>2, ReactFacts
<1> HIDE DEF q
<1>4. Quiet(q)
  BY <1>1, <1>3 DEF Quiet
<1>5. QED BY <1>3, <1>4 DEF q, s

\* A stop, with whatever else its task does to the tracks.
LEMMA StopStep ==
    ASSUME TransportInv, player' = React(Stopped(player), {}), TransportTypeOK',
           waiting' = waiting, ctxQ' = ctxQ, overlap' = overlap,
           tracks' \subseteq tracks, minted' = minted, ctx # "none" => ctx' = ctx
    PROVE  TransportInv'
<1>1. player'.st = "idle" /\ player'.tracked = <<>> /\ Quiet(player')
  BY StopFacts
<1>2. ~Live(player)'
  BY <1>1 DEF Live
<1>3. Current(player)' /\ InTune(player)'
  BY <1>1, <1>2 DEF Current, InTune, Quiet
<1>4. QED BY <1>1, <1>2, <1>3, PlayerMoves

\* The kit load fails, and with it the calls that wait for it.
LEMMA KitFailedStep == ASSUME TransportInv, KitFailed PROVE TransportInv'
<1> DEFINE e == [player EXCEPT !.st = "idle", !.timeline = NoSong]
           q == React(e, {})
<1>0. /\ waiting' = <<>> /\ kit' = "none" /\ player' = IF waiting = <<>> THEN player ELSE q
      /\ UNCHANGED <<song, score, muted, tracks, minted, ctx, ctxQ, overlap>>
  BY DEF KitFailed
<1>1. /\ e \in Players /\ e.st = "idle" /\ e.ctl = player.ctl /\ e.timer = player.timer
      /\ e.events = player.events /\ e.drums = player.drums /\ e.doubled = player.doubled
  BY TransportParts DEF Players
<1> HIDE DEF e
<1>2. ~Live(e) /\ {} \in SUBSET Notes
  BY <1>1 DEF Live
<1>3. /\ q \in Players /\ q.st = "idle" /\ q.tracked = <<>> /\ q.ctl = player.ctl
      /\ q.timer = player.timer /\ q.events = player.events /\ q.drums = player.drums
      /\ q.doubled = player.doubled
  BY <1>1, <1>2, ReactFacts
<1> HIDE DEF q
<1>4. CASE waiting = <<>>
  <2>1. TransportTypeOK'
    BY <1>0, <1>4 DEF TransportInv, TransportTypeOK
  <2>2. Current(player)' /\ (~overlap => InTune(player)')
    BY <1>0, <1>4, TransportParts DEF Current, InTune, Live, Quiet, Sounds, Audible
  <2>3. ctxQ = <<>> /\ player'.st = "playing" /\ player'.ctl # NoCtl => player'.ctl = Ids(tracks)'
    BY <1>0, <1>4 DEF TransportInv, TracksFollowTransport
  <2>4. QED BY <2>1, <2>2, <2>3, <1>0, <1>4, PlayerMoves
<1>5. CASE waiting # <<>>
  <2>1. player' = q
    BY <1>0, <1>5
  <2>2. TransportTypeOK'
    BY <1>0, <1>3, <2>1 DEF TransportInv, TransportTypeOK
  <2>3. ~Live(player)'
    BY <1>3, <2>1 DEF Live
  <2>4. ~overlap => Quiet(player')
    <3>1. ~overlap => ~Live(player)
      BY <1>5 DEF TransportInv, OneCall, Awaited
    <3>2. ~overlap => Quiet(player)
      BY <3>1, TransportParts DEF InTune
    <3>3. QED BY <3>2, <1>3, <2>1 DEF Quiet
  <2>5. Current(player)' /\ (~overlap => InTune(player)')
    BY <1>3, <2>1, <2>3, <2>4 DEF Current, InTune, Quiet
  <2>6. player'.st = "idle"
    BY <1>3, <2>1
  <2>7. QED BY <2>2, <2>3, <2>5, <2>6, <1>0, PlayerMoves
<1>6. QED BY <1>4, <1>5

\* pause() up to its wait: the timer and the sources go, the state stays.
LEMMA PauseStep == ASSUME TransportInv, Pause PROVE TransportInv'
<1> DEFINE c == [who |-> "pause", song |-> NoSong]
<1>1. /\ player.st = "playing" /\ ctxQ' = Append(ctxQ, c)
      /\ player' = [player EXCEPT !.timer = FALSE, !.ctl = IF @ = NoCtl THEN NoCtl ELSE {}]
      /\ UNCHANGED <<song, score, muted, tracks, minted, kit, waiting, ctx>>
  BY DEF Pause
<1>2. overlap' \in BOOLEAN /\ (~overlap' => ~overlap /\ waiting = <<>> /\ ctxQ = <<>>)
  BY NotedFacts DEF Pause
<1>3. /\ player' \in Players /\ player'.st = "playing" /\ player'.tracked = player.tracked
      /\ player'.events = player.events /\ player'.drums = player.drums
      /\ player'.doubled = player.doubled
  BY <1>1, TransportParts DEF Players
<1>4. /\ ctxQ' \in Seq(Calls) /\ Len(ctxQ') = Len(ctxQ) + 1 /\ ctxQ'[Len(ctxQ) + 1] = c
      /\ Len(ctxQ) \in Nat /\ DOMAIN ctxQ' = 1 .. Len(ctxQ')
  <2>1. c \in Calls
    BY DEF Calls
  <2>2. QED BY <2>1, <1>1, AppendProperties, LenProperties DEF TransportInv, TransportTypeOK
<1>5. ctxQ' # <<>> /\ \E i \in DOMAIN ctxQ' : ctxQ'[i].who = "pause"
  BY <1>4
<1>6. TransportTypeOK'
  BY <1>1, <1>2, <1>3, <1>4 DEF TransportInv, TransportTypeOK
<1>7. Tracking' /\ Schedule'
  BY <1>1, <1>2, <1>3, TransportParts
     DEF Tracking, Current, Schedule, InTune, Live, Quiet, Sounds, Audible
<1>8. OneCall'
  <2>1. ~overlap' => Len(ctxQ') = 1 /\ ~Awaited'
    BY <1>1, <1>2, <1>4 DEF Awaited
  <2>2. QED BY <2>1, <1>1, <1>2 DEF OneCall
<1>9. TracksOnce'
  BY <1>1 DEF TransportInv, TracksOnce
<1>10. PlayingIsArmed' /\ TracksFollowTransport'
  BY <1>5 DEF PlayingIsArmed, TracksFollowTransport
<1>11. QED BY <1>6, <1>7, <1>8, <1>9, <1>10 DEF TransportInv

\* resume() up to its wait changes no field of the engine.
LEMMA ResumeStep == ASSUME TransportInv, Resume PROVE TransportInv'
<1> DEFINE c == [who |-> "resume", song |-> NoSong]
<1>1. /\ player.st = "paused" /\ ctxQ' = Append(ctxQ, c)
      /\ UNCHANGED <<song, score, muted, tracks, minted, kit, waiting, ctx, player>>
  BY DEF Resume
<1>2. overlap' \in BOOLEAN /\ (~overlap' => ~overlap /\ waiting = <<>> /\ ctxQ = <<>>)
  BY NotedFacts DEF Resume
<1>4. /\ ctxQ' \in Seq(Calls) /\ Len(ctxQ') = Len(ctxQ) + 1 /\ ctxQ'[Len(ctxQ) + 1] = c
      /\ Len(ctxQ) \in Nat /\ DOMAIN ctxQ' = 1 .. Len(ctxQ')
  <2>1. c \in Calls
    BY DEF Calls
  <2>2. QED BY <2>1, <1>1, AppendProperties, LenProperties DEF TransportInv, TransportTypeOK
<1>5. ctxQ' # <<>>
  BY <1>4
<1>6. TransportTypeOK'
  BY <1>1, <1>2, <1>4 DEF TransportInv, TransportTypeOK
<1>7. Tracking' /\ Schedule'
  BY <1>1, <1>2, TransportParts
     DEF Tracking, Current, Schedule, InTune, Live, Quiet, Sounds, Audible
<1>8. OneCall'
  <2>1. ~overlap' => Len(ctxQ') = 1 /\ ~Awaited'
    BY <1>1, <1>2, <1>4 DEF Awaited
  <2>2. QED BY <2>1, <1>1, <1>2 DEF OneCall
<1>9. TracksOnce'
  BY <1>1 DEF TransportInv, TracksOnce
<1>10. PlayingIsArmed' /\ TracksFollowTransport'
  BY <1>5, <1>1 DEF PlayingIsArmed, TracksFollowTransport
<1>11. QED BY <1>6, <1>7, <1>8, <1>9, <1>10 DEF TransportInv

\* The oldest call outstanding on the context goes on, whatever has happened meanwhile.
LEMMA ContextDoneStep == ASSUME TransportInv, ContextDone PROVE TransportInv'
<1> DEFINE c == Head(ctxQ)
           put == React([player EXCEPT !.st = "paused"], Events(song, score))
           on == Continue(player)
           begun == Begin(player, c.song)
<1>1. /\ ctxQ # <<>> /\ ctxQ' = Tail(ctxQ)
      /\ UNCHANGED <<song, score, muted, tracks, minted, kit, waiting, overlap>>
      /\ ctx' = ContextAfter(c.who)
  BY DEF ContextDone
<1>2. /\ c \in Calls /\ c = ctxQ[1] /\ 1 \in DOMAIN ctxQ
      /\ ctxQ' \in Seq(Calls) /\ Len(ctxQ') = Len(ctxQ) - 1
      /\ Len(ctxQ) \in Nat \ {0}
      /\ \A i \in 1 .. Len(ctxQ') : ctxQ'[i] = ctxQ[i + 1] /\ i + 1 \in DOMAIN ctxQ
      /\ DOMAIN ctxQ = 1 .. Len(ctxQ) /\ DOMAIN ctxQ' = 1 .. Len(ctxQ')
  BY <1>1, HeadTailProperties, EmptySeq, LenProperties DEF TransportInv, TransportTypeOK
<1>3. Len(waiting) \in Nat /\ waiting \in Seq(Songs)
  BY LenProperties DEF TransportInv, TransportTypeOK
<1>4. ~overlap => waiting = <<>> /\ ctxQ' = <<>> /\ (c.who = "play" => ~Live(player))
  <2>1. ASSUME ~overlap PROVE Len(waiting) = 0 /\ Len(ctxQ') = 0
    BY <2>1, <1>2, <1>3 DEF TransportInv, OneCall
  <2>2. ~overlap => ctxQ' = <<>> /\ waiting = <<>>
    BY <2>1, <1>2, <1>3, EmptySeq
  <2>3. c.who = "play" => Awaited
    BY <1>2 DEF Awaited
  <2>4. QED BY <2>2, <2>3 DEF TransportInv, OneCall
<1>5. c.who \in {"play", "pause", "resume"}
  BY <1>2 DEF Calls
<1>w. /\ c.who = "pause" => player' = put
      /\ c.who = "resume" => player' = on
      /\ c.who = "play" => player' = begun
  BY <1>5 DEF ContextDone
<1>s. c.who = "play" => c.song \in Songs
  BY <1>2 DEF Calls
<1> HIDE DEF c
<1>6. /\ player' \in Players
      /\ Current(player')
      /\ ~overlap => InTune(player')
      /\ player'.st = "playing" =>
             c.who # "pause" /\ player'.timer /\ (player'.ctl # NoCtl => player'.ctl = Ids(tracks))
      /\ player'.st = "paused" => c.who = "pause"
  <2>1. CASE c.who = "pause"
    <3>1. /\ put \in Players /\ put.st = "paused" /\ Current(put)
          /\ ~Live(player) \/ Sounds(player) => Sounds(put)
      BY TransportParts, PutFacts
    <3> HIDE DEF put
    <3>2. Live(put)
      BY <3>1 DEF Live
    <3>3. ~overlap => Sounds(put)
      BY <3>1, TransportParts DEF InTune
    <3>4. player' = put
      BY <1>w, <2>1
    <3>5. InTune(put) <=> Sounds(put)
      BY <3>2 DEF InTune
    <3>6. QED BY <3>1, <3>3, <3>4, <3>5, <2>1
  <2>2. CASE c.who = "resume"
    <3>1. /\ on \in Players /\ on.st = "playing" /\ on.timer
          /\ on.ctl # NoCtl => on.ctl = Ids(tracks)
          /\ Current(on)
          /\ ~Live(player) \/ Sounds(player) => InTune(on)
      BY TransportParts, ContinueFacts
    <3> HIDE DEF on
    <3>3. ~overlap => InTune(on)
      BY <3>1, TransportParts DEF InTune
    <3>4. player' = on
      BY <1>w, <2>2
    <3>5. QED BY <3>1, <3>3, <3>4, <2>2
  <2>3. CASE c.who = "play"
    <3>1. /\ begun \in Players /\ begun.st \in {"idle", "playing"} /\ Current(begun)
          /\ begun.st = "playing" => begun.timer /\ begun.ctl = Ids(tracks)
          /\ ~Live(player) /\ Quiet(player) => InTune(begun)
      BY <1>s, <2>3, TransportParts, BeginFacts
    <3> HIDE DEF begun
    <3>3. ~overlap => InTune(begun)
      BY <3>1, <1>4, <2>3, TransportParts DEF InTune
    <3>4. player' = begun
      BY <1>w, <2>3
    <3>5. QED BY <3>1, <3>3, <3>4, <2>3
  <2>4. QED BY <1>5, <2>1, <2>2, <2>3
<1>7. TransportTypeOK'
  <2>1. ctx' \in {"suspended", "running"}
    BY <1>1 DEF ContextAfter
  <2>2. QED BY <2>1, <1>1, <1>2, <1>6 DEF TransportInv, TransportTypeOK
<1>8. Tracking' /\ Schedule'
  BY <1>1, <1>6 DEF Tracking, Current, Schedule, InTune, Live, Quiet, Sounds, Audible
<1>9. OneCall'
  <2>1. ~overlap' => waiting' = <<>> /\ ctxQ' = <<>>
    BY <1>1, <1>4
  <2>2. QED BY <2>1 DEF OneCall, Awaited
<1>10. TracksOnce'
  BY <1>1 DEF TransportInv, TracksOnce
<1>11. PlayingIsArmed' /\ TracksFollowTransport'
  <2>1. player'.st = "paused" => ctx' = "suspended"
    BY <1>1, <1>6 DEF ContextAfter
  <2>2. Ids(tracks)' = Ids(tracks)
    BY <1>1 DEF Ids
  <2>3. QED BY <1>6, <2>1, <2>2 DEF PlayingIsArmed, TracksFollowTransport
<1>12. QED BY <1>7, <1>8, <1>9, <1>10, <1>11 DEF TransportInv

\* The Stop button, and the timer at the end of the song.
LEMMA StopsStep == ASSUME TransportInv, StopButton \/ TailTimer PROVE TransportInv'
<1>1. /\ player' = React(Stopped(player), {})
      /\ UNCHANGED <<song, score, muted, tracks, minted, kit, waiting, ctx, ctxQ, overlap>>
  BY DEF StopButton, TailTimer
<1>2. TransportTypeOK'
  BY <1>1, StopFacts DEF TransportInv, TransportTypeOK
<1>3. QED BY <1>1, <1>2, StopStep

\* An edit of the loaded document, by hand or by a transcription that lands.
LEMMA EditStep ==
    ASSUME TransportInv, NEW sc \in [Songs -> SUBSET Lanes],
           score' = sc, player' = Seen(player, song, sc),
           UNCHANGED <<song, muted, tracks, minted, kit, waiting, ctx, ctxQ, overlap>>
    PROVE  TransportInv'
<1> DEFINE ev == Events(song, sc)
           q == React(player, ev)
<1>1. player' = q /\ ev = Events(song, score)'
  BY DEF Seen, Events
<1>2. ev \in SUBSET Notes
  BY EventsAreNotes DEF TransportInv, TransportTypeOK
<1> HIDE DEF ev
<1>3. /\ q \in Players /\ q.st = player.st /\ q.ctl = player.ctl
      /\ q.tracked = IF Live(player) THEN <<ev>> ELSE <<>>
      /\ player.timer => q.timer
  BY <1>2, TransportParts, ReactFacts
<1>4. ~Live(player) => /\ q.events = player.events /\ q.drums = player.drums
                       /\ q.doubled = player.doubled /\ q.timer = player.timer
  BY <1>2, TransportParts, ReactFacts
<1>5. ~overlap /\ Live(player) => q.events = ev /\ q.drums = Audible(ev) /\ ~q.doubled
  <2>1. CASE player.tracked # <<ev>>
    BY <2>1, <1>2, TransportParts, ReactFacts
  <2>2. CASE player.tracked = <<ev>>
    <3>1. Live(player) => q = player /\ ev = Events(song, score)
      BY <2>2, <1>2, TransportParts, ReactFacts DEF Current
    <3>2. ~overlap /\ Live(player) => Sounds(player)
      BY TransportParts DEF InTune
    <3>3. QED BY <3>1, <3>2 DEF Sounds
  <2>3. QED BY <2>1, <2>2
<1> HIDE DEF q
<1>6. Live(q) <=> Live(player)
  BY <1>3 DEF Live
<1>7. Current(player)'
  BY <1>1, <1>3, <1>6 DEF Current, Live
<1>8. ~overlap => InTune(player)'
  <2>1. ~overlap /\ ~Live(player) => Quiet(q)
    BY <1>3, <1>4, TransportParts DEF InTune, Quiet
  <2>2. QED BY <2>1, <1>1, <1>5, <1>6 DEF InTune, Live, Sounds, Quiet, Audible
<1>9. TransportTypeOK'
  BY <1>1, <1>3 DEF TransportInv, TransportTypeOK
<1>10. ctxQ = <<>> /\ player'.st = "playing" /\ player'.ctl # NoCtl => player'.ctl = Ids(tracks)'
  BY <1>1, <1>3 DEF TransportInv, TracksFollowTransport, Ids
<1>11. QED BY <1>1, <1>3, <1>7, <1>8, <1>9, <1>10, PlayerMoves

\* A mute reschedules the events the engine holds.
LEMMA ToggleMuteStep ==
    ASSUME TransportInv, NEW l \in Lanes, ToggleMute(l) PROVE TransportInv'
<1> DEFINE c == Cancelled(player)
           d == {n \in player.events : n.lane \notin muted'}
           q == [c EXCEPT !.drums = d]
<1>1. /\ muted' \in SUBSET Lanes
      /\ player' = IF Live(player) THEN q ELSE player
      /\ UNCHANGED <<song, score, tracks, minted, kit, waiting, ctx, ctxQ, overlap>>
  BY DEF ToggleMute, FilterApplies, TransportInv, TransportTypeOK
<1>2. /\ c \in Players /\ ~c.doubled /\ c.st = player.st /\ c.events = player.events
      /\ c.ctl = player.ctl /\ c.timer = player.timer /\ c.tracked = player.tracked
  BY TransportParts, CancelledFacts
<1>3. d \in SUBSET Notes
  BY TransportParts DEF Players
<1> HIDE DEF c
<1>4. /\ q \in Players /\ q.drums = d /\ ~q.doubled /\ q.st = player.st /\ q.events = player.events
      /\ q.ctl = player.ctl /\ q.timer = player.timer /\ q.tracked = player.tracked
  BY <1>2, <1>3 DEF Players
<1> HIDE DEF q
<1>5. /\ player' \in Players /\ player'.st = player.st /\ player'.ctl = player.ctl
      /\ player'.timer = player.timer /\ player'.tracked = player.tracked
      /\ player'.events = player.events
      /\ Live(player) => player'.drums = d /\ ~player'.doubled
      /\ ~Live(player) => player' = player
  BY <1>1, <1>4, TransportParts
<1>6. Current(player)'
  BY <1>1, <1>5, TransportParts DEF Current, Live, Events
<1>7. ~overlap => InTune(player)'
  <2>1. ~overlap /\ Live(player) => Sounds(player)'
    <3>1. ~overlap /\ Live(player) => player.events = Events(song, score)
      BY TransportParts DEF InTune, Sounds
    <3>2. Events(song, score)' = Events(song, score)
      BY <1>1 DEF Events
    <3>3. Audible(Events(song, score))' = {n \in Events(song, score) : n.lane \notin muted'}
      BY <3>2 DEF Audible
    <3>4. QED BY <3>1, <3>2, <3>3, <1>5 DEF Sounds
  <2>2. ~overlap /\ ~Live(player) => Quiet(player')
    BY <1>5, TransportParts DEF InTune
  <2>3. Live(player)' <=> Live(player)
    BY <1>5 DEF Live
  <2>4. QED BY <2>1, <2>2, <2>3 DEF InTune, Quiet
<1>8. TransportTypeOK'
  BY <1>1, <1>5 DEF TransportInv, TransportTypeOK
<1>9. ctxQ = <<>> /\ player'.st = "playing" /\ player'.ctl # NoCtl => player'.ctl = Ids(tracks)'
  BY <1>1, <1>5 DEF TransportInv, TracksFollowTransport, Ids
<1>10. QED BY <1>1, <1>5, <1>6, <1>7, <1>8, <1>9, PlayerMoves

\* Drums handed out again, of the events the engine holds.
LEMMA RescheduledFacts ==
    ASSUME TransportInv
    PROVE  LET q == Scheduled(Cancelled(player), player.events) IN
           /\ q \in Players /\ q.st = player.st /\ q.ctl = player.ctl
           /\ q.timer = player.timer /\ q.tracked = player.tracked
           /\ ~overlap => InTune(q)
<1> DEFINE c == Cancelled(player)
           q == Scheduled(c, player.events)
<1>1. /\ c \in Players /\ c.drums = {} /\ ~c.doubled /\ c.st = player.st
      /\ c.events = player.events /\ c.ctl = player.ctl /\ c.timer = player.timer
      /\ c.tracked = player.tracked
  BY TransportParts, CancelledFacts
<1>2. player.events \in SUBSET Notes
  BY TransportParts DEF Players
<1> HIDE DEF c
<1>3. /\ q \in Players /\ q.drums = Audible(player.events) /\ ~q.doubled /\ q.st = player.st
      /\ q.events = player.events /\ q.ctl = player.ctl /\ q.timer = player.timer
      /\ q.tracked = player.tracked
  BY <1>1, <1>2, ScheduledFacts
<1> HIDE DEF q
<1>4. Live(q) <=> Live(player)
  BY <1>3 DEF Live
<1>5. ~overlap /\ Live(player) => Sounds(q)
  BY <1>3, TransportParts DEF InTune, Sounds
<1>6. ~overlap /\ ~Live(player) => Quiet(q)
  BY <1>3, TransportParts DEF InTune, Quiet, Audible
<1>7. InTune(q) <=> IF Live(q) THEN Sounds(q) ELSE Quiet(q)
  BY DEF InTune
<1>8. /\ q \in Players /\ q.st = player.st /\ q.ctl = player.ctl
      /\ q.timer = player.timer /\ q.tracked = player.tracked
      /\ ~overlap => InTune(q)
  BY <1>3, <1>4, <1>5, <1>6, <1>7
<1>9. QED BY <1>8 DEF q, c

\* The tail: armed only while playing.
LEMMA ArmedFacts ==
    ASSUME TransportInv, NEW q \in Players, Current(q), ~overlap => InTune(q)
    PROVE  LET r == TailArmed(q) IN
           /\ r \in Players /\ r.st = q.st /\ r.ctl = q.ctl /\ (q.timer => r.timer)
           /\ Current(r) /\ (~overlap => InTune(r))
<1> DEFINE r == TailArmed(q)
<1>1. /\ r \in Players /\ r.st = q.st /\ r.ctl = q.ctl /\ (q.timer => r.timer)
      /\ r.tracked = q.tracked /\ r.drums = q.drums /\ r.doubled = q.doubled
      /\ r.events = q.events /\ (r.timer => q.timer \/ q.st = "playing")
  BY TailArmedFacts
<1> HIDE DEF r
<1>2. (Live(r) <=> Live(q)) /\ (q.st = "playing" => Live(q))
  BY <1>1 DEF Live
<1>3. Current(r)
  BY <1>1, <1>2 DEF Current
<1>4. ~overlap => InTune(r)
  BY <1>1, <1>2 DEF InTune, Sounds, Quiet
<1>5. QED BY <1>1, <1>3, <1>4 DEF r

\* A handler that only rewrites the engine's fields in place.
LEMMA InPlaceStep ==
    ASSUME TransportInv, player' \in Players, player'.st = player.st,
           Current(player'), ~overlap => InTune(player'), player.timer => player'.timer,
           player'.ctl \in {player.ctl, Ids(tracks)},
           UNCHANGED <<song, score, muted, tracks, minted, kit, waiting, ctx, ctxQ, overlap>>
    PROVE  TransportInv'
<1>1. TransportTypeOK'
  BY DEF TransportInv, TransportTypeOK
<1>2. Current(player)' /\ (~overlap => InTune(player)')
  BY DEF Current, InTune, Live, Quiet, Sounds, Audible, Events
<1>3. ctxQ = <<>> /\ player'.st = "playing" /\ player'.ctl # NoCtl => player'.ctl = Ids(tracks)'
  BY DEF TransportInv, TracksFollowTransport, Ids
<1>4. QED BY <1>1, <1>2, <1>3, PlayerMoves

\* A change of speed reschedules the drums only.
LEMMA SetSpeedStep == ASSUME TransportInv, SetSpeed PROVE TransportInv'
<1> DEFINE q == Scheduled(Cancelled(player), player.events)
<1>1. /\ q \in Players /\ q.st = player.st /\ q.ctl = player.ctl
      /\ q.timer = player.timer /\ q.tracked = player.tracked
      /\ ~overlap => InTune(q)
  BY RescheduledFacts
<1>2. /\ player' = TailArmed(q)
      /\ UNCHANGED <<song, score, muted, tracks, minted, kit, waiting, ctx, ctxQ, overlap>>
  BY DEF SetSpeed
<1> HIDE DEF q
<1>3. Current(q)
  BY <1>1, TransportParts DEF Current, Live
<1>4. /\ player' \in Players /\ player'.st = player.st /\ player'.ctl = player.ctl
      /\ (player.timer => player'.timer) /\ Current(player') /\ (~overlap => InTune(player'))
  BY <1>1, <1>2, <1>3, ArmedFacts
<1>5. QED BY <1>2, <1>4, InPlaceStep

\* Sources scheduled anew for every loaded track, and the tail with them.
LEMMA TracksRescheduled ==
    ASSUME TransportInv, NEW q \in Players, Current(q), ~overlap => InTune(q)
    PROVE  LET r == TailArmed(AudioScheduled(q, tracks)) IN
           /\ r \in Players /\ r.st = q.st /\ (q.timer => r.timer)
           /\ r.ctl = IF q.ctl = NoCtl THEN NoCtl ELSE Ids(tracks)
           /\ Current(r) /\ (~overlap => InTune(r))
<1> DEFINE a == AudioScheduled(q, tracks)
<1>1. /\ a \in Players /\ a.ctl = IF q.ctl = NoCtl THEN NoCtl ELSE Ids(tracks)
      /\ a.drums = q.drums /\ a.doubled = q.doubled
      /\ a.st = q.st /\ a.events = q.events
      /\ a.timer = q.timer /\ a.tracked = q.tracked
  BY TransportParts, AudioScheduledFacts
<1> HIDE DEF a
<1>2. Live(a) <=> Live(q)
  BY <1>1 DEF Live
<1>3. Current(a)
  BY <1>1, <1>2 DEF Current
<1>4. ~overlap => InTune(a)
  BY <1>1, <1>2 DEF InTune, Sounds, Quiet
<1>5. QED BY <1>1, <1>3, <1>4, ArmedFacts DEF a

\* A seek reschedules drums and tracks, or parks the playhead.
LEMMA SeekStep == ASSUME TransportInv, Seek PROVE TransportInv'
<1>0. UNCHANGED <<song, score, muted, tracks, minted, kit, waiting, ctx, ctxQ, overlap>>
  BY DEF Seek
<1>1. CASE player.st = "idle"
  <2>1. player' = [player EXCEPT !.timeline = song]
    BY <1>1 DEF Seek
  <2>2. /\ player' \in Players /\ player'.st = player.st /\ player'.ctl = player.ctl
        /\ player'.timer = player.timer /\ player'.tracked = player.tracked
        /\ player'.events = player.events /\ player'.drums = player.drums
        /\ player'.doubled = player.doubled
    BY <2>1, TransportParts DEF Players, TransportTypeOK
  <2>3. Current(player') /\ (~overlap => InTune(player'))
    BY <2>2, TransportParts DEF Current, InTune, Live, Quiet, Sounds
  <2>4. QED BY <1>0, <2>2, <2>3, InPlaceStep
<1>2. CASE player.st # "idle"
  <2> DEFINE q == Scheduled(Cancelled(player), player.events)
  <2>1. /\ q \in Players /\ q.st = player.st /\ q.ctl = player.ctl
        /\ q.timer = player.timer /\ q.tracked = player.tracked
        /\ ~overlap => InTune(q)
    BY RescheduledFacts
  <2>2. player' = TailArmed(AudioScheduled(q, tracks))
    BY <1>2 DEF Seek
  <2> HIDE DEF q
  <2>3. Current(q)
    BY <2>1, TransportParts DEF Current, Live
  <2>4. /\ player' \in Players /\ player'.st = player.st /\ (player.timer => player'.timer)
        /\ player'.ctl = IF player.ctl = NoCtl THEN NoCtl ELSE Ids(tracks)
        /\ Current(player') /\ (~overlap => InTune(player'))
    BY <2>1, <2>2, <2>3, TracksRescheduled
  <2>5. QED BY <1>0, <2>4, InPlaceStep
<1>3. QED BY <1>1, <1>2

\* A new offset moves the tracks, then refreshes the drums.
LEMMA DrumOffsetStep == ASSUME TransportInv, DrumOffset PROVE TransportInv'
<1> DEFINE q == Repositioned(player)
           r == Refreshed(q, Events(song, score))
<1>0. /\ Live(player) /\ player' = r
      /\ UNCHANGED <<song, score, muted, tracks, minted, kit, waiting, ctx, ctxQ, overlap>>
  BY DEF DrumOffset
<1>1. /\ q \in Players /\ q.st = player.st /\ (player.timer => q.timer)
      /\ q.ctl \in {player.ctl, Ids(tracks)}
      /\ Current(q)
  <2>1. q \in {player, TailArmed(AudioScheduled(player, tracks))}
    BY DEF Repositioned
  <2>2. CASE q = player
    BY <2>2, TransportParts
  <2>3. CASE q = TailArmed(AudioScheduled(player, tracks)) /\ player.ctl # NoCtl
    <3> HIDE DEF q
    <3>1. QED BY <2>3, TransportParts, TracksRescheduled
  <2>4. q = player \/ player.ctl # NoCtl
    BY DEF Repositioned
  <2>5. QED BY <2>1, <2>2, <2>3, <2>4
<1> HIDE DEF q
<1>2. Live(q)
  BY <1>0, <1>1 DEF Live
<1>3. /\ r \in Players /\ r.st = q.st /\ r.ctl = q.ctl /\ r.tracked = q.tracked
      /\ q.timer => r.timer
      /\ r.events = Events(song, score) /\ r.drums = Audible(Events(song, score)) /\ ~r.doubled
  BY <1>1, <1>2, TransportParts, RefreshedFacts
<1> HIDE DEF r
<1>4. Live(r) /\ Sounds(r)
  BY <1>2, <1>3 DEF Live, Sounds
<1>5. Current(r) /\ InTune(r)
  BY <1>1, <1>2, <1>3, <1>4 DEF Current, InTune
<1>6. QED BY <1>0, <1>1, <1>3, <1>5, InPlaceStep

\* The engine is left alone: a kit or a context comes, jobs go on.
LEMMA QuietStep ==
    ASSUME TransportInv, kit' \in {"none", "loading", "ready"},
           ctx' \in {"none", "suspended", "running"}, ctx # "none" => ctx' = ctx,
           UNCHANGED <<song, score, muted, tracks, minted, waiting, ctxQ, player, overlap>>
    PROVE  TransportInv'
<1>1. TransportTypeOK'
  BY DEF TransportInv, TransportTypeOK
<1>2. Current(player)' /\ (~overlap => InTune(player)')
  BY TransportParts DEF Current, InTune, Live, Quiet, Sounds, Audible, Events
<1>3. ctxQ = <<>> /\ player'.st = "playing" /\ player'.ctl # NoCtl => player'.ctl = Ids(tracks)'
  BY DEF TransportInv, TracksFollowTransport, Ids
<1>4. QED BY <1>1, <1>2, <1>3, PlayerMoves

\* A preload changes at most the kit's state and makes the context.
LEMMA PreloadingFacts ==
    ASSUME TransportInv, Preloading
    PROVE  /\ kit' \in {"none", "loading", "ready"} /\ ctx' \in {"none", "suspended", "running"}
           /\ ctx # "none" => ctx' = ctx
BY DEF Preloading, ContextMade, TransportInv, TransportTypeOK

\* A document swap or a reset: playback stops and every track goes.
LEMMA SwapStep ==
    ASSUME TransportInv, ResetOnly \/ \E sc \in {{}, Lanes} : Install(sc),
           kit' \in {"none", "loading", "ready"}, ctx' \in {"none", "suspended", "running"},
           ctx # "none" => ctx' = ctx,
           UNCHANGED <<minted, waiting, ctxQ, overlap>>
    PROVE  TransportInv'
<1>1. /\ song' \in Songs /\ score' \in [Songs -> SUBSET Lanes] /\ muted' = {} /\ tracks' = {}
      /\ player' = React(Stopped(player), {})
  BY DEF ResetOnly, Install, TransportInv, TransportTypeOK
<1>2. player' \in Players
  BY <1>1, StopFacts
<1>3. TransportTypeOK'
  BY <1>1, <1>2 DEF TransportInv, TransportTypeOK
<1>4. QED BY <1>1, <1>3, StopStep

\* A new track has a new id, and sounds at once while playing.
LEMMA TrackInstalledStep ==
    ASSUME TransportInv, NEW s \in Songs, TrackInstalled(s),
           UNCHANGED <<song, score, muted, kit, waiting, ctx, ctxQ, overlap>>
    PROVE  TransportInv'
<1> DEFINE n == minted + 1
           t == [id |-> n, song |-> s]
           q == [player EXCEPT !.ctl = @ \cup {n}]
<1>1. /\ n \in TrackIds /\ minted' = n /\ tracks' = tracks \cup {t}
      /\ player' = IF player.st = "playing" /\ player.ctl # NoCtl THEN q ELSE player
  BY DEF TrackInstalled
<1>2. /\ n \in Nat /\ minted \in Nat /\ n > minted /\ t.id = n
      /\ t \in [id : TrackIds, song : Songs]
      /\ \A u \in tracks : u.id \in Nat /\ u.id <= minted
  BY <1>1, TrackIdsAssumption DEF TransportInv, TransportTypeOK, TracksOnce
<1>3. TracksOnce'
  <2>1. \A u \in tracks : u.id < n
    BY <1>2
  <2>2. \A u \in tracks, v \in tracks : u.id = v.id => u = v
    BY DEF TransportInv, TracksOnce
  <2>3. \A u \in tracks' : u \in tracks \/ u = t
    BY <1>1
  <2> HIDE DEF t, n
  <2>4. \A u \in tracks' : u.id <= minted'
    BY <2>1, <2>3, <1>1, <1>2
  <2>5. \A u \in tracks', v \in tracks' : u.id = v.id => u = v
    BY <2>1, <2>2, <2>3, <1>2
  <2>6. QED BY <2>4, <2>5 DEF TracksOnce
<1>4. Ids(tracks)' = Ids(tracks) \cup {n}
  BY <1>1, <1>2 DEF Ids
<1> HIDE DEF t, n
<1>5. CASE player.st = "playing" /\ player.ctl # NoCtl
  <2>1. player.ctl \in SUBSET TrackIds
    BY <1>5, TransportParts DEF Players
  <2>2. /\ q \in Players /\ q.st = player.st /\ q.ctl = player.ctl \cup {n}
        /\ q.timer = player.timer /\ q.tracked = player.tracked /\ q.events = player.events
        /\ q.drums = player.drums /\ q.doubled = player.doubled
    BY <2>1, <1>1, TransportParts DEF Players
  <2>q. player' = q
    BY <1>1, <1>5
  <2> HIDE DEF q
  <2>3. TransportTypeOK'
    BY <1>1, <1>2, <2>2, <2>q DEF TransportInv, TransportTypeOK
  <2>4. Live(player) /\ Live(player')
    BY <1>5, <2>2, <2>q DEF Live
  <2>5. Tracking' /\ Schedule'
    BY <2>2, <2>q, <2>4, TransportParts
       DEF Tracking, Schedule, Current, InTune, Live, Sounds, Audible, Events
  <2>6. OneCall'
    BY <2>4 DEF TransportInv, OneCall, Awaited
  <2>7. PlayingIsArmed' /\ TracksFollowTransport'
    BY <1>4, <1>5, <2>2, <2>q DEF TransportInv, PlayingIsArmed, TracksFollowTransport
  <2>8. QED BY <1>3, <2>3, <2>5, <2>6, <2>7 DEF TransportInv
<1>6. CASE ~(player.st = "playing" /\ player.ctl # NoCtl)
  <2>q. player' = player
    BY <1>1, <1>6
  <2>3. TransportTypeOK'
    BY <1>1, <1>2, <2>q DEF TransportInv, TransportTypeOK
  <2>5. Tracking' /\ Schedule'
    BY <2>q, TransportParts
       DEF Tracking, Schedule, Current, InTune, Live, Quiet, Sounds, Audible, Events
  <2>6. OneCall'
    BY <2>q DEF TransportInv, OneCall, Awaited, Live
  <2>7. PlayingIsArmed' /\ TracksFollowTransport'
    BY <1>6, <2>q DEF TransportInv, PlayingIsArmed, TracksFollowTransport
  <2>8. QED BY <1>3, <2>3, <2>5, <2>6, <2>7 DEF TransportInv
<1>7. QED BY <1>5, <1>6

\* A track that goes takes its source with it, and no other.
LEMMA ClearTrackStep ==
    ASSUME TransportInv, NEW t \in tracks, ClearTrack(t) PROVE TransportInv'
<1> DEFINE q == [player EXCEPT !.ctl = @ \ {t.id}]
<1>1. /\ tracks' = tracks \ {t}
      /\ player' = IF player.ctl = NoCtl THEN player ELSE q
      /\ UNCHANGED <<song, score, muted, minted, kit, waiting, ctx, ctxQ, overlap>>
  BY DEF ClearTrack
<1>2. Ids(tracks)' = Ids(tracks) \ {t.id}
  BY <1>1 DEF Ids, TransportInv, TracksOnce
<1>3. player.ctl # NoCtl =>
         /\ q \in Players /\ q.st = player.st /\ q.ctl = player.ctl \ {t.id}
         /\ q.timer = player.timer /\ q.tracked = player.tracked /\ q.events = player.events
         /\ q.drums = player.drums /\ q.doubled = player.doubled
  <2>1. player.ctl # NoCtl => player.ctl \in SUBSET TrackIds
    BY TransportParts DEF Players
  <2>2. QED BY <2>1, TransportParts DEF Players
<1> HIDE DEF q
<1>4. /\ player' \in Players /\ player'.st = player.st
      /\ player'.timer = player.timer /\ player'.tracked = player.tracked
      /\ player'.events = player.events
      /\ player'.drums = player.drums /\ player'.doubled = player.doubled
      /\ player'.ctl = IF player.ctl = NoCtl THEN NoCtl ELSE player.ctl \ {t.id}
  BY <1>1, <1>3, TransportParts
<1>5. TransportTypeOK'
  BY <1>1, <1>4 DEF TransportInv, TransportTypeOK
<1>6. Live(player)' <=> Live(player)
  BY <1>4 DEF Live
<1>7. NoCtl \notin SUBSET TrackIds
  BY TrackIdsAssumption
<1>8. Current(player)' /\ (~overlap => InTune(player)')
  <2>1. Current(player)'
    BY <1>1, <1>4, <1>6, TransportParts DEF Current, Live, Events
  <2>2. ~overlap /\ Live(player) => Sounds(player)'
    BY <1>1, <1>4, TransportParts DEF InTune, Sounds, Audible, Events
  <2>3. ~overlap /\ ~Live(player) => Quiet(player)'
    BY <1>1, <1>4, TransportParts DEF InTune, Quiet
  <2>4. QED BY <2>1, <2>2, <2>3, <1>6 DEF InTune
<1>9. ctxQ = <<>> /\ player'.st = "playing" /\ player'.ctl # NoCtl => player'.ctl = Ids(tracks)'
  BY <1>2, <1>4 DEF TransportInv, TracksFollowTransport
<1>10. QED BY <1>1, <1>4, <1>5, <1>8, <1>9, PlayerMoves

-----------------------------------------------------------------------------
(***************************************************************************)
(* The jobs.                                                               *)
(***************************************************************************)
Weight(r) == IF HoldsTwice(r) THEN 2 ELSE IF Holds(r) THEN 1 ELSE 0

\* A set that differs from another in one element at most.
LEMMA CountOne ==
    ASSUME NEW S, NEW T, NEW j, IsFiniteSet(S), T \ {j} = S \ {j}
    PROVE  /\ IsFiniteSet(T) /\ Cardinality(S) \in Nat
           /\ Cardinality(T) = Cardinality(S) + (IF j \in T THEN 1 ELSE 0) - (IF j \in S THEN 1 ELSE 0)
<1>1. Cardinality(S) \in Nat
  BY FS_CardinalityType
<1>2. CASE j \in T /\ j \notin S
  <2>1. T = S \cup {j}
    BY <1>2
  <2>2. IsFiniteSet(S \cup {j}) /\ Cardinality(S \cup {j}) = Cardinality(S) + 1
    BY <1>2, FS_AddElement
  <2>3. QED BY <2>1, <2>2, <1>1, <1>2
<1>3. CASE j \notin T /\ j \in S
  <2>1. T = S \ {j}
    BY <1>3
  <2>2. IsFiniteSet(S \ {j}) /\ Cardinality(S \ {j}) = Cardinality(S) - 1
    BY <1>3, FS_RemoveElement
  <2>3. QED BY <2>1, <2>2, <1>1, <1>3
<1>4. CASE (j \in T) = (j \in S)
  <2>1. T = S
    BY <1>4
  <2>2. QED BY <2>1, <1>1, <1>4
<1>5. QED BY <1>2, <1>3, <1>4

\* There are finitely many loaders, at most one per job.
LEMMA HoldersFinite ==
    /\ IsFiniteSet(Holders) /\ IsFiniteSet(TwiceHolders)
    /\ Cardinality(Holders) \in 0 .. Cardinality(JobIds)
    /\ Cardinality(TwiceHolders) \in 0 .. Cardinality(JobIds)
    /\ Cardinality(JobIds) \in Nat
<1>1. Holders \subseteq JobIds /\ TwiceHolders \subseteq JobIds /\ IsFiniteSet(JobIds)
  BY JobsAssumption DEF Holders, TwiceHolders
<1>2. /\ IsFiniteSet(Holders) /\ Cardinality(Holders) <= Cardinality(JobIds)
      /\ IsFiniteSet(TwiceHolders) /\ Cardinality(TwiceHolders) <= Cardinality(JobIds)
  BY <1>1, FS_Subset
<1>3. Cardinality(Holders) \in Nat /\ Cardinality(TwiceHolders) \in Nat /\ Cardinality(JobIds) \in Nat
  BY <1>1, <1>2, FS_CardinalityType
<1>4. QED BY <1>2, <1>3

\* One slot's job changes: the overlay must change by what it held and holds.
LEMMA OverlayStep ==
    ASSUME OverlayCounts, NEW j \in JobIds,
           \A i \in JobIds : i # j => (Holds(jobs'[i]) <=> Holds(jobs[i]))
                                      /\ (HoldsTwice(jobs'[i]) <=> HoldsTwice(jobs[i])),
           loadingCount' = loadingCount + Weight(jobs'[j]) - Weight(jobs[j])
    PROVE  OverlayCounts'
<1>1. Holders' = {i \in JobIds : Holds(jobs'[i])}
        /\ TwiceHolders' = {i \in JobIds : HoldsTwice(jobs'[i])}
  BY DEF Holders, TwiceHolders, Holds, HoldsTwice
<1>2. Holders' \ {j} = Holders \ {j} /\ TwiceHolders' \ {j} = TwiceHolders \ {j}
  BY <1>1 DEF Holders, TwiceHolders
<1>3. /\ Cardinality(Holders') = Cardinality(Holders)
             + (IF j \in Holders' THEN 1 ELSE 0) - (IF j \in Holders THEN 1 ELSE 0)
      /\ Cardinality(TwiceHolders') = Cardinality(TwiceHolders)
             + (IF j \in TwiceHolders' THEN 1 ELSE 0) - (IF j \in TwiceHolders THEN 1 ELSE 0)
  BY <1>2, CountOne, HoldersFinite
<1>4. /\ j \in Holders <=> Holds(jobs[j])
      /\ j \in TwiceHolders <=> HoldsTwice(jobs[j])
      /\ j \in Holders' <=> Holds(jobs'[j])
      /\ j \in TwiceHolders' <=> HoldsTwice(jobs'[j])
  BY <1>1 DEF Holders, TwiceHolders
<1>5. (HoldsTwice(jobs[j]) => Holds(jobs[j])) /\ (HoldsTwice(jobs'[j]) => Holds(jobs'[j]))
  BY DEF Holds, HoldsTwice
<1>6. Cardinality(Holders) \in Nat /\ Cardinality(TwiceHolders) \in Nat
  BY HoldersFinite
<1>7. /\ Weight(jobs[j]) = (IF j \in Holders THEN 1 ELSE 0) + (IF j \in TwiceHolders THEN 1 ELSE 0)
      /\ Weight(jobs'[j]) = (IF j \in Holders' THEN 1 ELSE 0) + (IF j \in TwiceHolders' THEN 1 ELSE 0)
  BY <1>4, <1>5 DEF Weight
<1>8. Cardinality(Holders') + Cardinality(TwiceHolders') =
        Cardinality(Holders) + Cardinality(TwiceHolders) + Weight(jobs'[j]) - Weight(jobs[j])
  BY <1>3, <1>6, <1>7
<1>9. QED BY <1>8 DEF OverlayCounts

\* What a controller needs of its job.
Kept(r, s) ==
    r = NoJob \/ (s # NoJob /\ s.kind = r.kind /\ s.track = r.track /\ s.aborted = r.aborted)

\* Spinners stay true while no run that owns one changes but in its phase.
LEMMA StatusKept ==
    ASSUME JobsInv, trackCtl' = trackCtl, trackStatuses' = trackStatuses, jobs' \in [JobIds -> Job \cup {NoJob}],
           \A i \in JobIds : Kept(jobs[i], jobs'[i])
                             \/ (jobs[i] # NoJob /\ jobs[i].kind # "transcribe")
    PROVE  StatusHasLiveRun'
<1> SUFFICES ASSUME NEW t \in TrackIds, trackCtl[t] # NoJob
             PROVE  LET r == jobs'[trackCtl[t]] IN
                    r # NoJob /\ r.kind = "transcribe" /\ r.track = t /\ ~r.aborted
  BY DEF StatusHasLiveRun, JobsInv
<1>1. trackCtl[t] \in JobIds
  BY DEF JobsInv, JobsTypeOK
<1>2. LET r == jobs[trackCtl[t]] IN
      r # NoJob /\ r.kind = "transcribe" /\ r.track = t /\ ~r.aborted
  BY DEF JobsInv, StatusHasLiveRun
<1>3. QED BY <1>1, <1>2 DEF Kept

\* So does the replace pill.
LEMMA ReplaceKept ==
    ASSUME JobsInv, replaceCtl' = replaceCtl, replaceStatus' \in {replaceStatus, "idle"},
           \A i \in JobIds : Kept(jobs[i], jobs'[i])
                             \/ (jobs[i] # NoJob /\ jobs[i].kind # "resume")
    PROVE  ReplaceIsLive' /\ PillHasLiveRun'
<1>1. replaceCtl # NoJob =>
        LET r == jobs'[replaceCtl] IN r # NoJob /\ r.kind = "resume" /\ ~r.aborted
  <2> SUFFICES ASSUME replaceCtl # NoJob
               PROVE  LET r == jobs'[replaceCtl] IN r # NoJob /\ r.kind = "resume" /\ ~r.aborted
    OBVIOUS
  <2>1. replaceCtl \in JobIds
    BY DEF JobsInv, JobsTypeOK
  <2>2. LET r == jobs[replaceCtl] IN r # NoJob /\ r.kind = "resume" /\ ~r.aborted
    BY DEF JobsInv, ReplaceIsLive
  <2>3. QED BY <2>1, <2>2 DEF Kept
<1>2. replaceStatus' = "uploading" => replaceCtl # NoJob
  BY DEF JobsInv, PillHasLiveRun
<1>3. QED BY <1>1, <1>2 DEF ReplaceIsLive, PillHasLiveRun

\* Gestures stay within their bound.
LEMMA GestureCounts == ASSUME JobsInv, Gesture \/ acts' = acts PROVE acts' \in 0 .. MaxActs
BY MaxActsAssumption DEF Gesture, JobsInv, JobsTypeOK

\* A job that ends frees its slot and no other.
LEMMA EndFacts ==
    ASSUME JobsInv, NEW j \in JobIds, End(j)
    PROVE  /\ jobs' \in [JobIds -> Job \cup {NoJob}] /\ jobs'[j] = NoJob
           /\ \A i \in JobIds : i # j => jobs'[i] = jobs[i]
           /\ Weight(jobs'[j]) = 0 /\ NeverDecodes(jobs'[j])
BY DEF End, JobsInv, JobsTypeOK, Weight, Holds, HoldsTwice, NeverDecodes

\* A job that goes on keeps all but its phase.
LEMMA ToFacts ==
    ASSUME JobsInv, NEW j \in JobIds, jobs[j] # NoJob,
           NEW l \in {"read", "decode", "run", "bytes", "fetch", "unzip"}, To(j, l)
    PROVE  /\ jobs' \in [JobIds -> Job \cup {NoJob}]
           /\ \A i \in JobIds : i # j => jobs'[i] = jobs[i]
           /\ jobs'[j] # NoJob /\ jobs'[j].kind = jobs[j].kind /\ jobs'[j].phase = l
           /\ \A i \in JobIds : Kept(jobs[i], jobs'[i])
<1>1. jobs[j] \in Job /\ jobs' = [jobs EXCEPT ![j].phase = l]
  BY DEF To, JobsInv, JobsTypeOK
<1> DEFINE x == [jobs[j] EXCEPT !.phase = l]
<1>2. /\ x \in Job /\ x.kind = jobs[j].kind /\ x.phase = l /\ x.track = jobs[j].track
      /\ x.aborted = jobs[j].aborted
  BY <1>1 DEF Job
<1>3. jobs' = [jobs EXCEPT ![j] = x]
  BY <1>1
<1>4. x # NoJob
  BY <1>2, JobsAssumption
<1> HIDE DEF x
<1>5. QED BY <1>2, <1>3, <1>4 DEF JobsInv, JobsTypeOK, Kept

\* A new job in a free slot.
LEMMA NewJobFacts ==
    ASSUME IInv, NEW kind \in {"load", "audio", "transcribe", "resume", "split"},
           NEW l \in {"read", "decode", "run", "bytes", "fetch", "unzip"},
           NEW t \in TrackIds \cup {0}
    PROVE  LET x == NewJob(kind, l, t) IN
           x \in Job /\ x # NoJob /\ x.kind = kind /\ x.phase = l /\ x.track = t /\ ~x.aborted
<1>1. NewJob(kind, l, t) \in Job
  BY DEF NewJob, Job, IInv, TransportInv, TransportTypeOK
<1>2. QED BY <1>1, JobsAssumption DEF NewJob

\* Aborting the job a controller names.
LEMMA AbortFacts ==
    ASSUME JobsInv, NEW c \in JobIds \cup {NoJob}, c # NoJob => jobs[c] # NoJob
    PROVE  LET js == Abort(jobs, c) IN
           /\ js \in [JobIds -> Job \cup {NoJob}]
           /\ \A i \in JobIds : i # c => js[i] = jobs[i]
           /\ \A i \in JobIds : /\ Holds(js[i]) <=> Holds(jobs[i])
                                /\ HoldsTwice(js[i]) <=> HoldsTwice(jobs[i])
                                /\ (js[i] = NoJob) <=> (jobs[i] = NoJob)
<1>1. CASE c = NoJob
  BY <1>1 DEF Abort, JobsInv, JobsTypeOK
<1>2. CASE c # NoJob
  <2> DEFINE x == [jobs[c] EXCEPT !.aborted = TRUE]
             js == Abort(jobs, c)
  <2>1. c \in JobIds /\ jobs[c] \in Job
    BY <1>2 DEF JobsInv, JobsTypeOK
  <2>2. x \in Job /\ x.kind = jobs[c].kind /\ x.phase = jobs[c].phase
    BY <2>1 DEF Job
  <2>3. js = [jobs EXCEPT ![c] = x]
    BY <1>2 DEF Abort
  <2>4. x # NoJob
    BY <2>2, JobsAssumption
  <2> HIDE DEF x, js
  <2>5. /\ js \in [JobIds -> Job \cup {NoJob}] /\ js[c] = x
        /\ \A i \in JobIds : i # c => js[i] = jobs[i]
    BY <2>1, <2>2, <2>3 DEF JobsInv, JobsTypeOK
  <2>6. (Holds(x) <=> Holds(jobs[c])) /\ (HoldsTwice(x) <=> HoldsTwice(jobs[c]))
    BY <1>2, <2>2, <2>4 DEF Holds, HoldsTwice
  <2>7. QED BY <1>2, <2>4, <2>5, <2>6 DEF js
<1>3. QED BY <1>1, <1>2

\* An abort keeps kind and phase.
LEMMA AbortedFacts ==
    ASSUME JobsInv, NEW c \in JobIds, jobs[c] # NoJob
    PROVE  LET js == Abort(jobs, c) IN
           js[c].kind = jobs[c].kind /\ js[c].phase = jobs[c].phase
BY JobsAssumption DEF Abort, Job, JobsInv, JobsTypeOK

\* A task that touches no job.
LEMMA JobsSame ==
    ASSUME JobsInv, layers' \subseteq Songs, acts' \in 0 .. MaxActs,
           UNCHANGED <<jobs, loadingCount, trackCtl, trackStatuses, replaceCtl, replaceStatus>>
    PROVE  JobsInv'
<1>1. JobsTypeOK'
  BY DEF JobsInv, JobsTypeOK
<1>2. OverlayCounts'
  BY DEF JobsInv, OverlayCounts, Holders, TwiceHolders, Holds, HoldsTwice
<1>3. DecodesAreLoads'
  BY DEF JobsInv, DecodesAreLoads, NeverDecodes
<1>4. QED BY <1>1, <1>2, <1>3 DEF JobsInv, ReplaceIsLive, StatusHasLiveRun, PillHasLiveRun

\* A slot that controls nothing: a load, a decode or a split starts, goes on or ends.
LEMMA FreeJobStep ==
    ASSUME JobsInv, NEW j \in JobIds, jobs' \in [JobIds -> Job \cup {NoJob}],
           \A i \in JobIds : i # j => jobs'[i] = jobs[i],
           jobs[j] = NoJob \/ jobs[j].kind \notin {"transcribe", "resume"}
               \/ Kept(jobs[j], jobs'[j]),
           NeverDecodes(jobs'[j]),
           loadingCount' = loadingCount + Weight(jobs'[j]) - Weight(jobs[j]),
           UNCHANGED <<trackCtl, trackStatuses, replaceCtl, replaceStatus>>,
           layers' \subseteq Songs, acts' \in 0 .. MaxActs
    PROVE  JobsInv'
<1>1. JobsTypeOK'
  BY DEF JobsInv, JobsTypeOK
<1>2. OverlayCounts'
  BY OverlayStep DEF JobsInv
<1>3. \A i \in JobIds : Kept(jobs[i], jobs'[i]) \/
          (jobs[i] # NoJob /\ jobs[i].kind \notin {"transcribe", "resume"})
  <2> TAKE i \in JobIds
  <2>1. CASE i = j
    BY <2>1 DEF Kept
  <2>2. CASE i # j
    BY <2>2 DEF Kept
  <2>3. QED BY <2>1, <2>2
<1>4. StatusHasLiveRun' /\ ReplaceIsLive' /\ PillHasLiveRun'
  BY <1>3, StatusKept, ReplaceKept
<1>5. DecodesAreLoads'
  BY DEF JobsInv, DecodesAreLoads, NeverDecodes
<1>6. QED BY <1>1, <1>2, <1>4, <1>5 DEF JobsInv

\* What the jobs need to know of the document.
LEMMA LayersTyped == ASSUME IInv PROVE layers \subseteq Songs /\ song \in Songs /\ {} \subseteq Songs
BY DEF IInv, JobsInv, JobsTypeOK, TransportInv, TransportTypeOK

\* A file load or an audio load starts.
LEMMA LoadFileJobs ==
    ASSUME IInv, NEW j \in JobIds, LoadFile(j) \/ DropAudio(j) PROVE JobsInv'
<1>1. PICK x \in {NewJob("load", "read", 0), NewJob("audio", "decode", 0)} :
         jobs' = [jobs EXCEPT ![j] = x]
  BY DEF LoadFile, DropAudio
<1>2. x \in Job /\ x # NoJob /\ Weight(x) = 1 /\ NeverDecodes(x)
  <2>1. /\ x \in Job /\ x # NoJob
        /\ \/ x.kind = "load" /\ x.phase = "read"
           \/ x.kind = "audio" /\ x.phase = "decode"
    BY NewJobFacts
  <2>2. QED BY <2>1 DEF Weight, Holds, HoldsTwice, NeverDecodes
<1>3. /\ jobs[j] = NoJob /\ Weight(jobs[j]) = 0
      /\ loadingCount' = loadingCount + 1
      /\ UNCHANGED <<trackCtl, trackStatuses, replaceCtl, replaceStatus, layers>>
  BY DEF LoadFile, DropAudio, Free, Weight, Holds, HoldsTwice
<1>4. /\ jobs' \in [JobIds -> Job \cup {NoJob}] /\ jobs'[j] = x
      /\ \A i \in JobIds : i # j => jobs'[i] = jobs[i]
  BY <1>1, <1>2 DEF IInv, JobsInv, JobsTypeOK
<1>5. loadingCount \in Int
  BY HoldersFinite DEF IInv, JobsInv, OverlayCounts
<1>6. loadingCount' = loadingCount + Weight(jobs'[j]) - Weight(jobs[j])
  BY <1>2, <1>3, <1>4, <1>5
<1>7. acts' \in 0 .. MaxActs
  BY GestureCounts DEF IInv, LoadFile, DropAudio
<1>8. NeverDecodes(jobs'[j]) /\ layers' \subseteq Songs
  BY <1>2, <1>3, <1>4, LayersTyped
<1>9. QED BY <1>3, <1>4, <1>6, <1>7, <1>8, FreeJobStep DEF IInv

\* A load that fails gives back the one overlay it held.
LEMMA LoadFailedJobs == ASSUME IInv, NEW j \in JobIds, LoadFailed(j) PROVE JobsInv'
<1>1. /\ jobs[j] # NoJob /\ jobs[j].kind = "load" /\ jobs[j].phase = "read"
      /\ End(j) /\ loadingCount' = loadingCount - 1 /\ acts' = acts
      /\ UNCHANGED <<trackCtl, trackStatuses, replaceCtl, replaceStatus, layers>>
  BY DEF LoadFailed, LoadEnds, At
<1>2. Weight(jobs[j]) = 1
  BY <1>1 DEF Weight, Holds, HoldsTwice
<1>3. loadingCount \in Int
  BY HoldersFinite DEF IInv, JobsInv, OverlayCounts
<1>4. acts' \in 0 .. MaxActs
  BY <1>1 DEF IInv, JobsInv, JobsTypeOK
<1>5. QED BY <1>1, <1>2, <1>3, <1>4, EndFacts, LayersTyped, FreeJobStep DEF IInv

\* A job goes on to its decodes in the document it installed, if it installed one.
LEMMA DecodingFacts ==
    ASSUME JobsInv, NEW j \in JobIds, jobs[j] # NoJob, song' \in Songs,
           jobs' = [jobs EXCEPT ![j].phase = "decode", ![j].song = song']
    PROVE  /\ jobs' \in [JobIds -> Job \cup {NoJob}]
           /\ \A i \in JobIds : i # j => jobs'[i] = jobs[i]
           /\ jobs'[j] # NoJob /\ jobs'[j].kind = jobs[j].kind /\ jobs'[j].phase = "decode"
           /\ Kept(jobs[j], jobs'[j])
<1> DEFINE x == [jobs[j] EXCEPT !.phase = "decode", !.song = song']
<1>1. jobs[j] \in Job
  BY DEF JobsInv, JobsTypeOK
<1>2. /\ x \in Job /\ x.kind = jobs[j].kind /\ x.phase = "decode" /\ x.track = jobs[j].track
      /\ x.aborted = jobs[j].aborted
  BY <1>1 DEF Job
<1>3. jobs' = [jobs EXCEPT ![j] = x]
  BY <1>1 DEF JobsInv, JobsTypeOK
<1>4. x # NoJob
  BY <1>2, JobsAssumption
<1> HIDE DEF x
<1>5. QED BY <1>2, <1>3, <1>4 DEF JobsInv, JobsTypeOK, Kept

\* A swap leaves a document loaded.
LEMMA SwapFacts ==
    ASSUME IInv, ResetOnly \/ \E sc \in {{}, Lanes} : Install(sc)
    PROVE  song' \in Songs /\ layers' \subseteq Songs
BY LayersTyped DEF ResetOnly, Install

\* A load that succeeds ends, or goes on as a decode with a second overlay.
LEMMA LoadInstallsJobs == ASSUME IInv, NEW j \in JobIds, LoadInstalls(j) PROVE JobsInv'
<1>1. /\ jobs[j] # NoJob /\ jobs[j].kind = "load" /\ jobs[j].phase = "read" /\ acts' = acts
      /\ UNCHANGED <<trackCtl, trackStatuses, replaceCtl, replaceStatus>>
  BY DEF LoadInstalls, At
<1>2. Weight(jobs[j]) = 1
  BY <1>1 DEF Weight, Holds, HoldsTwice
<1>3. loadingCount \in Int
  BY HoldersFinite DEF IInv, JobsInv, OverlayCounts
<1>4. acts' \in 0 .. MaxActs
  BY <1>1 DEF IInv, JobsInv, JobsTypeOK
<1>5. song' \in Songs /\ layers' \subseteq Songs
  BY SwapFacts DEF LoadInstalls
<1>6. CASE End(j) /\ loadingCount' = loadingCount - 1
  BY <1>1, <1>2, <1>3, <1>4, <1>5, <1>6, EndFacts, FreeJobStep DEF IInv
<1>7. CASE /\ jobs' = [jobs EXCEPT ![j].phase = "decode", ![j].song = song']
           /\ loadingCount' = loadingCount + 1
  <2>1. /\ jobs' \in [JobIds -> Job \cup {NoJob}]
        /\ \A i \in JobIds : i # j => jobs'[i] = jobs[i]
        /\ jobs'[j] # NoJob /\ jobs'[j].kind = "load" /\ jobs'[j].phase = "decode"
    BY <1>1, <1>5, <1>7, DecodingFacts DEF IInv
  <2>2. Weight(jobs'[j]) = 2 /\ NeverDecodes(jobs'[j])
    BY <2>1 DEF Weight, Holds, HoldsTwice, NeverDecodes
  <2>3. QED BY <1>1, <1>2, <1>3, <1>4, <1>5, <1>7, <2>1, <2>2, FreeJobStep DEF IInv
<1>8. QED BY <1>6, <1>7 DEF LoadInstalls, LoadEnds

\* A decode gives back as many overlays as its loader held.
LEMMA DecodeEndsJobs == ASSUME IInv, NEW j \in JobIds, DecodeEnds(j) PROVE JobsInv'
<1>1. /\ jobs[j] # NoJob /\ jobs[j].phase = "decode" /\ jobs[j] \in Job
      /\ End(j) /\ loadingCount' = loadingCount - Overlays(jobs[j].kind)
      /\ acts' = acts
      /\ UNCHANGED <<trackCtl, trackStatuses, layers>>
  BY DEF DecodeEnds, IInv, JobsInv, JobsTypeOK
<1>2. /\ jobs' \in [JobIds -> Job \cup {NoJob}] /\ jobs'[j] = NoJob
      /\ \A i \in JobIds : i # j => jobs'[i] = jobs[i]
      /\ Weight(jobs'[j]) = 0
  BY <1>1, EndFacts DEF IInv
<1>3. jobs[j].kind # "transcribe"
  BY <1>1 DEF IInv, JobsInv, DecodesAreLoads, NeverDecodes
<1>4. Weight(jobs[j]) = Overlays(jobs[j].kind)
  <2>1. jobs[j].kind \in {"load", "audio", "resume", "split"}
    BY <1>1, <1>3 DEF Job
  <2>2. QED BY <1>1, <2>1 DEF Weight, Holds, HoldsTwice, Overlays
<1>5. OverlayCounts'
  <2>1. loadingCount \in Int /\ Overlays(jobs[j].kind) \in Int
    BY <1>1, HoldersFinite DEF IInv, JobsInv, OverlayCounts, Overlays, Job
  <2>2. loadingCount' = loadingCount + Weight(jobs'[j]) - Weight(jobs[j])
    BY <1>1, <1>2, <1>4, <2>1
  <2>3. QED BY <1>2, <2>2, OverlayStep DEF IInv, JobsInv
<1>6. DecodesAreLoads'
  BY <1>2 DEF IInv, JobsInv, DecodesAreLoads, NeverDecodes
<1>7. StatusHasLiveRun'
  BY <1>1, <1>2, <1>3, StatusKept DEF Kept, IInv
<1>8. CASE jobs[j].kind = "resume"
  <2>1. /\ replaceStatus' = "idle"
        /\ replaceCtl' = IF replaceCtl = j THEN NoJob ELSE replaceCtl
    BY <1>8 DEF DecodeEnds
  <2>2. JobsTypeOK'
    BY <1>1, <1>2, <2>1 DEF IInv, JobsInv, JobsTypeOK
  <2>3. ReplaceIsLive' /\ PillHasLiveRun'
    BY <1>2, <2>1 DEF IInv, JobsInv, JobsTypeOK, ReplaceIsLive, PillHasLiveRun
  <2>4. QED BY <1>5, <1>6, <1>7, <2>2, <2>3 DEF JobsInv
<1>9. CASE jobs[j].kind # "resume"
  <2>1. UNCHANGED <<replaceStatus, replaceCtl>>
    BY <1>9 DEF DecodeEnds
  <2>2. JobsTypeOK'
    BY <1>1, <1>2, <2>1 DEF IInv, JobsInv, JobsTypeOK
  <2>3. ReplaceIsLive' /\ PillHasLiveRun'
    BY <1>1, <1>2, <1>9, <2>1, ReplaceKept DEF Kept, IInv
  <2>4. QED BY <1>5, <1>6, <1>7, <2>2, <2>3 DEF JobsInv
<1>10. QED BY <1>8, <1>9

\* A job that controls nothing, or keeps what its controller needs, moves on.
LEMMA AdvanceJobs ==
    ASSUME IInv, NEW j \in JobIds,
           TranscribeResolves(j) \/ ResumeAdvances(j) \/ SplitSeparated(j)
    PROVE  JobsInv'
<1>1. PICK l \in {"bytes", "fetch", "unzip", "decode"} :
         /\ To(j, l) /\ jobs[j] # NoJob
         /\ jobs[j].kind \in {"transcribe", "resume", "split"}
         /\ l = "decode" => jobs[j].kind = "split"
         /\ jobs[j].phase # "decode"
  BY DEF TranscribeResolves, ResumeAdvances, SplitSeparated, At
<1>2. /\ acts' = acts /\ loadingCount' = loadingCount
      /\ UNCHANGED <<trackCtl, trackStatuses, replaceCtl, replaceStatus, layers>>
  BY DEF TranscribeResolves, ResumeAdvances, SplitSeparated
<1>3. /\ jobs' \in [JobIds -> Job \cup {NoJob}]
      /\ \A i \in JobIds : i # j => jobs'[i] = jobs[i]
      /\ jobs'[j] # NoJob /\ jobs'[j].kind = jobs[j].kind /\ jobs'[j].phase = l
      /\ Kept(jobs[j], jobs'[j])
  BY <1>1, ToFacts DEF IInv
<1>4. Weight(jobs[j]) = 0 /\ Weight(jobs'[j]) = 0 /\ NeverDecodes(jobs'[j])
  BY <1>1, <1>3 DEF Weight, Holds, HoldsTwice, NeverDecodes
<1>5. loadingCount' = loadingCount + Weight(jobs'[j]) - Weight(jobs[j])
  BY <1>2, <1>4, HoldersFinite DEF IInv, JobsInv, OverlayCounts
<1>6. layers' \subseteq Songs /\ acts' \in 0 .. MaxActs
  BY <1>2, LayersTyped, GestureCounts DEF IInv
<1>7. QED BY <1>2, <1>3, <1>4, <1>5, <1>6, FreeJobStep DEF IInv

\* A split starts, without an overlay.
LEMMA SplitTrackJobs ==
    ASSUME IInv, NEW j \in JobIds, NEW t \in TrackIds, SplitTrack(j, t) PROVE JobsInv'
<1> DEFINE x == NewJob("split", "run", t)
<1>1. x \in Job /\ x # NoJob /\ x.kind = "split" /\ x.phase = "run"
  BY NewJobFacts
<1>2. /\ jobs[j] = NoJob /\ jobs' = [jobs EXCEPT ![j] = x] /\ loadingCount' = loadingCount
      /\ UNCHANGED <<trackCtl, trackStatuses, replaceCtl, replaceStatus, layers>>
  BY DEF SplitTrack, Free
<1> HIDE DEF x
<1>3. /\ jobs' \in [JobIds -> Job \cup {NoJob}] /\ jobs'[j] = x
      /\ \A i \in JobIds : i # j => jobs'[i] = jobs[i]
  BY <1>1, <1>2 DEF IInv, JobsInv, JobsTypeOK
<1>4. Weight(jobs[j]) = 0 /\ Weight(jobs'[j]) = 0 /\ NeverDecodes(jobs'[j])
  BY <1>1, <1>2, <1>3 DEF Weight, Holds, HoldsTwice, NeverDecodes
<1>5. loadingCount' = loadingCount + Weight(jobs'[j]) - Weight(jobs[j])
  BY <1>2, <1>4, HoldersFinite DEF IInv, JobsInv, OverlayCounts
<1>6. layers' \subseteq Songs /\ acts' \in 0 .. MaxActs
  BY <1>2, LayersTyped, GestureCounts DEF IInv, SplitTrack
<1>7. QED BY <1>2, <1>3, <1>4, <1>5, <1>6, FreeJobStep DEF IInv

\* A split fails.
LEMMA SplitFailedJobs == ASSUME IInv, NEW j \in JobIds, SplitFailed(j) PROVE JobsInv'
<1>1. /\ jobs[j] # NoJob /\ jobs[j].kind = "split" /\ jobs[j].phase = "run" /\ End(j)
      /\ acts' = acts /\ loadingCount' = loadingCount
      /\ UNCHANGED <<trackCtl, trackStatuses, replaceCtl, replaceStatus, layers>>
  BY DEF SplitFailed, At
<1>2. Weight(jobs[j]) = 0
  BY <1>1 DEF Weight, Holds, HoldsTwice
<1>3. loadingCount \in Int
  BY HoldersFinite DEF IInv, JobsInv, OverlayCounts
<1>4. layers' \subseteq Songs /\ acts' \in 0 .. MaxActs
  BY <1>1, LayersTyped, GestureCounts DEF IInv
<1>5. QED BY <1>1, <1>2, <1>3, <1>4, EndFacts, FreeJobStep DEF IInv

\* A resume goes on as a decode, with its first overlay.
LEMMA ResumeAppliesJobs == ASSUME IInv, NEW j \in JobIds, ResumeApplies(j) PROVE JobsInv'
<1>1. /\ jobs[j] # NoJob /\ jobs[j].kind = "resume" /\ jobs[j].phase = "unzip"
      /\ jobs' = [jobs EXCEPT ![j].phase = "decode", ![j].song = song']
      /\ loadingCount' = loadingCount + 1 /\ acts' = acts
      /\ UNCHANGED <<trackCtl, trackStatuses, replaceCtl, replaceStatus>>
  BY DEF ResumeApplies, At
<1>2. song' \in Songs /\ layers' \subseteq Songs
  BY SwapFacts DEF ResumeApplies
<1>3. /\ jobs' \in [JobIds -> Job \cup {NoJob}]
      /\ \A i \in JobIds : i # j => jobs'[i] = jobs[i]
      /\ jobs'[j] # NoJob /\ jobs'[j].kind = "resume" /\ jobs'[j].phase = "decode"
      /\ Kept(jobs[j], jobs'[j])
  BY <1>1, <1>2, DecodingFacts DEF IInv
<1>4. Weight(jobs[j]) = 0 /\ Weight(jobs'[j]) = 1 /\ NeverDecodes(jobs'[j])
  BY <1>1, <1>3 DEF Weight, Holds, HoldsTwice, NeverDecodes
<1>5. loadingCount' = loadingCount + Weight(jobs'[j]) - Weight(jobs[j])
  BY <1>1, <1>4, HoldersFinite DEF IInv, JobsInv, OverlayCounts
<1>6. acts' \in 0 .. MaxActs
  BY <1>1, GestureCounts DEF IInv
<1>7. QED BY <1>1, <1>2, <1>3, <1>4, <1>5, <1>6, FreeJobStep DEF IInv

\* The end of a resume: whoever owns the pill, it does not outlive its run.
LEMMA ResumeEndsJobs ==
    ASSUME IInv, NEW j \in JobIds, ResumeThrows(j) \/ ResumeGivesUp(j) PROVE JobsInv'
<1>1. /\ jobs[j] # NoJob /\ jobs[j].kind = "resume" /\ jobs[j].phase # "decode" /\ End(j)
      /\ acts' = acts /\ loadingCount' = loadingCount
      /\ replaceCtl' = IF replaceCtl = j THEN NoJob ELSE replaceCtl
      /\ replaceStatus' \in {replaceStatus, "idle"}
      /\ replaceCtl = j => replaceStatus' = "idle"
      /\ UNCHANGED <<trackCtl, trackStatuses, layers>>
  BY DEF ResumeThrows, ResumeGivesUp, ErrorResets, At
<1>2. /\ jobs' \in [JobIds -> Job \cup {NoJob}] /\ jobs'[j] = NoJob
      /\ \A i \in JobIds : i # j => jobs'[i] = jobs[i]
      /\ Weight(jobs'[j]) = 0
  BY <1>1, EndFacts DEF IInv
<1>3. JobsTypeOK'
  BY <1>1, <1>2 DEF IInv, JobsInv, JobsTypeOK
<1>4. OverlayCounts'
  <2>1. Weight(jobs[j]) = 0
    BY <1>1 DEF Weight, Holds, HoldsTwice
  <2>2. loadingCount' = loadingCount + Weight(jobs'[j]) - Weight(jobs[j])
    BY <1>1, <1>2, <2>1, HoldersFinite DEF IInv, JobsInv, OverlayCounts
  <2>3. QED BY <1>2, <2>2, OverlayStep DEF IInv, JobsInv
<1>5. DecodesAreLoads'
  BY <1>2 DEF IInv, JobsInv, DecodesAreLoads, NeverDecodes
<1>6. StatusHasLiveRun'
  BY <1>1, <1>2, StatusKept DEF Kept, IInv
<1>7. ReplaceIsLive' /\ PillHasLiveRun'
  BY <1>1, <1>2 DEF IInv, JobsInv, JobsTypeOK, ReplaceIsLive, PillHasLiveRun
<1>8. QED BY <1>3, <1>4, <1>5, <1>6, <1>7 DEF JobsInv

\* A newer resume takes the controller from the older one, which it aborts.
LEMMA ResumeReplaceJobs == ASSUME IInv, NEW j \in JobIds, ResumeReplace(j) PROVE JobsInv'
<1> DEFINE x == NewJob("resume", "run", 0)
           js == Abort(jobs, replaceCtl)
<1>1. x \in Job /\ x # NoJob /\ x.kind = "resume" /\ x.phase = "run" /\ ~x.aborted
  BY NewJobFacts
<1>2. /\ js \in [JobIds -> Job \cup {NoJob}]
      /\ \A i \in JobIds : i # replaceCtl => js[i] = jobs[i]
      /\ \A i \in JobIds : /\ Holds(js[i]) <=> Holds(jobs[i])
                           /\ HoldsTwice(js[i]) <=> HoldsTwice(jobs[i])
  BY AbortFacts DEF IInv, JobsInv, JobsTypeOK, ReplaceIsLive
<1>3. /\ jobs[j] = NoJob /\ jobs' = [js EXCEPT ![j] = x] /\ loadingCount' = loadingCount
      /\ replaceCtl' = j /\ replaceStatus' = "uploading"
      /\ UNCHANGED <<trackCtl, trackStatuses, layers>>
  BY DEF ResumeReplace, ResumeTakesOver, Free
<1> HIDE DEF x, js
<1>4. /\ jobs' \in [JobIds -> Job \cup {NoJob}] /\ jobs'[j] = x
      /\ \A i \in JobIds : i # j => jobs'[i] = js[i]
  BY <1>1, <1>2, <1>3
<1>5. acts' \in 0 .. MaxActs
  BY GestureCounts DEF IInv, ResumeReplace
<1>6. JobsTypeOK'
  BY <1>3, <1>4, <1>5 DEF IInv, JobsInv, JobsTypeOK
<1>7. OverlayCounts'
  <2>1. Weight(jobs[j]) = 0 /\ Weight(jobs'[j]) = 0
    BY <1>1, <1>3, <1>4 DEF Weight, Holds, HoldsTwice
  <2>2. loadingCount' = loadingCount + Weight(jobs'[j]) - Weight(jobs[j])
    BY <1>3, <2>1, HoldersFinite DEF IInv, JobsInv, OverlayCounts
  <2>3. QED BY <1>2, <1>4, <2>2, OverlayStep DEF IInv, JobsInv
<1>8. replaceCtl # NoJob => /\ replaceCtl \in JobIds /\ jobs[replaceCtl] # NoJob
                            /\ jobs[replaceCtl].kind = "resume"
  BY DEF IInv, JobsInv, JobsTypeOK, ReplaceIsLive
<1>9. DecodesAreLoads'
  <2> SUFFICES ASSUME NEW i \in JobIds PROVE NeverDecodes(jobs'[i])
    BY DEF DecodesAreLoads
  <2>1. CASE i = j
    BY <2>1, <1>1, <1>4 DEF NeverDecodes
  <2>2. CASE i # j /\ i # replaceCtl
    BY <2>2, <1>2, <1>4 DEF IInv, JobsInv, DecodesAreLoads, NeverDecodes
  <2>3. CASE i # j /\ i = replaceCtl
    <3>1. replaceCtl \in JobIds /\ jobs[replaceCtl] # NoJob /\ jobs[replaceCtl].kind = "resume"
      BY <2>3, <1>8, JobsAssumption
    <3>2. Abort(jobs, replaceCtl)[replaceCtl].kind = jobs[replaceCtl].kind
      BY <3>1, AbortedFacts DEF IInv
    <3>3. js[i].kind = "resume"
      BY <2>3, <3>1, <3>2 DEF js
    <3>4. QED BY <3>3, <2>3, <1>4 DEF NeverDecodes
  <2>4. QED BY <2>1, <2>2, <2>3
<1>10. StatusHasLiveRun'
  <2> SUFFICES ASSUME NEW i \in JobIds
               PROVE  Kept(jobs[i], jobs'[i]) \/ (jobs[i] # NoJob /\ jobs[i].kind # "transcribe")
    BY <1>3, <1>4, StatusKept DEF IInv
  <2>1. CASE i = j
    BY <2>1, <1>3 DEF Kept
  <2>2. CASE i # j /\ i # replaceCtl
    BY <2>2, <1>2, <1>4 DEF Kept
  <2>3. CASE i = replaceCtl
    BY <2>3, <1>8, JobsAssumption
  <2>4. QED BY <2>1, <2>2, <2>3
<1>11. ReplaceIsLive' /\ PillHasLiveRun'
  BY <1>1, <1>3, <1>4, JobsAssumption DEF ReplaceIsLive, PillHasLiveRun
<1>12. QED BY <1>6, <1>7, <1>9, <1>10, <1>11 DEF JobsInv

\* A transcription takes its track from an earlier one of the same track.
LEMMA TranscribeJobs ==
    ASSUME IInv, NEW j \in JobIds, NEW t \in TrackIds, Transcribe(j, t) PROVE JobsInv'
<1> DEFINE x == NewJob("transcribe", "run", t)
           c == trackCtl[t]
           js == Abort(jobs, c)
<1>1. x \in Job /\ x # NoJob /\ x.kind = "transcribe" /\ x.phase = "run" /\ x.track = t /\ ~x.aborted
  BY NewJobFacts
<1>2. /\ c \in JobIds \cup {NoJob}
      /\ c # NoJob => /\ c \in JobIds /\ jobs[c] # NoJob /\ jobs[c].kind = "transcribe"
                      /\ jobs[c].track = t
  BY DEF IInv, JobsInv, JobsTypeOK, StatusHasLiveRun
<1>3. /\ js \in [JobIds -> Job \cup {NoJob}]
      /\ \A i \in JobIds : i # c => js[i] = jobs[i]
      /\ \A i \in JobIds : /\ Holds(js[i]) <=> Holds(jobs[i])
                           /\ HoldsTwice(js[i]) <=> HoldsTwice(jobs[i])
      /\ c # NoJob => js[c].phase = jobs[c].phase
  BY <1>2, AbortFacts, AbortedFacts DEF IInv
<1>4. /\ jobs[j] = NoJob /\ jobs' = [js EXCEPT ![j] = x] /\ loadingCount' = loadingCount
      /\ trackCtl' = [trackCtl EXCEPT ![t] = j] /\ trackStatuses' = trackStatuses \cup {t}
      /\ UNCHANGED <<replaceCtl, replaceStatus, layers>>
  BY DEF Transcribe, Free
<1> HIDE DEF x, js, c
<1>5. /\ jobs' \in [JobIds -> Job \cup {NoJob}] /\ jobs'[j] = x
      /\ \A i \in JobIds : i # j => jobs'[i] = js[i]
  BY <1>1, <1>3, <1>4
<1>6. acts' \in 0 .. MaxActs
  BY GestureCounts DEF IInv, Transcribe
<1>7. JobsTypeOK'
  BY <1>4, <1>5, <1>6 DEF IInv, JobsInv, JobsTypeOK
<1>8. OverlayCounts'
  <2>1. Weight(jobs[j]) = 0 /\ Weight(jobs'[j]) = 0
    BY <1>1, <1>4, <1>5 DEF Weight, Holds, HoldsTwice
  <2>2. loadingCount' = loadingCount + Weight(jobs'[j]) - Weight(jobs[j])
    BY <1>4, <2>1, HoldersFinite DEF IInv, JobsInv, OverlayCounts
  <2>3. QED BY <1>3, <1>5, <2>2, OverlayStep DEF IInv, JobsInv
<1>9. DecodesAreLoads'
  <2> SUFFICES ASSUME NEW i \in JobIds PROVE NeverDecodes(jobs'[i])
    BY DEF DecodesAreLoads
  <2>1. CASE i = j
    BY <2>1, <1>1, <1>5 DEF NeverDecodes
  <2>2. CASE i # j /\ i # c
    BY <2>2, <1>3, <1>5 DEF IInv, JobsInv, DecodesAreLoads, NeverDecodes
  <2>3. CASE i # j /\ i = c
    <3>1. c # NoJob /\ jobs[c].phase # "decode"
      BY <2>3, <1>2, JobsAssumption DEF IInv, JobsInv, DecodesAreLoads, NeverDecodes
    <3>2. QED BY <3>1, <2>3, <1>3, <1>5 DEF NeverDecodes
  <2>4. QED BY <2>1, <2>2, <2>3
<1>10. StatusHasLiveRun'
  <2> SUFFICES ASSUME NEW u \in TrackIds
               PROVE  /\ u \in trackStatuses' <=> trackCtl'[u] # NoJob
                      /\ trackCtl'[u] # NoJob =>
                           LET r == jobs'[trackCtl'[u]] IN
                           r # NoJob /\ r.kind = "transcribe" /\ r.track = u /\ ~r.aborted
    BY DEF StatusHasLiveRun
  <2>1. CASE u = t
    <3>1. trackCtl'[u] = j /\ j # NoJob
      BY <2>1, <1>4, JobsAssumption DEF IInv, JobsInv, JobsTypeOK
    <3>2. QED BY <3>1, <2>1, <1>1, <1>4, <1>5
  <2>2. CASE u # t
    <3>1. trackCtl'[u] = trackCtl[u] /\ (u \in trackStatuses' <=> u \in trackStatuses)
      BY <2>2, <1>4 DEF IInv, JobsInv, JobsTypeOK
    <3>2. /\ u \in trackStatuses <=> trackCtl[u] # NoJob
          /\ trackCtl[u] # NoJob =>
               LET r == jobs[trackCtl[u]] IN
               r # NoJob /\ r.kind = "transcribe" /\ r.track = u /\ ~r.aborted
      BY DEF IInv, JobsInv, StatusHasLiveRun
    <3>3. ASSUME trackCtl[u] # NoJob PROVE jobs'[trackCtl[u]] = jobs[trackCtl[u]]
      <4>1. trackCtl[u] \in JobIds /\ trackCtl[u] # j
        BY <3>2, <3>3, <1>4 DEF IInv, JobsInv, JobsTypeOK
      <4>2. trackCtl[u] # c
        BY <3>2, <3>3, <1>2, <2>2
      <4>3. QED BY <4>1, <4>2, <1>3, <1>5
    <3>4. QED BY <3>1, <3>2, <3>3
  <2>3. QED BY <2>1, <2>2
<1>11. ReplaceIsLive' /\ PillHasLiveRun'
  <2> SUFFICES ASSUME NEW i \in JobIds
               PROVE  Kept(jobs[i], jobs'[i]) \/ (jobs[i] # NoJob /\ jobs[i].kind # "resume")
    BY <1>4, ReplaceKept DEF IInv
  <2>1. CASE i = j
    BY <2>1, <1>4 DEF Kept
  <2>2. CASE i # j /\ i # c
    BY <2>2, <1>3, <1>5 DEF Kept
  <2>3. CASE i = c
    BY <2>3, <1>2, JobsAssumption
  <2>4. QED BY <2>1, <2>2, <2>3
<1>12. QED BY <1>7, <1>8, <1>9, <1>10, <1>11 DEF JobsInv

\* A cancel aborts the run, and takes spinner and ownership with it.
LEMMA CancelTranscribeJobs ==
    ASSUME IInv, NEW t \in TrackIds, CancelTranscribe(t) PROVE JobsInv'
<1> DEFINE c == trackCtl[t]
           js == Abort(jobs, c)
<1>1. /\ c \in JobIds /\ jobs[c] # NoJob /\ jobs[c].kind = "transcribe" /\ jobs[c].track = t
      /\ jobs' = js /\ loadingCount' = loadingCount
      /\ trackCtl' = [trackCtl EXCEPT ![t] = NoJob] /\ trackStatuses' = trackStatuses \ {t}
      /\ UNCHANGED <<replaceCtl, replaceStatus, layers>>
  BY DEF CancelTranscribe, IInv, JobsInv, JobsTypeOK, StatusHasLiveRun
<1>2. /\ js \in [JobIds -> Job \cup {NoJob}]
      /\ \A i \in JobIds : i # c => js[i] = jobs[i]
      /\ \A i \in JobIds : /\ Holds(js[i]) <=> Holds(jobs[i])
                           /\ HoldsTwice(js[i]) <=> HoldsTwice(jobs[i])
      /\ js[c].phase = jobs[c].phase
  BY <1>1, AbortFacts, AbortedFacts DEF IInv
<1> HIDE DEF js, c
<1>3. acts' \in 0 .. MaxActs
  BY GestureCounts DEF IInv, CancelTranscribe
<1>4. JobsTypeOK'
  BY <1>1, <1>2, <1>3 DEF IInv, JobsInv, JobsTypeOK
<1>5. OverlayCounts'
  <2>1. loadingCount' = loadingCount + Weight(jobs'[c]) - Weight(jobs[c])
    BY <1>1, <1>2, HoldersFinite DEF IInv, JobsInv, OverlayCounts, Weight
  <2>2. QED BY <1>1, <1>2, <2>1, OverlayStep DEF IInv, JobsInv
<1>6. DecodesAreLoads'
  <2> SUFFICES ASSUME NEW i \in JobIds PROVE NeverDecodes(jobs'[i])
    BY DEF DecodesAreLoads
  <2>1. CASE i # c
    BY <2>1, <1>1, <1>2 DEF IInv, JobsInv, DecodesAreLoads, NeverDecodes
  <2>2. CASE i = c
    BY <2>2, <1>1, <1>2 DEF IInv, JobsInv, DecodesAreLoads, NeverDecodes
  <2>3. QED BY <2>1, <2>2
<1>7. StatusHasLiveRun'
  <2> SUFFICES ASSUME NEW u \in TrackIds
               PROVE  /\ u \in trackStatuses' <=> trackCtl'[u] # NoJob
                      /\ trackCtl'[u] # NoJob =>
                           LET r == jobs'[trackCtl'[u]] IN
                           r # NoJob /\ r.kind = "transcribe" /\ r.track = u /\ ~r.aborted
    BY DEF StatusHasLiveRun
  <2>1. CASE u = t
    BY <2>1, <1>1 DEF IInv, JobsInv, JobsTypeOK
  <2>2. CASE u # t
    <3>1. trackCtl'[u] = trackCtl[u] /\ (u \in trackStatuses' <=> u \in trackStatuses)
      BY <2>2, <1>1 DEF IInv, JobsInv, JobsTypeOK
    <3>2. /\ u \in trackStatuses <=> trackCtl[u] # NoJob
          /\ trackCtl[u] # NoJob =>
               LET r == jobs[trackCtl[u]] IN
               r # NoJob /\ r.kind = "transcribe" /\ r.track = u /\ ~r.aborted
      BY DEF IInv, JobsInv, StatusHasLiveRun
    <3>3. ASSUME trackCtl[u] # NoJob PROVE jobs'[trackCtl[u]] = jobs[trackCtl[u]]
      <4>1. trackCtl[u] \in JobIds
        BY <3>3 DEF IInv, JobsInv, JobsTypeOK
      <4>2. trackCtl[u] # c
        BY <3>2, <3>3, <1>1, <2>2
      <4>3. QED BY <4>1, <4>2, <1>1, <1>2
    <3>4. QED BY <3>1, <3>2, <3>3
  <2>3. QED BY <2>1, <2>2
<1>8. ReplaceIsLive' /\ PillHasLiveRun'
  <2> SUFFICES ASSUME NEW i \in JobIds
               PROVE  Kept(jobs[i], jobs'[i]) \/ (jobs[i] # NoJob /\ jobs[i].kind # "resume")
    BY <1>1, ReplaceKept DEF IInv
  <2>1. CASE i # c
    BY <2>1, <1>1, <1>2 DEF Kept
  <2>2. CASE i = c
    BY <2>2, <1>1
  <2>3. QED BY <2>1, <2>2
<1>9. QED BY <1>4, <1>5, <1>6, <1>7, <1>8 DEF JobsInv

\* The finally block of a transcription, however it ended.
LEMMA TranscribeEndsJobs ==
    ASSUME IInv, NEW j \in JobIds, TranscribeFails(j) \/ TranscribeDone(j) PROVE JobsInv'
<1> DEFINE t == jobs[j].track
<1>1. /\ jobs[j] # NoJob /\ jobs[j].kind = "transcribe" /\ TranscribeSettles(j)
      /\ loadingCount' = loadingCount /\ acts' = acts
      /\ UNCHANGED <<replaceCtl, replaceStatus>>
  BY DEF TranscribeFails, TranscribeDone, At
<1>2. layers' \subseteq Songs
  <2>1. jobs[j] \in Job /\ layers \subseteq Songs
    BY <1>1, LayersTyped DEF IInv, JobsInv, JobsTypeOK
  <2>2. jobs[j].song \in Songs
    BY <2>1 DEF Job
  <2>3. QED BY <2>1, <2>2 DEF TranscribeFails, TranscribeDone
<1>3. /\ jobs' \in [JobIds -> Job \cup {NoJob}] /\ jobs'[j] = NoJob
      /\ \A i \in JobIds : i # j => jobs'[i] = jobs[i]
      /\ Weight(jobs'[j]) = 0
  BY <1>1, EndFacts DEF TranscribeSettles, IInv
<1>4. Weight(jobs[j]) = 0
  BY <1>1 DEF IInv, JobsInv, DecodesAreLoads, NeverDecodes, Weight, Holds, HoldsTwice
<1>5. OverlayCounts'
  <2>1. loadingCount' = loadingCount + Weight(jobs'[j]) - Weight(jobs[j])
    BY <1>1, <1>3, <1>4, HoldersFinite DEF IInv, JobsInv, OverlayCounts
  <2>2. QED BY <1>3, <2>1, OverlayStep DEF IInv, JobsInv
<1>6. DecodesAreLoads'
  BY <1>3 DEF IInv, JobsInv, DecodesAreLoads, NeverDecodes
<1>7. ReplaceIsLive' /\ PillHasLiveRun'
  BY <1>1, <1>3, ReplaceKept DEF Kept, IInv
<1>8. \A u \in TrackIds : trackCtl[u] = j => u = t
  BY <1>1, JobsAssumption DEF IInv, JobsInv, StatusHasLiveRun
<1>9. CASE trackCtl[t] = j
  <2>1. trackCtl' = [trackCtl EXCEPT ![t] = NoJob] /\ trackStatuses' = trackStatuses \ {t}
    BY <1>1, <1>9 DEF TranscribeSettles
  <2>2. JobsTypeOK'
    BY <1>1, <1>2, <1>3, <2>1 DEF IInv, JobsInv, JobsTypeOK
  <2>3. StatusHasLiveRun'
    BY <1>3, <1>8, <2>1 DEF IInv, JobsInv, JobsTypeOK, StatusHasLiveRun
  <2>4. QED BY <1>5, <1>6, <1>7, <2>2, <2>3 DEF JobsInv
<1>10. CASE trackCtl[t] # j
  <2>1. trackCtl' = trackCtl /\ trackStatuses' = trackStatuses
    BY <1>1, <1>10 DEF TranscribeSettles
  <2>2. JobsTypeOK'
    BY <1>1, <1>2, <1>3, <2>1 DEF IInv, JobsInv, JobsTypeOK
  <2>3. StatusHasLiveRun'
    BY <1>3, <1>8, <1>10, <2>1 DEF IInv, JobsInv, JobsTypeOK, StatusHasLiveRun
  <2>4. QED BY <1>5, <1>6, <1>7, <2>2, <2>3 DEF JobsInv
<1>11. QED BY <1>9, <1>10

-----------------------------------------------------------------------------
(***************************************************************************)
(* Every task keeps the invariant.                                         *)
(***************************************************************************)
\* The jobs that leave the engine alone, but may warm the kit up.
LEMMA WarmUpStep ==
    ASSUME IInv, NEW j \in JobIds, DropAudio(j) \/ SplitSeparated(j)
    PROVE  TransportInv'
<1>1. Preloading /\ UNCHANGED <<song, score, muted, tracks, minted, waiting, ctxQ, player, overlap>>
  BY DEF DropAudio, SplitSeparated
<1>2. QED BY <1>1, PreloadingFacts, QuietStep DEF IInv

\* A task that does not touch the transport.
LEMMA IdleStep == ASSUME IInv, UNCHANGED transportVars PROVE TransportInv'
<1>1. /\ UNCHANGED <<song, score, muted, tracks, minted, waiting, ctxQ, player, overlap>>
      /\ kit' = kit /\ ctx' = ctx
  BY DEF transportVars
<1>2. kit \in {"none", "loading", "ready"} /\ ctx \in {"none", "suspended", "running"}
  BY DEF IInv, TransportInv, TransportTypeOK
<1>3. QED BY <1>1, <1>2, QuietStep DEF IInv

\* The jobs that swap the document.
LEMMA SwapsStep ==
    ASSUME IInv,
           LoadExample \/ \E j \in JobIds : LoadInstalls(j) \/ ResumeApplies(j)
    PROVE  TransportInv'
<1>1. /\ ResetOnly \/ \E sc \in {{}, Lanes} : Install(sc)
      /\ UNCHANGED <<minted, waiting, ctxQ, overlap>>
      /\ Preloading \/ UNCHANGED <<kit, ctx>>
  BY DEF LoadExample, LoadInstalls, ResumeApplies
<1>2. /\ kit' \in {"none", "loading", "ready"} /\ ctx' \in {"none", "suspended", "running"}
      /\ ctx # "none" => ctx' = ctx
  BY <1>1, PreloadingFacts DEF IInv, TransportInv, TransportTypeOK
<1>3. QED BY <1>1, <1>2, SwapStep DEF IInv

\* A decode adds its track, or nothing.
LEMMA DecodeEndsStep == ASSUME IInv, NEW j \in JobIds, DecodeEnds(j) PROVE TransportInv'
<1>1. /\ jobs[j] # NoJob
      /\ TrackInstalled(jobs[j].song) \/ UNCHANGED <<minted, tracks, player>>
      /\ UNCHANGED <<song, score, muted, kit, waiting, ctx, ctxQ, overlap>>
  BY DEF DecodeEnds
<1>2. jobs[j].song \in Songs
  BY <1>1 DEF IInv, JobsInv, JobsTypeOK, Job
<1>3. CASE TrackInstalled(jobs[j].song)
  BY <1>1, <1>2, <1>3, TrackInstalledStep DEF IInv
<1>4. CASE UNCHANGED <<minted, tracks, player>>
  BY <1>1, <1>4, IdleStep DEF transportVars
<1>5. QED BY <1>1, <1>3, <1>4

\* A transcription that lands is an edit of whatever is loaded.
LEMMA TranscribeDoneStep == ASSUME IInv, NEW j \in JobIds, TranscribeDone(j) PROVE TransportInv'
<1> DEFINE sc == [score EXCEPT ![song] = Lanes]
<1>1. /\ \/ score' = sc /\ player' = Seen(player, song, sc)
         \/ UNCHANGED <<score, player>>
      /\ UNCHANGED <<song, muted, tracks, minted, kit, waiting, ctx, ctxQ, overlap>>
  BY DEF TranscribeDone
<1>2. sc \in [Songs -> SUBSET Lanes]
  BY DEF IInv, TransportInv, TransportTypeOK
<1> HIDE DEF sc
<1>3. CASE score' = sc /\ player' = Seen(player, song, sc)
  BY <1>1, <1>2, <1>3, EditStep DEF IInv
<1>4. CASE UNCHANGED <<score, player>>
  BY <1>1, <1>4, IdleStep DEF transportVars
<1>5. QED BY <1>1, <1>3, <1>4

\* An edit by hand.
LEMMA HandEditStep == ASSUME TransportInv, NEW l \in Lanes, Edit(l) PROVE TransportInv'
<1> DEFINE sc == [score EXCEPT ![song] = IF l \in @ THEN @ \ {l} ELSE @ \cup {l}]
<1>1. /\ score' = sc /\ player' = Seen(player, song, sc)
      /\ UNCHANGED <<song, muted, tracks, minted, kit, waiting, ctx, ctxQ, overlap>>
  BY DEF Edit
<1>2. sc \in [Songs -> SUBSET Lanes]
  BY DEF TransportInv, TransportTypeOK
<1> HIDE DEF sc
<1>3. QED BY <1>1, <1>2, EditStep

\* Keys and clicks.
LEMMA UserTransportStep == ASSUME IInv, UserTransport PROVE TransportInv'
<1>1. Keys \/ Clicks
  BY DEF UserTransport
<1>2. CASE Keys
  BY <1>2, PlayStep, PauseStep, ResumeStep, HandEditStep DEF Keys, IInv
<1>3. CASE Clicks
  BY <1>3, StopsStep, SetSpeedStep, SeekStep, DrumOffsetStep, ToggleMuteStep, ClearTrackStep
     DEF Clicks, IInv
<1>4. QED BY <1>1, <1>2, <1>3

\* Every step keeps the engine's half: one case per disjunct of Next.
LEMMA TransportKept == ASSUME IInv, [Next]_vars PROVE TransportInv'
<1>1. CASE PlayResumes
  BY <1>1, PlayGoesOnStep DEF PlayResumes, IInv
<1>2. CASE LoadExample
  BY <1>2, SwapsStep
<1>3. ASSUME NEW t \in TrackIds, CancelTranscribe(t) PROVE TransportInv'
  BY <1>3, IdleStep DEF CancelTranscribe
<1>4. ASSUME NEW j \in JobIds, JobStarts(j) PROVE TransportInv'
  <2>1. DropAudio(j) \/ UNCHANGED transportVars
    BY <1>4 DEF JobStarts, LoadFile, ResumeReplace, Transcribe, SplitTrack
  <2>2. QED BY <2>1, WarmUpStep, IdleStep
<1>5. ASSUME NEW j \in JobIds, JobGoesOn(j) PROVE TransportInv'
  <2>1. \/ UNCHANGED transportVars \/ SplitSeparated(j) \/ LoadInstalls(j)
        \/ ResumeApplies(j) \/ DecodeEnds(j) \/ TranscribeDone(j)
    BY <1>5 DEF JobGoesOn, LoadFailed, TranscribeResolves, TranscribeFails, ResumeAdvances,
       ResumeThrows, ResumeGivesUp, SplitFailed
  <2>2. QED
    BY <2>1, IdleStep, WarmUpStep, SwapsStep, DecodeEndsStep, TranscribeDoneStep
<1>6. CASE UserTransport
  BY <1>6, UserTransportStep
<1>7. CASE KitSettles \/ ContextAnswers \/ TimerFires
  BY <1>7, KitLoadedStep, KitFailedStep, ContextDoneStep, StopsStep
     DEF KitSettles, ContextAnswers, TimerFires, IInv
<1>8. CASE UNCHANGED vars
  BY <1>8, IdleStep DEF vars
<1>9. QED BY <1>1, <1>2, <1>3, <1>4, <1>5, <1>6, <1>7, <1>8 DEF Next, Task

\* Every step keeps the jobs' half: one case per disjunct of Next.
LEMMA JobsKept == ASSUME IInv, [Next]_vars PROVE JobsInv'
<1>1. CASE LoadExample
  <2>1. layers' \subseteq Songs /\ acts' \in 0 .. MaxActs
    BY <1>1, SwapFacts, GestureCounts DEF LoadExample, IInv
  <2>2. QED BY <1>1, <2>1, JobsSame DEF LoadExample, IInv
<1>2. ASSUME NEW t \in TrackIds, CancelTranscribe(t) PROVE JobsInv'
  BY <1>2, CancelTranscribeJobs
<1>3. ASSUME NEW j \in JobIds, JobStarts(j) PROVE JobsInv'
  BY <1>3, LoadFileJobs, ResumeReplaceJobs, TranscribeJobs, SplitTrackJobs DEF JobStarts
<1>4. ASSUME NEW j \in JobIds, JobGoesOn(j) PROVE JobsInv'
  BY <1>4, LoadFailedJobs, LoadInstallsJobs, DecodeEndsJobs, AdvanceJobs, TranscribeEndsJobs,
     ResumeEndsJobs, ResumeAppliesJobs, SplitFailedJobs DEF JobGoesOn
<1>5. CASE UserTransport \/ KitSettles \/ PlayResumes \/ ContextAnswers \/ TimerFires
           \/ UNCHANGED vars
  <2>1. /\ UNCHANGED <<jobs, loadingCount, trackCtl, trackStatuses, replaceCtl, replaceStatus>>
        /\ layers' = layers /\ (Gesture \/ acts' = acts)
    BY <1>5 DEF UserTransport, KitSettles, PlayResumes, ContextAnswers, TimerFires, jobVars, vars
  <2>2. layers' \subseteq Songs /\ acts' \in 0 .. MaxActs
    BY <2>1, LayersTyped, GestureCounts DEF IInv
  <2>3. QED BY <2>1, <2>2, JobsSame DEF IInv
<1>6. QED BY <1>1, <1>2, <1>3, <1>4, <1>5 DEF Next, Task

\* The session starts with the example loaded, the transport idle and no job.
LEMMA Starts == ASSUME Init PROVE IInv
<1>1. TransportInv
  <2>1. /\ song = 1 /\ score = [s \in Songs |-> Lanes] /\ muted = {} /\ tracks = {}
        /\ minted = 0 /\ kit = "none" /\ waiting = <<>> /\ ctx = "none" /\ ctxQ = <<>>
        /\ overlap = FALSE
        /\ player = [st |-> "idle", events |-> {}, drums |-> {}, doubled |-> FALSE,
                     ctl |-> NoCtl, timer |-> FALSE, timeline |-> NoSong, by |-> NoSong,
                     tracked |-> <<>>]
    BY DEF Init, TransportInit
  <2>2. player \in Players
    BY <2>1 DEF Players
  <2>3. TransportTypeOK
    <3>1. waiting \in Seq(Songs) /\ ctxQ \in Seq(Calls)
      BY <2>1
    <3>2. song \in Songs /\ score \in [Songs -> SUBSET Lanes] /\ muted \subseteq Lanes
      BY <2>1, SongsAssumption
    <3>3. QED BY <2>1, <2>2, <3>1, <3>2 DEF TransportTypeOK
  <2>4. Tracking /\ Schedule
    BY <2>1 DEF Tracking, Schedule, Live, Quiet
  <2>5. OneCall /\ TracksOnce /\ PlayingIsArmed /\ TracksFollowTransport
    BY <2>1 DEF OneCall, Awaited, TracksOnce, PlayingIsArmed, TracksFollowTransport
  <2>6. QED BY <2>3, <2>4, <2>5 DEF TransportInv
<1>2. /\ jobs = [j \in JobIds |-> NoJob] /\ loadingCount = 0
      /\ trackCtl = [t \in TrackIds |-> NoJob] /\ trackStatuses = {}
      /\ replaceCtl = NoJob /\ replaceStatus = "idle" /\ layers = {} /\ acts = 0
  BY DEF Init
<1>3. JobsTypeOK
  BY <1>2, MaxActsAssumption DEF JobsTypeOK
<1>4. Holders = {} /\ TwiceHolders = {}
  BY <1>2 DEF Holders, TwiceHolders, Holds, HoldsTwice
<1>5. OverlayCounts
  BY <1>2, <1>4, FS_EmptySet DEF OverlayCounts
<1>6. DecodesAreLoads /\ ReplaceIsLive /\ StatusHasLiveRun /\ PillHasLiveRun
  BY <1>2 DEF DecodesAreLoads, NeverDecodes, ReplaceIsLive, StatusHasLiveRun, PillHasLiveRun
<1>7. QED BY <1>1, <1>3, <1>5, <1>6 DEF IInv, JobsInv

\* The inductive invariant holds of every behaviour.
THEOREM Invariance == Spec => []IInv
<1>1. IInv /\ [Next]_vars => IInv'
  BY TransportKept, JobsKept DEF IInv
<1>2. QED BY Starts, <1>1, PTL DEF Spec

-----------------------------------------------------------------------------
(***************************************************************************)
(* What follows for the code.                                              *)
(***************************************************************************)
\* Every reachable state has the shapes the code gives it; the overlay's count stays
\* within two per call in flight, so it never goes below zero.
THEOREM TypeCorrect == Spec => []TypeOK
<1>1. IInv => TypeOK
  <2> SUFFICES ASSUME IInv PROVE TypeOK
    OBVIOUS
  <2>1. loadingCount \in 0 .. 2 * Cardinality(JobIds)
    BY HoldersFinite DEF IInv, JobsInv, OverlayCounts
  <2>2. QED BY <2>1 DEF IInv, JobsInv, JobsTypeOK, TransportInv, TypeOK
<1>2. QED BY <1>1, Invariance, PTL

\* What the kit will sound is the loaded document under the current mutes, each note
\* once, unless a transport call was made while another was outstanding.
THEOREM ScheduleFollows == Spec => []ScheduleFollowsDocument
<1>1. IInv => ScheduleFollowsDocument
  BY DEF IInv, TransportInv, Schedule, Sounds, ScheduleFollowsDocument
<1>2. QED BY <1>1, Invariance, PTL

\* Playing always has its end timer armed, or a pause outstanding.
THEOREM PlaybackIsArmed == Spec => []PlayingIsArmed
<1>1. IInv => PlayingIsArmed
  BY DEF IInv, TransportInv
<1>2. QED BY <1>1, Invariance, PTL

\* A stopped transport leaves no note, track or timer behind.
THEOREM StoppedIsQuiet == Spec => []IdleIsQuiet
<1>1. IInv => IdleIsQuiet
  BY DEF IInv, TransportInv, Schedule, Quiet, Live, IdleIsQuiet
<1>2. QED BY <1>1, Invariance, PTL

\* The audio tracks follow the transport, and a paused context is suspended.
THEOREM TracksFollow == Spec => []TracksFollowTransport
<1>1. IInv => TracksFollowTransport
  BY DEF IInv, TransportInv
<1>2. QED BY <1>1, Invariance, PTL

\* A track shows a spinner exactly while a run that was not aborted owns it.
THEOREM SpinnersAreLive == Spec => []StatusHasLiveRun
<1>1. IInv => StatusHasLiveRun
  BY DEF IInv, JobsInv
<1>2. QED BY <1>1, Invariance, PTL

\* The replace pill never outlives its run.
THEOREM PillIsLive == Spec => []PillHasLiveRun
<1>1. IInv => PillHasLiveRun
  BY DEF IInv, JobsInv
<1>2. QED BY <1>1, Invariance, PTL

\* A transcription that was aborted changes nothing of the document when it ends.
THEOREM AbortedChangesNothing == Spec => AbortedNeverMerges
<1> DEFINE Harmless(j) ==
             jobs[j] # NoJob /\ jobs[j].kind = "transcribe" /\ jobs[j].aborted
                 /\ jobs'[j] = NoJob => layers' = layers /\ score' = score
<1>1. ASSUME IInv, [Next]_vars, NEW j \in JobIds, jobs[j] # NoJob,
             jobs[j].kind = "transcribe", jobs[j].aborted, jobs'[j] = NoJob
      PROVE  layers' = layers /\ score' = score
  <2>1. jobs \in [JobIds -> Job \cup {NoJob}] /\ jobs[j] \in Job
    BY <1>1 DEF IInv, JobsInv, JobsTypeOK
  <2>2. jobs' # jobs
    BY <1>1
  <2>3. \/ UNCHANGED <<layers, score>>
        \/ \E i \in JobIds : LoadInstalls(i) \/ ResumeApplies(i) \/ TranscribeDone(i)
    BY <1>1, <2>2 DEF Next, Task, PlayResumes, LoadExample, CancelTranscribe, JobStarts,
       LoadFile, DropAudio, ResumeReplace, Transcribe, SplitTrack, JobGoesOn, LoadFailed,
       DecodeEnds, TranscribeResolves, TranscribeFails, ResumeAdvances, ResumeThrows,
       ResumeGivesUp, SplitSeparated, SplitFailed, UserTransport, KitSettles, ContextAnswers,
       TimerFires, jobVars, transportVars, vars
  <2>4. ASSUME NEW i \in JobIds, LoadInstalls(i) PROVE FALSE
    <3>1. i # j
      BY <1>1, <2>4 DEF LoadInstalls, At
    <3>2. jobs'[j] = jobs[j]
      BY <2>1, <2>4, <3>1 DEF LoadInstalls, LoadEnds, End
    <3>3. QED BY <1>1, <3>2
  <2>5. ASSUME NEW i \in JobIds, ResumeApplies(i) PROVE FALSE
    <3>1. i # j
      BY <1>1, <2>5 DEF ResumeApplies, At
    <3>2. jobs'[j] = jobs[j]
      BY <2>1, <2>5, <3>1 DEF ResumeApplies
    <3>3. QED BY <1>1, <3>2
  <2>6. ASSUME NEW i \in JobIds, TranscribeDone(i)
        PROVE  layers' = layers /\ score' = score
    <3>1. i = j
      BY <1>1, <2>1, <2>6 DEF TranscribeDone, TranscribeSettles, End
    <3>2. QED BY <1>1, <2>6, <3>1 DEF TranscribeDone, Merges
  <2>7. QED BY <2>3, <2>4, <2>5, <2>6
<1>2. IInv /\ [Next]_vars => [\A j \in JobIds : Harmless(j)]_vars
  BY <1>1
<1>3. QED BY <1>2, Invariance, PTL DEF Spec, AbortedNeverMerges
=============================================================================
