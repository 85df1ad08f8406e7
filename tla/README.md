# A formal model of drumjot

Drumjot is a drum-notation program: an editor in the browser (React, MobX, Loro),
a Python transcriber that turns songs into charts on a GPU, and a Tauri desktop
shell that runs the transcriber as a sidecar process. This directory models the
parts of it where several actors interleave, fail or go away, checks them with
TLC and proves with TLAPS, for every value of their constants, the safety results of
its five models, all but one half of one property (section 8).

Paths below are relative to the repository root.

## 1. Inventory

| Component | State it keeps | Operations | Interacts with |
|---|---|---|---|
| GPU service (`transcriber/app/main.py`, `pipeline/runner.py`, `pipeline/gpu_park.py`) | `_gpu_lock` and its waiters, per-stream generators, worker threads, `cancel_event`, envelope queue, work dir, device of each model | `/transcribe`, `/transcribe/resume`, `/lyrics/align`, `/score` streams; park and unpark; disconnect poller | HTTP clients, worker threads, torch |
| Desktop sidecar job (`net/sidecar_backend.ts`, `src-tauri/src/sidecar.rs`, `comms/stdio_adapter.py`, `comms/transcribe_runner.py`) | staged input, jobs map with cancel senders, stdin and stdout pipes, cancel token, scratch dir | `run`, `run_job`, `cancel_job`, request and cancel frames, progress and terminal frames | webview, Rust broker, Python child |
| Capability installation (`desktop/capability_*.ts(x)`, `src-tauri/src/capability.rs`) | statuses, prompt and its waiter, install chain, `capabilities.json`, venv, weights | request, confirm, cancel, install, boot refresh, uv sync, provision, record | webview, Rust host, uv |
| Playback transport (`editing/playback/player.ts`, `playback_presenter.ts`, `drum_scheduler.ts`, `soundfont_loader.ts`, `audio_tracks.ts`) | play state, drum schedule, audio-track controller, tail timer, timeline; kit load; context state | play, pause, resume, stop, seek, speed, mute, refresh on edits, add and clear tracks | Web Audio, mixer, document |
| Document loading and session reset (`editing/jot_editor_presenter.ts`, `jot_editor_store.ts`, `session_reset.ts`, `mixer/mixer_presenter.ts`) | document and peers, loading count, audio tracks, mixer | example, file, MIDI, ParaDB, debug bundle and audio loads; stem split | player, transcribe flow |
| Transcribe flow (`editing/transcribe/transcribe_presenter.ts`, `append_transcription.ts`) | abort controller and status per track, replace controller and status | append, resume and replace, cancel, merge | backend client, loading, document |
| Structure, layer and note editing (`editing/layers`, `editing/editing_presenter.ts`, `note_properties`) | `ordering`, `tracks`, `trackGroups`, `layers`, `elements` of the document | drags of tracks, groups and layers, ungroup, insert, delete, move and paste notes, set lane, rows for loaded audio and lyrics | document, history |
| Undo history (`editing/history`, `schema/reactive_doc.ts`) | undo and redo stacks | commit, transact, undo, redo | Loro |
| Lyrics flow (`editing/lyrics/lyrics_presenter.ts`) | controller and status per row | align, clear | backend client, document |
| Blob cache (`transcriber/app/cache.py`) | index per process, one directory, byte total | get, put, evict, rebuild | several worker processes |
| DSL, MIDI, RLRR, tempo, quantisation | none | conversions and heuristics | - |
| Views | none | rendering | everything observable |

What is hard in it:

- **Concurrency.** The service's streams interleave at every `await` while
  worker threads, which cannot be interrupted, go on beside them. The broker,
  the child and the webview are three processes. The presenters interleave at
  every promise: a handler is atomic up to its `await` and goes on, later, in
  whatever state the session is in by then.
- **Failure and going away.** Clients disconnect at any time, sidecars crash,
  writes fail, uv syncs and downloads fail, the app is killed.
- **Ordering.** Sentinels and envelopes cross threads; cancels race spawns;
  snapshots land after what they describe has changed.

What makes each component correct:

- *GPU service*: streams exclude each other on every path through the lock; no
  model moves under a live stream; a stage finds its model on the GPU; an abandoned
  pipeline stops at its next stage; one terminal envelope, last; nothing left on
  disk; no stream waits for ever.
- *Sidecar*: success means the child produced a result; an input lives as long
  as its reader; no dead entries; cancels arrive; every run settles.
- *Capabilities*: installs exclude each other; what is recorded is usable; the
  venv holds what is recorded; callers are answered, and answered right.
- *Loading, transcribe and lyrics flow*: only the newest run of a kind changes
  status; an aborted one changes nothing; a result goes into the document it was
  asked for; the overlay goes away.
- *Transport*: what sounds is the document as it is; a stop is final until the
  next play; playback ends; the play button never sticks.
- *Editing*: a track has one row, a group its name; no gesture strands notes;
  loaded audio has its place.
- *History*: undo and redo are inverse; a gesture is undone as one.
- *Cache*: the byte total is the sum of the entries; no reader is handed half a
  file.

`PROJECT.json` lists every component, the hazards at their lines, and the
definition-to-source map.

## 2. Plan

| Order | Module | Status |
|---|---|---|
| 1 | `GpuService`, implementing the abstract `SerialService`; `GpuService_proofs`, `GpuStreams_proofs` | done |
| 2 | `SidecarJob`; `SidecarJob_proofs` | done |
| 3 | `CapabilityInstall`; `CapabilityInstall_proofs` | done |
| 4 | `Transport`: the playback engine across its awaits | done |
| 5 | `Session`: document loads, audio decodes, transcribe flows and stem splits, composed with `Transport`; `Session_proofs` | done; the lyrics alignment flow would be one more kind of job |
| 6 | `ScoreEdit`: arrangement, note homes, runtime rows, undo; `ScoreDocs_proofs`, `ScoreOps_proofs`, `ScoreEdit_proofs` | done |
| 7 | `BlobCache`: two processes over one directory | planned |

`Session` extends `Transport`: the engine has no next-state relation of its own,
because who may call it when (the overlay, the buttons' enabledness, a document
swap) is the session's business. `ScoreEdit` is apart: an edit runs in one task
and meets the asynchronous world only through the tracks that come and go and
the transcriptions that land, which it has as gestures.

Abstract specifications: `SerialService` (done); for the sidecar, one call that
settles once.

Theorems: every invariant and every action property of `GpuService`, `SidecarJob`,
`CapabilityInstall`, `Session` and `ScoreEdit` that a passing run checks is proved, of
`StemsTakeTheirPlace` the first half, and so is the refinement of `SerialService`. No
module declares a recursive operator.

## 3. The GPU service

`GpuService.tla` follows any set of requests (`Requests`, each a transcribe, a
lyrics or a score request by `Kind`) from arrival to the end of the stream.

**State.** `pc` is the generator's position: `arrived`, `queued` (the envelope is
out, `acquire()` not yet called), `waiting` (in the lock's line), `granted`, `pump`,
`finishing`, `closing` (unwinding after a cancellation), `stranded` (its finally has
raised before it came to the lock), `closed`. `holder` and
`waiters` are `asyncio.Lock`; `thread`, `stage` and `outcome` the worker thread and
the stage it is in; `queue` the `asyncio.Queue` from the thread to the pump;
`cancel_event` the context's event; `sent` the lines the client was sent; `workdir`
whether the temp dir is on disk; `modules` the models this build runs by torch (the
others are ONNX sessions) and `device` where each model is; `disturbed` a history
variable, the requests whose thread was inside a stage on a model when that
model was moved.

**Actions.** One per stretch of code between two awaits of the event loop, and
one per step of a worker thread. `Enter` is what follows `acquire()` without an
await: the pipeline stream parks at once and starts its thread, a serial stream
yields `running`. `PumpEnd` is one step, because `post_run` has no await that
suspends. `CloseStream` is the generator's finally.

**Models.** `sw` is the separator that stem separation and vocals extraction share, `drum`
the drum-piece separator, `beat` Beat This!, `adtof` ADTOF, `ctc` the lyrics aligners. The
parking helpers (`park_for_transcribe`, `park_for_lyrics`,
`park_vocals_after_extraction`) are functions on `device`, and what they do depends on the
build. A torch module is moved to the CPU and back (`park_module`, `unpark_module`). Of an
ONNX model parking drops the reference to its session, to be loaded again when it is next
used (`drop_sessions`); Beat This! is dropped in either build. A separator's session
is neither: `_inner_module` has no module for it, so in the default build the separators
stay on the GPU through everything. A stage whose model is built for the call and
kept nowhere, as the learned onsets detector's is, uses none of these. CUDA is taken to
be there; the helpers do nothing without it.

**Going away.** `Disconnect` is the client's; `WatchDisconnect` the half-second poller. What
the server then does to the generator depends on where it is suspended. At an
await it is cancelled (`CancelPipeline`, `CancelQueuedPipeline`, `CancelSerial`). At its
`yield`, a chunk being sent, it is abandoned: it is closed with GeneratorExit, which
`except asyncio.CancelledError` does not see, so nobody sets `cancel_event`. Closed in
its own task, its finally runs through (`ExitPipeline`). Closed by the event loop's
finaliser, in a context of its own, the finally raises when it resets the debug
sink's ContextVar, and neither the work dir nor the lock is given up
(`StrandPipeline`). The serial streams reset no ContextVar and end alike both ways. A
stream that goes away while it runs leaves its thread running.

**Abstractions.** Stage bookends and substages are one `stage` envelope; heartbeats are
left out, but make a yield possible at every moment of the pump. The transcribe
program is a constant, a sequence of models and of stages that use none; `resume` is a
shorter one. asyncio's lock is modelled as it is used: an acquire suspends when the
lock is held or somebody is in line, a release wakes the head. The parking helpers
never raise to their caller; a failed move is not modelled. What a model left
behind on the GPU costs in memory is not modelled either.

### Runs

- `gpu` (328,546 states): one request of each kind, a transcribe program of the
  drum-piece separation and a stage without a model (`MCProgram`), the all-ONNX build
  and the all-torch one, one disconnect. Three requests are the least that put two
  in the line behind a holder, and one of each kind gives every order of parking;
  one disconnect already gives every abandoned thread, and two stages the one it must
  not start. Longer programs and mixed builds are left to the proofs. All hold:
  - `TypeOK`; `MutualExclusion`: the owner of the lock is exactly the stream inside;
  - `AttachedUndisturbed`: no model moves under a thread whose stream holds the lock;
  - `ResidentWhenUsed`: a live stream's stage finds its model on CUDA;
  - `AlignerHasGpu`: with no abandoned thread about, the aligner shares the GPU with
    nothing but an ONNX build's separators;
  - `OneTerminalLast`, `WorkDirRemoved`: what a client that stays is owed;
  - `EveryStreamCloses`: no lost wake-up, no lock left behind, but by a stream that is
    `Stranded`;
  - `ImplementsService`: under a refinement mapping the streams implement
    `SerialService`, one client served at a time, at most one answer, from inside.
    A stranded stream is a client lost that keeps its turn.
- `gpu_abandoned` (violated): the docstring of `_stream_pipeline` says that after a
  disconnect the pipeline finishes its stage and skips everything after it. A
  stream abandoned at its yield does not tell it, and the thread starts its next
  stage, beside those of the request that has the lock by then.
- `gpu_queued_cancel` (violated): the docstring of `_stream_pipeline` says the work
  dir is removed in its finally; a request cancelled while it waits for the lock
  is before the try.

**Fairness.** Weak fairness of each stream's loop steps (the event loop runs
every ready task), of each thread's steps (native stages return) and of the
delivery of a cancellation to a stream whose client left. Nothing is assumed of
clients, arrivals or the poller.

Deadlock is not checked in this component's runs: when all streams are closed
the service idles.

### Proofs (`GpuService_proofs.tla`, `GpuStreams_proofs.tla`)

For every set of requests, every kind, every transcribe program and every build
(which models run by torch). First the lock, from `Invariance`: `Spec => []IInv`:

- `TypeCorrect`: `Spec => []TypeOK`;
- `LockExcludes`: `Spec => []MutualExclusion`;
- `LiveStreamsUndisturbed`: `Spec => []AttachedUndisturbed`.

Neither property is inductive. `MutualExclusion` needs that only the stream that
enters becomes holder and that no stream in line is inside. `AttachedUndisturbed`
needs to know, when a stream parks, that every *other* thread inside a stage
belongs to a stream that no longer holds the lock; `IInv` therefore adds that a
stream whose job has not started has no thread, and that only a request that has
or had a thread is ever in `disturbed`: a stream that enters is then undisturbed,
and the threads a park can catch are none of its own.

Then the streams, from `StreamInvariance`: `Spec => []StreamInv`:

- `StagesFindModels`: `[]ResidentWhenUsed`; `AlignerAlone`: `[]AlignerHasGpu`;
- `AnswersOnce`: `[]OneTerminalLast`; `WorkDirGone`: `[]WorkDirRemoved`;
- `StreamsServe`: `ImplementsService`. The streams start as `SerialService` does and
  every step of theirs is one of its steps or a stutter.

`StreamInv` adds four parts to `IInv`, three of them for every stream. `Threads` says
where a thread may still run once its stream is not in its pump: only behind a
client that left. `Answers` says what the queue
holds while the thread runs (stage envelopes only) and once it has reported (the
report, then the end marker), and from where on the client has its answer; that
there is one answer, and last, rests on the queue's shape. `Devices` says
where the models are while a stream holds the lock: what its kind parks for is
never on the CPU. `AlignerHasGpu` holds only as long as nobody was abandoned, since an
abandoned thread loads models of its own accord, so that part is conditional on it,
and it allows the separators' sessions (`OffCuda`). `OnlyModulesPark` says that what is
on the CPU is a torch module: what a park moved an unpark brings back.

The proofs have one case per action. They rest on the assumptions named in
`GpuService.tla`: kinds are as typed, `NoRequest` is no request, a transcribe
program is a non-empty sequence of stages none of which uses the lyrics aligner,
and in a build the two separators are of one sort and Beat This! is no module.

## 4. The desktop sidecar job

`SidecarJob.tla` has one client, one `run_job` and one child process per job.

**State.** `client`, `aborted`, `temp` (the staged input), `got` (frames received),
`cancel_call` (the cancel invoke in flight); `broker` (position in `run_job`),
`verdict`, `jobs` (the map), `fired` (the oneshot); `child`, `token`, `scratch`; the pipes
`stdin` and `stdout`, the latter bounded by `PipeCapacity`.

**Actions.** One per await of `run` in `sidecar_backend.ts`, of `run_job` and
`cancel_job` in `sidecar.rs`, and one per step of the child's stdin loop and of the
live transcribe runner. `Forward` and `TakeCancel` are the two arms of the `select!`,
so a cancel that has fired may still lose to a frame. `Crash` ends the child
anywhere; `SendFails` and `ReadFails` (a frame over the cap) end the broker's loop.

**Abstractions.** Frames are kinds. Frames are taken to reach the webview in
order and before the invoke resolves. The runner is the live one: bundle replay
and the other runners have the same frame protocol and a subset of its
failures. The sweep of aged scratch is not modelled.

### Runs

- `sidecar` (2,024 states): one job, `PipeCapacity = 2`. One job is enough: jobs
  share only the map, whose entries are keyed by id. Two frames are enough to
  fill a pipe with and without the terminal one.
  - `NoDeadEntry`: no entry outlives its `run_job`;
  - `InputOutlivesJob`: the staged input is there as long as the child may read it;
  - `SuccessIsReal`: a resolved run whose child was not lost had its result;
  - `CleanExitLeavesNoScratch`;
  - `CancelReachesLoop`: a cancel made once the entry exists reaches the loop;
  - `EveryRunSettles`: every run settles, or is in the one state `Stuck` names, in
    which the broker has stopped reading and waits for a child that is blocked on
    the full pipe.
- `sidecar_crash` (violated): the protocol says a stream ends with exactly one
  result or error. The end of the stream is taken for success, and a job whose
  child died resolves with no artifacts.

`CancelNeverDropped` says of every cancel what `CancelReachesLoop` says of those
after registration. It does not hold: a cancel made while the process is being
spawned finds no entry and is dropped. It is kept beside the model as the
statement a fix would have to meet.

**Fairness.** The client, the broker, the cancel call and the child take steps
they can take (the pipeline returns or raises). Aborts, crashes and failed
sends are never forced. Deadlock is not checked: a settled job stops.

### Proofs (`SidecarJob_proofs.tla`)

For every set of jobs and every pipe capacity but zero, `Spec => []IInv` (`Invariance`)
and from it each invariant of the run (`TypeCorrect`, `NoEntryOutlivesLoop`,
`InputIsThere`, `ResolvedIsReal`, `ExitLeavesNoScratch`) and `CancelsReachLoop`. The jobs
share only the map, so `IInv` is a conjunction over jobs. Per job it ties the three
parties together: `InStep` (which positions of client, broker and child occur
together, and with which state of the input), `Ending` (who may have closed
stdin or killed the child), `Cancelling` (until the loop ends, the channel is in the
map or has been fired: all of `CancelReachesLoop` and most of `NoDeadEntry`), `Verdict` and
`Reported` (why a loop ended well: the chain behind `SuccessIsReal`), and `Scratch` (a
cancel reaches the child only when the broker is about to kill it, so a child
that leaves its work dir never exits by itself). `EveryRunSettles` is liveness.

## 5. Capability installation

`CapabilityInstall.tla` covers the gate, the install queue, the boot refresh and the
Rust commands, with the app killed and started again at any point.

**State.** `statuses`, `pendingGate`, `gateResolve` as in the code; per caller its
position and answer (`waiter`), what it asked for and what its disk check read;
`chain`, every install of the session; `boot` and `snapshot`, the refresh; and on the
host `disk` (`capabilities.json`), `venv`, `weights`. `torn` is a history variable: an install
began before the refresh had landed, or failed with records on disk that the
store had lost.

**Actions.** One per stretch between awaits. `Settled` is the microtask rule: no
click and no reply of the host comes between an install's end and the promise
callbacks that wait for it. The prompt's buttons are disabled while its
capability is installing, as in `capability_gate.tsx`; the picker's button likewise.
A `uv sync` replaces the venv by the groups it was given. `Restart` keeps disk and
weights, and leaves a sync under way done or not.

**Abstractions.** Only capabilities of kind `deps`; disk-space checks, sizes and
accelerator data are left out. `SetCapabilityInstalled` records in any order that
puts prerequisites first, of which the code takes one.

### Runs

- `capability` (179,753 states): two features over one shared prerequisite, two
  callers at the gate for one of them, the picker installing the other, two
  installs per session, one restart. Two installs are the least that queue;
  a restart is what separates the disk from the store.
  - `InstallsExclusive`: no two syncs or record rewrites overlap;
  - `RecordedHasWeights`, `RecordedIsClosed`: what is recorded has its models and its
    prerequisites, across failures and restarts;
  - `GrantedIsRecorded`, `NoWaiterForgotten`, `ConfirmedIsAnswered`: callers are
    answered, and let through only for what is recorded;
  - `VenvKeepsInstalledInStep`: with `torn` false, what is recorded is in the venv;
  - `RefreshNeverDowngrades`: an old snapshot takes nothing back.
- `capability_venv` (violated): the comment on `installGroups` says a sync keeps
  prior capabilities. An install that starts before the refresh has landed does
  not know them, and the sync removes them.
- `capability_cancel` (violated): a dismissed prompt does not abandon the action
  when its install was already confirmed.

**Fairness.** Settled promises resume; uv, the download and the file write end
one way or the other. The user need do nothing. Deadlock is not checked: the
bounds on installs and restarts let the system stop.

### Proofs (`CapabilityInstall_proofs.tla`)

For every set of capabilities and every prerequisite relation, any callers,
selections and bounds: `Spec => []IInv` (`Invariance`), from it each invariant of the
run, and `RefreshOnlyAdds` for `RefreshNeverDowngrades`. `RecordedIsClosed` is not
inductive by itself: recording one capability at a time keeps prerequisites first
only if what an install has still to record lies above what is on disk.
`Progresses` says so of the install under way (what it lacks, what it has
recorded, whose turn it is); `OneRuns` derives from the turn that there is only one.
`Keeping` adds, for a session in step, that the groups an install was given have
everything on disk, which is what a sync must not drop. `Behind` says that the store,
the snapshot and the disk checks are never ahead of the disk, for `GrantedIsRecorded`,
and `InStep` that an idle store in step is not behind it either, which is where the
next install gets its groups from. `closure` is proved closed from its definition
as an intersection (`ClosureFacts`); it is not recursive.

## 6. The editing session: `Transport` and `Session`

`Transport.tla` is the playback engine, `Session.tla` the asynchronous work around
it. In JavaScript one task runs at a time: an action is a handler up to its
first `await` that suspends, or a continuation.

**State of `Transport`.** `song` is the loaded document and `score` the lanes that
have notes in each; `muted` the lane filter; `tracks` the audio tracks, each with the
song that was loaded when it was asked for; `kit` and `waiting` the drum kit and the
`play()` calls awaiting it, by the document they captured; `ctx` and `ctxQ` the
`AudioContext` and the calls awaiting it; `player` the engine's fields:

| field | in the code |
|---|---|
| `st`, `events`, `timeline` | `state`, `events`, `timeline` (by whose document) |
| `drums`, `doubled` | what the sampler has been handed and not told to stop; whether it has a note twice |
| `ctl` | `audioTrackController` and the tracks it has sources for |
| `timer` | `endTimerId` |
| `tracked` | the live-edit reaction's last value |
| `by` | history: the document that asked for the playback in progress |

`overlap` is a history variable: a play, pause or resume was called while another
was outstanding.

**Actions of `Transport`.** `Play`, `Pause`, `Resume`, `Seek`, `SetSpeed`, `DrumOffset`,
`ToggleMute`, `StopButton`, `TailTimer`, `ClearTrack`, `TrackInstalled`, `Edit`, and the
continuations `KitLoaded`, `PlayGoesOn`, `KitFailed` and `ContextDone`. When the kit has
loaded, the `play()` calls that awaited it go on one after the other as microtasks
(`PlayGoesOn`); `Session` lets no other task run before the last one has (`Drained`).
The engine's own handlers
are functions on `player`, as several of them run in one task; the live-edit
reaction (`React`) is applied wherever its task would run it.

**State of `Session`.** `jobs`, the calls between their first await and their end, each
with its kind, the await it is at, the song that was loaded when the user asked
for it, and whether its controller was aborted; `loadingCount`; `trackCtl` and
`trackStatuses`; `replaceCtl` and `replaceStatus`; `layers`, the transcriptions in the
document by the song they were asked in.

**Actions of `Session`.** Loads without an await (`LoadExample`), file loads
(`LoadFile`, then `LoadFailed` or `LoadInstalls`), audio (`DropAudio`, `DecodeEnds`),
append transcription (`Transcribe`, `CancelTranscribe`, `TranscribeResolves`,
`TranscribeFails`, `TranscribeDone`), resume and replace (`ResumeReplace`,
`ResumeAdvances`, `ResumeThrows`, `ResumeGivesUp`, `ResumeApplies`), stem split
(`SplitTrack`, `SplitSeparated`, `SplitFailed`), and the transport's. The overlay
takes clicks while something loads; the keyboard and dropped files go past it.

**Abstractions.** There is no time and no position: every note of a schedule is
still to sound, and the timer may fire whenever it is armed. A split gives one
stem, a pack or a bundle one audio track. Calls on the context are answered in
the order they were made. A document that was replaced does not change any
more. Mute stands for the whole lane filter (solo, volumes, masters). The
preset of the kit, output capture and the view's follow flags are left out.

### Runs

- `session` (1,028,463 states): one lane, three songs, two tracks ever, two jobs in
  flight, two calls outstanding, five user gestures. Two jobs are the least
  that supersede, race or leak into each other; three songs put a swap before and
  after a job; five gestures reach every job started, joined by a second, and
  still leave two for the transport. One lane is enough: the schedule is a set,
  and nothing relates lanes.
  - `ScheduleFollowsDocument`: what the kit was handed is the loaded document under
    the current mutes, each note once, unless calls overlapped;
  - `PlayingIsArmed`: whatever raced, playing has the timer armed or a pause coming;
  - `IdleIsQuiet`: off-transport nothing is left to sound or to stop a later play;
  - `TracksFollowTransport`: while playing every loaded track sounds, while paused
    the context is suspended;
  - `StatusHasLiveRun`, `PillHasLiveRun`: a spinner has a live run behind it, and, for
    tracks, a live run its spinner;
  - `AbortedNeverMerges`: a cancelled or superseded run changes nothing at its end;
  - `LoadingEnds`: the play button leaves its loading state.

  Two files dropped one upon the other load at once, and the last to end
  installs its document, whichever was dropped last.
- `session_leak` (violated): `session_reset.ts` says that the previous song's state
  can't leak onto the new one. Audio decodes, stem splits, transcriptions and
  `play()` go on after their awaits without looking which document is loaded.

`overlap` bounds what is claimed of `ScheduleFollowsDocument` and `IdleIsQuiet`: two
stacked `play()` calls do hand every note out twice, and a pause that
resolves after a stop does leave the engine paused without events.

**Fairness.** The kit load ends, because the loader gives up after 120 s, microtasks
run, and the context answers. File reads, backend runs, decodes and the user are promised
nothing. Deadlock is not checked: gestures run out.

### Proofs (`Session_proofs.tla`)

For every number of documents, lanes, tracks, calls in flight and gestures:
`Spec => []IInv` (`Invariance`), and from it each invariant of the run and
`AbortedChangesNothing`. `IInv` has a half for the engine and one for the jobs,
which share nothing but the songs a job may carry.

- *Engine.* `ScheduleFollowsDocument` is not inductive: an edit while playing is heard
  only because the reaction has seen the document before it (`Tracking`: it holds
  the notes as they stand, exactly on the transport). `Schedule` adds that off the
  transport the kit is empty, so that a `play()` doubles nothing, and that the events
  are the document's, so that a seek, a speed change or a mute reschedules the
  right ones. Both are claimed until calls overlap; `OneCall` says that until then
  at most one call is outstanding, and that a `play()` still to begin finds the
  transport off. `PlayingIsArmed` and `TracksFollowTransport` are claimed of every
  interleaving and are inductive with these and with `TracksOnce` (an id is handed out
  once, so clearing a track silences no other).
- *Jobs.* `StatusHasLiveRun` is inductive; `PillHasLiveRun` needs `ReplaceIsLive`, that
  the controller held is that of a resume not aborted, because `ResumeThrows` resets the
  status only for the controller that still owns it. `OverlayCounts` says the
  overlay's count is the number of loaders in flight, a load that waits for its audio
  twice: this is what bounds `loadingCount` from below in `TypeOK`. It needs
  `DecodesAreLoads`, which says what a decode can belong to.

The proof has one lemma per handler, above lemmas on the engine's functions
(`RefreshedFacts`, `ReactFacts`, `BeginFacts`, `ContinueFacts`, `StoppedFacts`) and on counting
(`CountOne`, `OverlayStep`). It rests on the assumptions named in `Transport.tla` and
`Session.tla`: documents and track ids are numbers, and the values that stand for "none"
are none of the values they are put beside. TLC checked `IInv` on the bounds of `session`.

## 7. The score: `ScoreEdit`

**State.** `doc` is the document: `ordering` (layers of slots of tracks; a slot is a
loose run or a group's), `tracks` (entity and lane), `groups` (`trackGroups`), `notes`.
`undo` and `redo` are the undo manager's stacks, one item per commit, each marked
whether it is the first of its gesture; `runtime` the audio and lyrics tracks
loaded.

**Commits.** Outside a `transact` every façade write is a commit, and the undo
manager (`mergeInterval: 0`) takes back one. An operation is therefore a function
from the sequence of documents so far to that sequence with its own commits
appended, in the code's order; a gesture applies one or several, leaves `doc` the
last and puts the others on the undo stack. Undo and redo step through them at
any point, so every half-done arrangement is a state in which the next gesture
may start. Within a `transact` there is one commit, and `ensureInstrumentTrack`
decides from the cache, which has not moved on (`Provisioned`).

**Actions.** The drags of the Layers panel and of the mixer's gutter
(`DragTrackBefore`, `DragTrackAfter`, `DropTrackInto`, `DragGroup`, `DragLayer`), its
group button (`DissolveGroup`), note edits (`InsertNote`, `DeleteSelection`, `CommitPaste`,
`DragNotes`, and `SetLane` of the inspector, which opens no transact), a landing
transcription (`TranscriptionLands`), runtime tracks coming and going (`LoadRuntime`,
`DropRuntime`, the reaction of `LayersPresenter`), `Undo` and `Redo`.

**Abstractions.** A track `tk<n>` is the number n; a transcription's minted ids,
which the counting of `tk<n>` ignores and which sort before every `v<n>`, are
negative. The notes of one row are one note; a selection is one row's notes or
all. Beats, bars, names and colours are left out. `primaryLayerId` and
`ownerLayerFor` look at the declared `layers`, the model at the ordering's ids: the two are
the same set, since `dslToInit` declares at least one layer and orders every layer it
declares, empty ones too, `appendLayer` adds both in one commit and nothing removes a
layer; so `appendTrackToLayer` never misses its layer either. A document is opened with
its rows filled; the empty kit is reached by deleting. Loro is taken to restore
documents exactly. `clash` is a history variable: a transact provisioned two rows.

### Runs

- `score` (241,174 states): two lanes, two layers of one row each, a stem that backs
  both rows, lyrics; three gestures and up to four commits taken back. Two layers
  make every move within and across layers; three gestures are the least for a
  group, a change under it and a move of it; four commits take a `createGroup`
  back half way, and a drag wholly.
  - `GroupsNamed`: a group slot has its name and a group one place, however much of
    a gesture is undone;
  - `OneRowPerTrack`: a track has at most one row and each row its track, in the
    half-done documents too, unless `clash`: the second of two absent lanes in one
    paste or drag gets the id of the first, and the row twice;
  - `NoGestureOrphans`: no gesture leaves a track it keeps without its row;
  - `StemsTakeTheirPlace`: when a runtime track comes or goes the loaded ones, and no
    others, have rows, and a stem mapped to placed lanes heads a group of them.
    The second half is a statement about one stem, as in this run: when two stems
    share a lane and, after an undo, one sync gives both a row, the later one takes
    the lane from the other's group.
- `score_undo` (violated): `history_presenter.ts` says that each gesture is one undo
  step. A track drag is two commits; one undo leaves the track without a row.

All of it is safety; no fairness is assumed. Deadlock is not checked: gestures
run out.

### Proofs (`ScoreDocs_proofs.tla`, `ScoreOps_proofs.tla`, `ScoreEdit_proofs.tla`)

For any finite set of lanes, any runtime tracks and stem mapping, any document opened
and any bounds: `Invariance`, `Spec => []IInv`, and from it

- `TypeCorrect`, `GroupsAreNamed`, `RowsAreUnique`: the three invariants of the run;
- `NoneOrphaned`: `NoGestureOrphans`;
- `RuntimeTracksHaveRows`: the first half of `StemsTakeTheirPlace`, as `LoadedHaveRows`.

*The invariant.* The run's invariants speak of `doc`, but an undo may bring back any
document a gesture ever passed through. `IInv` therefore says the same of the document
and of every document on the two stacks: it is in `Good`, that is well formed
(`Documents`), its groups named and each in one place (`Grouped`), its tracks in one row
each (`Single`) and their entities there (`Known`). After a clash two rows may have one
instrument's id, and no more can be claimed of instruments; but the ids of runtime
tracks are not minted, so `Single` and `Known` go on for them (`Scope`), which is what
the reaction that syncs their rows relies on.

*The argument.* `Histories` are the non-empty sequences of good documents. Each
operation has a lemma that it takes a history to a history, with what it does to the
rows: moves them (`Moves`), adds or removes given ones, or keeps at least those there
were (`Grows`). The operations compose, so a gesture's lemma cites those of its parts,
and `CommitKeeps` turns a gesture's history into the next state. No operation orphans
a track: each takes a row out only to put it back or to drop its entity with it, in
the same gesture.

*Iterations.* The code's loops over tracks, slots and notes are recursive functions
local to an operator. That such a function exists, and that what each step keeps the
whole keeps, is well-founded induction, here over the numbers up to the loop's
length and stated with sets instead of predicates (`Stages`, `StagesHold`), because a lemma
with an operator parameter cannot be cited.

`ScoreDocs_proofs` has sequences, documents position by position (`GoodByPosition`) and the
placement of a slot; `ScoreOps_proofs` the panel's operations and the sync of runtime
tracks; `ScoreEdit_proofs` provisioning, note gestures, landing transcriptions, undo and the
theorems. They rest on `ScoreAssumption`: the kit is finite, a stem is mapped to a lane
once and lyrics to none, a document has a layer, and ids of different kinds do not
collide. TLC checked `IInv` on the bounds of `score`.

## 8. What is only model-checked

- *Liveness*: `EveryStreamCloses`, `EveryRunSettles`, `ConfirmedIsAnswered` and
  `LoadingEnds`. The prover does not reach fairness.
- *The second half of `StemsTakeTheirPlace`*: that a new stem heads a group of its lanes.
  It does not hold of every value of the constants (section 7), and for one stem it is
  a statement about positions after a chain of moves, each of which dissolves or
  shifts slots; `NoGestureOrphans` and `LoadedHaveRows` need only the rows.

The runs that show a violation say nothing beyond the behaviour they exhibit.

## 9. What is not modelled

- *Blob cache*: planned. *Lyrics alignment flow*: the controller-per-row pattern
  that `Session` has for transcriptions; one more kind of job would double the
  state space of the run without a new kind of race.
- *HTTP backend client, waveform worker*: their outcomes are choices of the
  modelled callers.
- *Parts of modelled components*: `PROJECT.json` lists them per component, among
  them the transcribe dialog, saving and scoring, beats, bars and tuplets, the
  derived structure, names and colours, output capture and master volumes.
- *Conversions* (DSL, MIDI, RLRR, jot files), *tempo arithmetic*, *quantisation*: pure
  functions of their input with tests beside them.
- *Separation, beats, onsets, training*: numerical; their order and failures are in
  `GpuService`.
- *Views, shell entry, deployment*: presentation and configuration.

## 10. Running

    tlc -workers 2 -config GpuService.cfg MCGpuService.tla
    tlc -workers 2 -config SidecarJob.cfg MCSidecarJob.tla
    tlc -workers 2 -config CapabilityInstall.cfg MCCapabilityInstall.tla
    tlc -workers 2 -config Session.cfg MCSession.tla
    tlc -workers 2 -config ScoreEdit.cfg MCScoreEdit.tla
    tlapm GpuService_proofs.tla
    tlapm GpuStreams_proofs.tla
    tlapm SidecarJob_proofs.tla
    tlapm CapabilityInstall_proofs.tla
    tlapm Session_proofs.tla
    tlapm ScoreDocs_proofs.tla
    tlapm ScoreOps_proofs.tla
    tlapm ScoreEdit_proofs.tla

The definitions named `Mut...` are plausible bugs, each beside the definition it
would replace; `PROJECT.json` pairs each property with one that breaks it.
