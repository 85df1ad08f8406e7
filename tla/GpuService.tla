----------------------------- MODULE GpuService -----------------------------
(***************************************************************************)
(* The HTTP transcriber's GPU-serialised streams: _stream_pipeline         *)
(* (/transcribe and its resume), _stream_lyrics_align and _stream_score    *)
(* of transcriber/app/main.py, each an async generator that takes the      *)
(* process-wide asyncio lock, swaps models between CPU and CUDA            *)
(* (pipeline/gpu_park.py) and runs native stages on a worker thread        *)
(* (pipeline/runner.py).                                                   *)
(*                                                                         *)
(* A step of the event loop runs from one await to the next, so the        *)
(* actions below cut the coroutines exactly at their awaits; the worker    *)
(* threads interleave freely with them.  A client that goes away is first  *)
(* disconnected and only later noticed (the response task is cancelled).   *)
(***************************************************************************)
EXTENDS Naturals, Sequences, FiniteSets

CONSTANTS
    Requests,           \* the requests the service receives
    Kind,               \* the endpoint each one is posted to
    TranscribeProgram,  \* the models the transcribe stages use, in order
    Builds,             \* per way to deploy it: the models run by torch
    MaxDisconnects,     \* bound: how many clients may go away
    NoRequest           \* the lock's owner when it is free

Models == {"sw", "drum", "beat", "adtof", "ctc"}
Separators == {"sw", "drum"}
NoModel == "none"

ASSUME KindAssumption == Kind \in [Requests -> {"transcribe", "lyrics", "score"}]
ASSUME ProgramAssumption ==
    /\ TranscribeProgram \in Seq((Models \ {"ctc"}) \cup {NoModel})
    /\ Len(TranscribeProgram) > 0
\* One switch for both separators; Beat This! is never moved as a module.
ASSUME BuildsAssumption ==
    \A B \in Builds : B \subseteq Models \ {"beat"} /\ ("sw" \in B <=> "drum" \in B)
ASSUME MaxDisconnectsAssumption == MaxDisconnects \in Nat
ASSUME NoRequestAssumption == NoRequest \notin Requests

VARIABLES
    pc,            \* where each request's generator is suspended
    connected,     \* the client is still reading
    holder,        \* _gpu_lock: the request inside, or NoRequest
    waiters,       \* _gpu_lock: the FIFO of suspended acquire() calls
    cancel_event,  \* ctx.cancel_event
    thread,        \* the worker thread of asyncio.to_thread
    stage,         \* the stage it runs, an index of Program
    outcome,       \* how the thread's work ended
    queue,         \* envelopes emitted by the thread, not yet pumped
    seen,          \* pipeline_ok / cancelled of the pump
    sent,          \* the envelopes written to the client
    workdir,       \* cleanup_dir exists on disk
    modules,       \* the models this process holds as torch modules
    device,        \* where each model's weights are
    disturbed      \* requests whose running stage had its model moved

lockVars == <<holder, waiters>>
threadVars == <<cancel_event, thread, stage, outcome, queue>>
modelVars == <<modules, device, disturbed>>
vars == <<pc, connected, lockVars, threadVars, seen, sent, workdir, modelVars>>

Serial(r) == Kind[r] # "transcribe"

\* Generator positions.  "closing" is a serial stream whose pump has been
\* cancelled and whose job has not been unwound yet; "stranded" a pipeline
\* stream whose finally raised before it came to the lock.
Critical == {"granted", "pump", "finishing", "closing", "stranded"}
PCs == {"idle", "arrived", "queued", "waiting", "closed"} \cup Critical

(***************************************************************************)
(* Models.  "sw" (BS-Roformer) serves both stems_all and the vocals        *)
(* extraction, "drum" is MDX23C, "beat" Beat This!, "ctc" the lyrics       *)
(* aligners.  A torch module is moved; an ONNX session is not: park drops  *)
(* the reference to it, to be loaded again on its next use, except to a    *)
(* separator's, for which _inner_module has nothing to park.               *)
(***************************************************************************)
Program(r) == CASE Kind[r] = "transcribe" -> TranscribeProgram
                [] Kind[r] = "lyrics"     -> <<"sw", "ctc">>
                [] Kind[r] = "score"      -> <<"sw", "adtof">>

Uses(r) == Program(r)[stage[r]]

park_module(dev, ms) ==
    [m \in Models |-> IF m \in ms \cap modules /\ dev[m] = "cuda" THEN "cpu" ELSE dev[m]]

unpark_module(dev, ms) ==
    [m \in Models |-> IF m \in ms \cap modules /\ dev[m] = "cpu" THEN "cuda" ELSE dev[m]]

\* The references to sessions that park drops.
drop_sessions(dev, ms) ==
    [m \in Models |-> IF m \in ms \ modules THEN "unloaded" ELSE dev[m]]

\* Bug: the vocals separator is parked last, on top of the drum models.
MutParkVocalsLast(dev) == park_module(unpark_module(dev, {"sw", "drum"}), {"sw"})

park_for_transcribe(dev) ==
    LET parked == drop_sessions(park_module(dev, {"sw", "ctc"}), {"ctc"})
    IN  unpark_module(parked, {"sw", "drum", "adtof"})

park_for_lyrics(dev) ==
    LET parked == drop_sessions(park_module(dev, {"sw", "drum", "adtof"}), {"beat", "adtof"})
    IN  unpark_module(parked, {"sw", "ctc"})

\* Bug: nothing is parked between the two lyrics models.
MutNoVocalsPark(dev) == dev

park_vocals_after_extraction(dev) == park_module(dev, {"sw"})

\* The requests whose thread is inside a stage on a module that moves now.
MidForward(ms) ==
    {q \in Requests : /\ thread[q] = "stage" /\ Uses(q) \in ms \cap modules
                      /\ device[Uses(q)] = "cuda"}

ParkForTranscribe ==
    /\ device' = park_for_transcribe(device)
    /\ disturbed' = disturbed \cup MidForward({"sw", "ctc"})
    /\ UNCHANGED modules

ParkForLyrics ==
    /\ device' = park_for_lyrics(device)
    /\ disturbed' = disturbed \cup MidForward({"sw", "drum", "adtof"})
    /\ UNCHANGED modules

(***************************************************************************)
(* The lock: asyncio.Lock.acquire suspends when the lock is held or when   *)
(* another caller is still in line, and release wakes the head of the line.*)
(***************************************************************************)
\* Bug: a stream that finds the lock held enters all the same.
MutLockFree == TRUE

LockFree == holder = NoRequest /\ waiters = <<>>

Release(r) == holder' = IF holder = r THEN NoRequest ELSE holder

\* The line without r, where a cancelled acquire() takes its future out.
Position(r) == CHOOSE i \in 1..Len(waiters) : waiters[i] = r

Without(r) ==
    IF pc[r] = "waiting"
    THEN [i \in 1..Len(waiters) - 1 |-> waiters[IF i < Position(r) THEN i ELSE i + 1]]
    ELSE waiters

\* Bug: the lock is released only by streams that ran to the end.
MutLeave(r) == UNCHANGED holder /\ waiters' = Without(r)

\* A cancelled stream leaves the line, or the lock if it has it.
Leave(r) == Release(r) /\ waiters' = Without(r)

(***************************************************************************)
(* Initial state                                                           *)
(***************************************************************************)
Init ==
    /\ pc = [r \in Requests |-> "idle"]
    /\ connected = [r \in Requests |-> TRUE]
    /\ holder = NoRequest
    /\ waiters = <<>>
    /\ cancel_event = [r \in Requests |-> FALSE]
    /\ thread = [r \in Requests |-> "none"]
    /\ stage = [r \in Requests |-> 1]
    /\ outcome = [r \in Requests |-> "none"]
    /\ queue = [r \in Requests |-> <<>>]
    /\ seen = [r \in Requests |-> "none"]
    /\ sent = [r \in Requests |-> <<>>]
    /\ workdir = [r \in Requests |-> FALSE]
    /\ modules \in Builds
    /\ device = [m \in Models |-> IF m \in Separators THEN "cuda" ELSE "unloaded"]
    /\ disturbed = {}

(***************************************************************************)
(* Entering: the endpoint handler, the contention check and the lock       *)
(***************************************************************************)
Send(r, e) == sent' = [sent EXCEPT ![r] = Append(@, e)]
Goto(r, l) == pc' = [pc EXCEPT ![r] = l]

\* The handler drains the upload into a fresh temp dir and returns the stream.
Arrive(r) ==
    /\ pc[r] = "idle"
    /\ Goto(r, "arrived")
    /\ workdir' = [workdir EXCEPT ![r] = TRUE]
    /\ UNCHANGED <<connected, lockVars, threadVars, seen, sent, modelVars>>

\* An alignment-cache hit answers without the GPU.
CachedAnswer(r) ==
    /\ pc[r] = "arrived" /\ Kind[r] = "lyrics"
    /\ Goto(r, "closed")
    /\ Send(r, "result")
    /\ workdir' = [workdir EXCEPT ![r] = FALSE]
    /\ UNCHANGED <<connected, lockVars, threadVars, seen, modelVars>>

\* What a stream does between owning the lock and its next await: the
\* pipeline stream parks and starts its thread, a serial one says `running`.
Enter(r) ==
    /\ holder' = r
    /\ \/ /\ ~Serial(r)
          /\ ParkForTranscribe
          /\ thread' = [thread EXCEPT ![r] = "ready"]
          /\ Goto(r, "pump")
          /\ UNCHANGED sent
       \/ /\ Serial(r)
          /\ Send(r, "running")
          /\ Goto(r, "granted")
          /\ UNCHANGED <<thread, modelVars>>
    /\ UNCHANGED <<connected, cancel_event, stage, outcome, queue, seen, workdir>>

Wait(r) ==
    /\ Goto(r, "waiting")
    /\ waiters' = Append(waiters, r)
    /\ UNCHANGED <<connected, holder, threadVars, seen, sent, workdir, modelVars>>

\* The lock is held: `queued` is yielded before acquire() is called.
AnnounceQueued(r) ==
    /\ pc[r] = "arrived"
    /\ holder # NoRequest
    /\ Goto(r, "queued")
    /\ Send(r, "queued")
    /\ UNCHANGED <<connected, lockVars, threadVars, seen, workdir, modelVars>>

\* acquire(), reached without `queued` when the lock was not held.
Acquire(r) ==
    /\ \/ pc[r] = "arrived" /\ holder = NoRequest
       \/ pc[r] = "queued"
    /\ \/ LockFree /\ Enter(r) /\ UNCHANGED waiters
       \/ ~LockFree /\ Wait(r)

\* A release woke the head of the line.
Wake(r) ==
    /\ pc[r] = "waiting"
    /\ holder = NoRequest
    /\ waiters # <<>> /\ Head(waiters) = r
    /\ waiters' = Tail(waiters)
    /\ Enter(r)

(***************************************************************************)
(* The worker thread: run_pipeline, the lyrics calls and the scorer        *)
(***************************************************************************)
\* The envelopes run_in_thread emits once the pipeline has returned.
Report(res) == CASE res = "ok"        -> <<"_done", "end">>
                 [] res = "cancelled" -> <<"_cancelled", "end">>
                 [] res = "error"     -> <<"error", "end">>

Emit(r, es) == queue' = [queue EXCEPT ![r] = IF Serial(r) THEN @ ELSE @ \o es]

ThreadEnd(r, res) ==
    /\ thread' = [thread EXCEPT ![r] = "ended"]
    /\ outcome' = [outcome EXCEPT ![r] = res]
    /\ Emit(r, Report(res))

CancelSeen(r) == ~Serial(r) /\ cancel_event[r]

\* The check between two stages stops the pipeline.
StageSkip(r) ==
    /\ thread[r] = "ready" /\ CancelSeen(r)
    /\ ThreadEnd(r, "cancelled")
    /\ UNCHANGED <<pc, connected, lockVars, cancel_event, stage, seen, sent, workdir, modelVars>>

\* The stage begins (its progress events are the one "stage" here); a model used for the first time is loaded onto CUDA.
StageStart(r) ==
    /\ thread[r] = "ready" /\ ~CancelSeen(r)
    /\ thread' = [thread EXCEPT ![r] = "stage"]
    /\ Emit(r, <<"stage">>)
    /\ device' = [m \in Models |-> IF m = Uses(r) /\ device[m] = "unloaded"
                                   THEN "cuda" ELSE device[m]]
    /\ UNCHANGED <<pc, connected, lockVars, cancel_event, stage, outcome, seen, sent,
                   workdir, modules, disturbed>>

\* A stage still writing its stems makes the parent directory if it is gone.
StageWrites(r) == \/ UNCHANGED workdir
                  \/ /\ Uses(r) \in Separators
                     /\ workdir' = [workdir EXCEPT ![r] = TRUE]

StageOk(r) ==
    /\ thread[r] = "stage"
    /\ StageWrites(r)
    /\ IF stage[r] < Len(Program(r)) /\ Kind[r] # "lyrics"
       THEN /\ thread' = [thread EXCEPT ![r] = "ready"]
            /\ stage' = [stage EXCEPT ![r] = @ + 1]
            /\ UNCHANGED <<outcome, queue>>
       ELSE /\ ThreadEnd(r, "ok")
            /\ UNCHANGED stage
    /\ UNCHANGED <<pc, connected, lockVars, cancel_event, seen, sent, modelVars>>

\* The stage raises, or its LLM pool saw the cancel event.
StageFail(r) ==
    /\ thread[r] = "stage"
    /\ StageWrites(r)
    /\ \E res \in {"error", "cancelled"} :
          /\ res = "cancelled" => ~Serial(r) /\ cancel_event[r] /\ Uses(r) = NoModel
          /\ ThreadEnd(r, res)
    /\ UNCHANGED <<pc, connected, lockVars, cancel_event, stage, seen, sent, modelVars>>

(***************************************************************************)
(* The pipeline stream                                                     *)
(***************************************************************************)
\* Bug: the finally frees the lock and forgets the work dir.
MutCloseStream(r) == Goto(r, "closed") /\ Release(r) /\ UNCHANGED <<waiters, workdir>>

\* The generator's finally: watcher cancelled, work dir removed, lock freed.
CloseStream(r) ==
    /\ Goto(r, "closed")
    /\ workdir' = [workdir EXCEPT ![r] = FALSE]
    /\ Release(r)
    /\ UNCHANGED waiters

\* Bug: the pipeline's sentinels are forwarded like any other envelope.
MutForwarded == {"stage", "error", "_done", "_cancelled"}

\* Bug: a stage error is consumed like a sentinel.
MutErrorSwallowed == {"stage"}

Forwarded == {"stage", "error"}

\* One envelope is taken off the queue; sentinels stay inside.
Pump(r) ==
    /\ pc[r] = "pump" /\ queue[r] # <<>> /\ Head(queue[r]) # "end"
    /\ queue' = [queue EXCEPT ![r] = Tail(@)]
    /\ LET e == Head(queue[r])
       IN  /\ sent' = IF e \in Forwarded
                      THEN [sent EXCEPT ![r] = Append(@, e)] ELSE sent
           /\ seen' = [seen EXCEPT ![r] = CASE e = "_done"      -> "ok"
                                            [] e = "_cancelled" -> "cancelled"
                                            [] OTHER            -> @]
    /\ UNCHANGED <<pc, connected, lockVars, cancel_event, thread, stage, outcome,
                   workdir, modelVars>>

\* The stream ends: after a clean run post_run and the response assembly add
\* the result, or the error they raise; then the finally, with no await in
\* which a cancellation could land.
PumpEnd(r) ==
    /\ pc[r] = "pump" /\ queue[r] # <<>> /\ Head(queue[r]) = "end"
    /\ queue' = [queue EXCEPT ![r] = Tail(@)]
    /\ IF seen[r] = "ok" THEN \E e \in {"result", "error"} : Send(r, e)
                         ELSE UNCHANGED sent
    /\ CloseStream(r)
    /\ UNCHANGED <<connected, cancel_event, thread, stage, outcome, seen, modelVars>>

(***************************************************************************)
(* The serial streams: _serialized_gpu_stream around a job                 *)
(***************************************************************************)
\* The job parks for its kind and hands its first call to a thread; lyrics skip
\* the extraction when the vocals stem was supplied or cached, and a score the
\* separation of a pack that has a drums-only track.
JobStart(r) ==
    /\ pc[r] = "granted"
    /\ Goto(r, "pump")
    /\ thread' = [thread EXCEPT ![r] = "ready"]
    /\ \/ /\ Kind[r] = "score"
          /\ ParkForTranscribe
          /\ \/ UNCHANGED stage
             \/ stage' = [stage EXCEPT ![r] = 2]
       \/ /\ Kind[r] = "lyrics"
          /\ ParkForLyrics
          /\ UNCHANGED stage
       \/ /\ Kind[r] = "lyrics"
          /\ device' = park_vocals_after_extraction(park_for_lyrics(device))
          /\ disturbed' = disturbed \cup MidForward({"sw", "drum", "adtof"})
          /\ stage' = [stage EXCEPT ![r] = 2]
          /\ UNCHANGED modules
    /\ UNCHANGED <<connected, lockVars, cancel_event, outcome, queue, seen, sent, workdir>>

\* Vocals extracted (and cached): park the separator, start the aligner.
JobAlign(r) ==
    /\ pc[r] = "pump" /\ Kind[r] = "lyrics"
    /\ thread[r] = "ended" /\ outcome[r] = "ok" /\ stage[r] = 1
    /\ device' = park_vocals_after_extraction(device)
    /\ disturbed' = disturbed \cup MidForward({"sw"})
    /\ stage' = [stage EXCEPT ![r] = 2]
    /\ thread' = [thread EXCEPT ![r] = "ready"]
    /\ outcome' = [outcome EXCEPT ![r] = "none"]
    /\ UNCHANGED <<pc, connected, lockVars, cancel_event, queue, seen, sent, workdir, modules>>

\* The last call returned or one raised: the job yields its one envelope.
JobAnswer(r) ==
    /\ pc[r] = "pump" /\ Serial(r) /\ thread[r] = "ended"
    /\ \/ outcome[r] = "ok" /\ stage[r] = Len(Program(r)) /\ Send(r, "result")
       \/ outcome[r] = "error" /\ Send(r, "error")
    /\ Goto(r, "finishing")
    /\ UNCHANGED <<connected, lockVars, threadVars, seen, workdir, modelVars>>

\* The job's generators end: lock released, then the work dir removed.
JobClose(r) ==
    /\ pc[r] = "finishing"
    /\ CloseStream(r)
    /\ UNCHANGED <<connected, threadVars, seen, sent, modelVars>>

(***************************************************************************)
(* Clients going away                                                      *)
(***************************************************************************)
Disconnect(r) ==
    /\ connected[r] /\ pc[r] \notin {"idle", "closed"}
    /\ Cardinality({q \in Requests : ~connected[q]}) < MaxDisconnects
    /\ connected' = [connected EXCEPT ![r] = FALSE]
    /\ UNCHANGED <<pc, lockVars, threadVars, seen, sent, workdir, modelVars>>

\* The half-second poller of the pipeline stream.
WatchDisconnect(r) ==
    /\ pc[r] = "pump" /\ ~Serial(r)
    /\ ~connected[r] /\ ~cancel_event[r]
    /\ cancel_event' = [cancel_event EXCEPT ![r] = TRUE]
    /\ UNCHANGED <<pc, connected, lockVars, thread, stage, outcome, queue, seen, sent,
                   workdir, modelVars>>

\* The pipeline stream is cancelled at the await of its pump.
CancelPipeline(r) ==
    /\ pc[r] = "pump" /\ ~Serial(r) /\ ~connected[r]
    /\ cancel_event' = [cancel_event EXCEPT ![r] = TRUE]
    /\ CloseStream(r)
    /\ UNCHANGED <<connected, thread, stage, outcome, queue, seen, sent, modelVars>>

\* ... or abandoned at its yield, the chunk not yet written (a heartbeat makes
\* every moment of the pump one): GeneratorExit is no CancelledError, so the
\* pipeline is not told.  Closed in the task it ran in, its finally runs through.
ExitPipeline(r) ==
    /\ pc[r] = "pump" /\ ~Serial(r) /\ ~connected[r]
    /\ CloseStream(r)
    /\ UNCHANGED <<connected, threadVars, seen, sent, modelVars>>

\* Left to the event loop's finaliser it is closed in a context of its own, in
\* which reset_current_debug_sink refuses the token: the finally raises there,
\* before the work dir and the lock.
StrandPipeline(r) ==
    /\ pc[r] = "pump" /\ ~Serial(r) /\ ~connected[r]
    /\ Goto(r, "stranded")
    /\ UNCHANGED <<connected, lockVars, threadVars, seen, sent, workdir, modelVars>>

\* ... or it goes while it is in line for the lock, before its try/finally.
CancelQueuedPipeline(r) ==
    /\ pc[r] \in {"queued", "waiting"} /\ ~Serial(r) /\ ~connected[r]
    /\ Goto(r, "closed")
    /\ Leave(r)
    /\ UNCHANGED <<connected, threadVars, seen, sent, workdir, modelVars>>

\* A serial stream is cancelled at the pump: its finally removes the work dir
\* at once, and the job behind it is cancelled.
CancelSerial(r) ==
    /\ Serial(r) /\ ~connected[r]
    /\ pc[r] \in {"queued", "waiting", "granted", "pump", "finishing"}
    /\ Goto(r, IF holder = r THEN "closing" ELSE "closed")
    /\ workdir' = [workdir EXCEPT ![r] = FALSE]
    /\ waiters' = Without(r)
    /\ UNCHANGED <<connected, holder, threadVars, seen, sent, modelVars>>

\* ... whose finally then releases the lock, the thread still running.
UnwindSerial(r) ==
    /\ pc[r] = "closing"
    /\ Goto(r, "closed")
    /\ Leave(r)
    /\ UNCHANGED <<connected, threadVars, seen, sent, workdir, modelVars>>

(***************************************************************************)
(* Specification                                                           *)
(***************************************************************************)
LoopStep(r) ==
    \/ AnnounceQueued(r) \/ Acquire(r) \/ Wake(r)
    \/ Pump(r) \/ PumpEnd(r)
    \/ JobStart(r) \/ JobAlign(r) \/ JobAnswer(r) \/ JobClose(r)
    \/ UnwindSerial(r)

ThreadStep(r) == StageSkip(r) \/ StageStart(r) \/ StageOk(r) \/ StageFail(r)

CancelStep(r) == \/ CancelPipeline(r) \/ ExitPipeline(r) \/ StrandPipeline(r)
                 \/ CancelQueuedPipeline(r) \/ CancelSerial(r)

Next == \E r \in Requests :
    \/ Arrive(r) \/ CachedAnswer(r) \/ Disconnect(r) \/ WatchDisconnect(r)
    \/ LoopStep(r) \/ ThreadStep(r) \/ CancelStep(r)

\* The loop runs every ready task and native stages return; clients owe nothing.
Fairness == \A r \in Requests : /\ WF_vars(LoopStep(r))
                                /\ WF_vars(ThreadStep(r))
                                /\ WF_vars(CancelStep(r))

Spec == Init /\ [][Next]_vars /\ Fairness

(***************************************************************************)
(* Properties                                                              *)
(***************************************************************************)
Envelopes == {"queued", "running", "stage", "result", "error"}
QueueItems == {"stage", "error", "_done", "_cancelled", "end"}
Terminal == {"result", "error"}
Attached(r) == pc[r] \in Critical /\ holder = r
Detached(r) == thread[r] \in {"ready", "stage"} /\ ~Attached(r)

\* The state has the shapes the code gives it.
TypeOK ==
    /\ pc \in [Requests -> PCs]
    /\ connected \in [Requests -> BOOLEAN]
    /\ holder \in Requests \cup {NoRequest}
    /\ waiters \in Seq(Requests)
    /\ cancel_event \in [Requests -> BOOLEAN]
    /\ thread \in [Requests -> {"none", "ready", "stage", "ended"}]
    /\ stage \in [Requests -> Nat \ {0}]
    /\ outcome \in [Requests -> {"none", "ok", "error", "cancelled"}]
    /\ queue \in [Requests -> Seq(QueueItems)]
    /\ seen \in [Requests -> {"none", "ok", "cancelled"}]
    /\ sent \in [Requests -> Seq(Envelopes)]
    /\ workdir \in [Requests -> BOOLEAN]
    /\ device \in [Models -> {"unloaded", "cuda", "cpu"}]
    /\ modules \in Builds
    /\ disturbed \in SUBSET Requests

\* _gpu_lock: exactly the stream inside a critical section owns the lock, so no
\* two streams are inside at once, on every path in and out of it.
MutualExclusion == \A r \in Requests : pc[r] \in Critical <=> holder = r

\* A model never moves under a thread whose stream still holds the lock: of
\* the threads park_for_* may catch mid-forward none belongs to a live stream.
AttachedUndisturbed == \A r \in Requests : Attached(r) => r \notin disturbed

\* A live stream's stage finds its model on CUDA, whichever request ran before.
ResidentWhenUsed ==
    \A r \in Requests : Attached(r) /\ thread[r] = "stage" /\ Uses(r) # NoModel
                        => device[Uses(r)] = "cuda"

\* The aligner runs, and no abandoned thread is about to load a model.
AlignerRuns == /\ \E r \in Requests : Attached(r) /\ thread[r] = "stage" /\ Uses(r) = "ctc"
               /\ \A q \in Requests : pc[q] = "closed" => connected[q]

\* Then nothing else is on the GPU but the sessions of an ONNX build's
\* separators, which _inner_module leaves there.
AlignerHasGpu ==
    AlignerRuns => \A m \in Models \ {"ctc"} :
                      device[m] = "cuda" => m \in Separators \ modules

\* A client that stays gets one terminal envelope, and nothing after it.
OneTerminalLast ==
    \A r \in Requests :
        /\ \A i \in 1..Len(sent[r]) : sent[r][i] \in Terminal => i = Len(sent[r])
        /\ pc[r] = "closed" /\ connected[r] =>
              sent[r] # <<>> /\ sent[r][Len(sent[r])] \in Terminal

\* The docstring of _stream_pipeline: a pipeline whose client went away while
\* it ran finishes its stage and skips everything after it.
AbandonedStops ==
    [][\A r \in Requests :
          ~Serial(r) /\ pc[r] \in {"closed", "stranded"} /\ thread[r] = "ready"
          => thread'[r] # "stage"]_vars

\* A closed stream leaves no work dir, when its client stayed to the end.
WorkDirRemoved == \A r \in Requests : pc[r] = "closed" /\ connected[r] => ~workdir[r]

\* The docstring of _stream_pipeline promises that the work dir is removed in
\* its finally; a request cancelled while it waits for the lock had one too.
QueuedCancelCleansUp ==
    \A r \in Requests : pc[r] = "closed" /\ thread[r] = "none" => ~workdir[r]

\* What a stream's position is to its client, and who has had an answer.
PhaseAt(l) == CASE l = "idle"     -> "absent"
                [] l \in {"arrived", "queued", "waiting"} -> "pending"
                [] l = "stranded" -> "lost"
                [] l = "closed"   -> "gone"
                [] OTHER          -> "served"

Answerers == {r \in Requests : \E i \in 1..Len(sent[r]) : sent[r][i] \in Terminal}

Service == INSTANCE SerialService WITH
    Clients <- Requests,
    Nobody <- NoRequest,
    owner <- holder,
    phase <- [r \in Requests |-> PhaseAt(pc[r])],
    answered <- Answerers

\* The streams implement the serial service: one client is served at a time,
\* and each gets at most one answer, while it is served or from the cache.
ImplementsService == Service!ServiceSpec

Stranded == \E q \in Requests : pc[q] = "stranded"

\* Every stream that begins ends, on every path but the stranding of one: no
\* lost wakeup, no lock left behind.
EveryStreamCloses == \A r \in Requests : (pc[r] = "arrived") ~> (pc[r] = "closed" \/ Stranded)
=============================================================================
