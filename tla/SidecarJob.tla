----------------------------- MODULE SidecarJob -----------------------------
(***************************************************************************)
(* A backend job of the desktop app: the webview's SidecarBackendClient.run *)
(* (frontend/src/net/sidecar_backend.ts), the Rust broker that spawns one   *)
(* Python process per job (src-tauri/src/sidecar.rs, run_job and            *)
(* cancel_job), and that process (transcriber/app/comms/stdio_adapter.py    *)
(* around the live runner of transcribe_runner.py).                         *)
(*                                                                          *)
(* The three run concurrently: the client and the broker talk over Tauri's  *)
(* invoke and Channel, the broker and the sidecar over two OS pipes.  The   *)
(* sidecar may crash at any point, and the user may abort at any point.     *)
(***************************************************************************)
EXTENDS Naturals, Sequences

CONSTANTS
    Jobs,          \* request ids
    PipeCapacity   \* frames the sidecar's stdout pipe holds

ASSUME PipeAssumption == PipeCapacity \in Nat \ {0}

VARIABLES
    client,       \* where SidecarBackendClient.run is, or how it ended
    aborted,      \* opts.signal.aborted
    temp,         \* the staged temp input
    cancel_call,  \* the cancelJob invoke of onAbort
    got,          \* terminal frames the onEvent callback has recorded
    broker,       \* where run_job is, or what it returned
    verdict,      \* the outcome of its select loop
    jobs,         \* SidecarState.jobs: ids whose cancel channel is registered
    fired,        \* ids whose cancel channel has been sent to
    child,        \* the sidecar process
    stdin,        \* what the broker has put in its stdin, unread
    stdout,       \* frames in its stdout pipe
    token,        \* the job's CancelToken
    scratch       \* the pipeline's scratch work_dir is on disk

clientVars == <<client, aborted, temp, got>>
brokerVars == <<broker, verdict, jobs, fired>>
childVars == <<child, token, scratch>>
pipeVars == <<stdin, stdout>>
vars == <<clientVars, cancel_call, brokerVars, childVars, pipeVars>>

Settled == {"resolved", "failed", "aborted"}
Returned == {"ok", "err"}
Terminal == {"result", "error"}
Dead == {"exited", "killed", "crashed"}

\* child = "result" or "error": the job is over and that frame is to be written.
Busy == {"working", "collecting"} \cup Terminal
Alive == {"starting", "idle", "blocked"} \cup Busy

TypeOK ==
    /\ client \in [Jobs -> {"idle", "staging", "running"} \cup Settled]
    /\ aborted \in [Jobs -> BOOLEAN]
    /\ temp \in [Jobs -> {"none", "staged", "removed"}]
    /\ cancel_call \in [Jobs -> {"none", "pending", "done"}]
    /\ got \in [Jobs -> SUBSET Terminal]
    /\ broker \in [Jobs -> {"none", "invoked", "spawned", "writing", "reading",
                             "killing", "closing", "reaping"} \cup Returned]
    /\ verdict \in [Jobs -> Returned]
    /\ jobs \subseteq Jobs
    /\ fired \subseteq Jobs
    /\ child \in [Jobs -> {"none"} \cup Alive \cup Dead]
    /\ stdin \in [Jobs -> SUBSET {"request", "cancel", "eof"}]
    /\ stdout \in [Jobs -> Seq({"progress", "huge"} \cup Terminal)]
    /\ token \in [Jobs -> BOOLEAN]
    /\ scratch \in [Jobs -> BOOLEAN]

Init ==
    /\ client = [j \in Jobs |-> "idle"]
    /\ aborted = [j \in Jobs |-> FALSE]
    /\ temp = [j \in Jobs |-> "none"]
    /\ cancel_call = [j \in Jobs |-> "none"]
    /\ got = [j \in Jobs |-> {}]
    /\ broker = [j \in Jobs |-> "none"]
    /\ verdict = [j \in Jobs |-> "ok"]
    /\ jobs = {}
    /\ fired = {}
    /\ child = [j \in Jobs |-> "none"]
    /\ stdin = [j \in Jobs |-> {}]
    /\ stdout = [j \in Jobs |-> <<>>]
    /\ token = [j \in Jobs |-> FALSE]
    /\ scratch = [j \in Jobs |-> FALSE]

(***************************************************************************)
(* The client.  A blob input is staged to a temp file first; the abort     *)
(* listener exists only from dispatch to settlement, and the aborted flag  *)
(* is read before staging, before dispatch and after runJob resolves.      *)
(***************************************************************************)
SettleAs(j, how) == client' = [client EXCEPT ![j] = how]

Dispatch(j) ==
    /\ client' = [client EXCEPT ![j] = "running"]
    /\ broker' = [broker EXCEPT ![j] = "invoked"]

RunAborted(j) ==
    /\ client[j] = "idle" /\ aborted[j]
    /\ SettleAs(j, "aborted")
    /\ UNCHANGED <<aborted, temp, got, cancel_call, brokerVars, childVars, pipeVars>>

RunBlob(j) ==
    /\ client[j] = "idle" /\ ~aborted[j]
    /\ client' = [client EXCEPT ![j] = "staging"]
    /\ UNCHANGED <<aborted, temp, got, cancel_call, brokerVars, childVars, pipeVars>>

RunPath(j) ==
    /\ client[j] = "idle" /\ ~aborted[j]
    /\ Dispatch(j)
    /\ UNCHANGED <<aborted, temp, got, cancel_call, verdict, jobs, fired, childVars, pipeVars>>

StageFails(j) ==
    /\ client[j] = "staging"
    /\ SettleAs(j, "failed")
    /\ UNCHANGED <<aborted, temp, got, cancel_call, brokerVars, childVars, pipeVars>>

Staged(j) ==
    /\ client[j] = "staging" /\ ~aborted[j]
    /\ Dispatch(j)
    /\ temp' = [temp EXCEPT ![j] = "staged"]
    /\ UNCHANGED <<aborted, got, cancel_call, verdict, jobs, fired, childVars, pipeVars>>

\* The abort came while staging: the listener never saw it, so nothing runs.
StagedAborted(j) ==
    /\ client[j] = "staging" /\ aborted[j]
    /\ SettleAs(j, "aborted")
    /\ temp' = [temp EXCEPT ![j] = "removed"]
    /\ UNCHANGED <<aborted, got, cancel_call, brokerVars, childVars, pipeVars>>

Abort(j) ==
    /\ client[j] \notin Settled /\ ~aborted[j]
    /\ aborted' = [aborted EXCEPT ![j] = TRUE]
    /\ cancel_call' = [cancel_call EXCEPT ![j] =
                         IF client[j] = "running" THEN "pending" ELSE @]
    /\ UNCHANGED <<client, temp, got, brokerVars, childVars, pipeVars>>

\* Bug: whatever the broker returned is handed on.
MutRawOutcome(j) == broker[j]

\* Bug: the signal is not looked at again after the job.
MutOutcome(j) ==
    CASE broker[j] = "err" -> "failed"
      [] "error" \in got[j] -> "failed"
      [] OTHER -> "resolved"

\* A rejected invoke throws out of the await, before the signal is looked at.
Outcome(j) ==
    CASE broker[j] = "err" -> "failed"
      [] broker[j] = "ok" /\ aborted[j] -> "aborted"
      [] broker[j] = "ok" /\ ~aborted[j] /\ "error" \in got[j] -> "failed"
      [] broker[j] = "ok" /\ ~aborted[j] /\ "error" \notin got[j] -> "resolved"

Settle(j) ==
    /\ client[j] = "running" /\ broker[j] \in Returned
    /\ SettleAs(j, Outcome(j))
    /\ temp' = [temp EXCEPT ![j] = IF @ = "staged" THEN "removed" ELSE @]
    /\ UNCHANGED <<aborted, got, cancel_call, brokerVars, childVars, pipeVars>>

(***************************************************************************)
(* The broker.  Every await of run_job is a point where cancel_job or the  *)
(* sidecar may get in between.                                             *)
(***************************************************************************)
BrokerAt(j, here, there) == broker[j] = here /\ broker' = [broker EXCEPT ![j] = there]

Spawn(j) ==
    /\ BrokerAt(j, "invoked", "spawned")
    /\ child' = [child EXCEPT ![j] = "starting"]
    /\ UNCHANGED <<clientVars, cancel_call, verdict, jobs, fired, token, scratch, pipeVars>>

SpawnFails(j) ==
    /\ BrokerAt(j, "invoked", "err")
    /\ UNCHANGED <<clientVars, cancel_call, verdict, jobs, fired, childVars, pipeVars>>

\* Bug: the cancel channel is not registered before the request is written.
MutRegister(j) ==
    /\ BrokerAt(j, "spawned", "writing")
    /\ UNCHANGED <<clientVars, cancel_call, verdict, jobs, fired, childVars, pipeVars>>

Register(j) ==
    /\ BrokerAt(j, "spawned", "writing")
    /\ jobs' = jobs \cup {j}
    /\ UNCHANGED <<clientVars, cancel_call, verdict, fired, childVars, pipeVars>>

WriteRequest(j) ==
    /\ BrokerAt(j, "writing", "reading")
    /\ stdin' = [stdin EXCEPT ![j] = @ \cup {"request"}]
    /\ UNCHANGED <<clientVars, cancel_call, verdict, jobs, fired, childVars, stdout>>

\* Bug: a failed write returns at once.
MutWriteFails(j) ==
    /\ child[j] \in Dead
    /\ BrokerAt(j, "writing", "err")
    /\ UNCHANGED <<clientVars, cancel_call, verdict, jobs, fired, childVars, pipeVars>>

WriteFails(j) ==
    /\ child[j] \in Dead
    /\ BrokerAt(j, "writing", "err")
    /\ jobs' = jobs \ {j}
    /\ UNCHANGED <<clientVars, cancel_call, verdict, fired, childVars, pipeVars>>

LoopEnds(j, how) ==
    /\ BrokerAt(j, "reading", "closing")
    /\ verdict' = [verdict EXCEPT ![j] = how]

\* A frame goes up the channel; the terminal one ends the loop.
Forward(j) ==
    /\ broker[j] = "reading"
    /\ stdout[j] # <<>> /\ Head(stdout[j]) # "huge"
    /\ stdout' = [stdout EXCEPT ![j] = Tail(@)]
    /\ IF Head(stdout[j]) \in Terminal
       THEN /\ got' = [got EXCEPT ![j] = @ \cup {Head(stdout[j])}]
            /\ LoopEnds(j, "ok")
       ELSE UNCHANGED <<got, broker, verdict>>
    /\ UNCHANGED <<client, aborted, temp, cancel_call, jobs, fired, childVars, stdin>>

SendFails(j) ==
    /\ stdout[j] # <<>> /\ Head(stdout[j]) # "huge"
    /\ stdout' = [stdout EXCEPT ![j] = Tail(@)]
    /\ LoopEnds(j, "err")
    /\ UNCHANGED <<clientVars, cancel_call, jobs, fired, childVars, stdin>>

\* A frame over MAX_FRAME_BYTES.
ReadFails(j) ==
    /\ stdout[j] # <<>> /\ Head(stdout[j]) = "huge"
    /\ LoopEnds(j, "err")
    /\ UNCHANGED <<clientVars, cancel_call, jobs, fired, childVars, pipeVars>>

ReadEof(j) ==
    /\ stdout[j] = <<>> /\ child[j] \in Dead
    /\ LoopEnds(j, "ok")
    /\ UNCHANGED <<clientVars, cancel_call, jobs, fired, childVars, pipeVars>>

\* select! takes either ready branch, so a fired cancel may still lose to a frame.
TakeCancel(j) ==
    /\ j \in fired
    /\ BrokerAt(j, "reading", "killing")
    /\ stdin' = [stdin EXCEPT ![j] = @ \cup {"cancel"}]
    /\ UNCHANGED <<clientVars, cancel_call, verdict, jobs, fired, childVars, stdout>>

Kill(j) ==
    /\ BrokerAt(j, "killing", "closing")
    /\ verdict' = [verdict EXCEPT ![j] = "ok"]
    /\ child' = [child EXCEPT ![j] = IF @ \in Dead THEN @ ELSE "killed"]
    /\ UNCHANGED <<clientVars, cancel_call, jobs, fired, token, scratch, pipeVars>>

\* Bug: stdin stays open while the broker waits for the process.
MutCloseStdin(j) ==
    /\ BrokerAt(j, "closing", "reaping")
    /\ jobs' = jobs \ {j}
    /\ UNCHANGED <<clientVars, cancel_call, verdict, fired, childVars, pipeVars>>

CloseStdin(j) ==
    /\ BrokerAt(j, "closing", "reaping")
    /\ jobs' = jobs \ {j}
    /\ stdin' = [stdin EXCEPT ![j] = @ \cup {"eof"}]
    /\ UNCHANGED <<clientVars, cancel_call, verdict, fired, childVars, stdout>>

\* Bug: run_job returns without waiting for the process.
MutReap(j) ==
    /\ BrokerAt(j, "reaping", verdict[j])
    /\ UNCHANGED <<clientVars, cancel_call, verdict, jobs, fired, childVars, pipeVars>>

Reap(j) ==
    /\ child[j] \in Dead
    /\ BrokerAt(j, "reaping", verdict[j])
    /\ UNCHANGED <<clientVars, cancel_call, verdict, jobs, fired, childVars, pipeVars>>

\* cancel_job removes the entry, then sends; with no entry it does nothing.
CancelJob(j) ==
    /\ cancel_call[j] = "pending"
    /\ cancel_call' = [cancel_call EXCEPT ![j] = "done"]
    /\ jobs' = jobs \ {j}
    /\ fired' = fired \cup (jobs \cap {j})
    /\ UNCHANGED <<clientVars, broker, verdict, childVars, pipeVars>>

(***************************************************************************)
(* The sidecar.  One job per process: the pipeline runs on a worker        *)
(* thread, the stdin loop beside it, and the process ends when stdin is at *)
(* EOF and the job's terminal frame is out.                                *)
(***************************************************************************)
ChildAt(j, here, there) == child[j] = here /\ child' = [child EXCEPT ![j] = there]

RoomIn(j) == Len(stdout[j]) < PipeCapacity

Put(j, frame) == stdout' = [stdout EXCEPT ![j] = Append(@, frame)]

ReadRequest(j) ==
    /\ "request" \in stdin[j]
    /\ ChildAt(j, "starting", "working")
    /\ stdin' = [stdin EXCEPT ![j] = @ \ {"request"}]
    /\ scratch' = [scratch EXCEPT ![j] = TRUE]
    /\ UNCHANGED <<clientVars, cancel_call, brokerVars, token, stdout>>

\* The token is gone once the terminal frame is out.
ReadCancel(j) ==
    /\ "cancel" \in stdin[j] /\ child[j] \in Busy \cup {"idle", "blocked"}
    /\ stdin' = [stdin EXCEPT ![j] = @ \ {"cancel"}]
    /\ token' = [token EXCEPT ![j] = child[j] # "idle"]
    /\ UNCHANGED <<clientVars, cancel_call, brokerVars, child, scratch, stdout>>

Progress(j) ==
    /\ child[j] \in {"working", "collecting"} /\ RoomIn(j)
    /\ Put(j, "progress")
    /\ UNCHANGED <<clientVars, cancel_call, brokerVars, childVars, stdin>>

\* A frame too large for the pipe: its write never completes.
WriteHuge(j) ==
    /\ RoomIn(j)
    /\ ChildAt(j, "working", "blocked")
    /\ Put(j, "huge")
    /\ UNCHANGED <<clientVars, cancel_call, brokerVars, token, scratch, stdin>>

PipelineReturns(j) ==
    /\ ChildAt(j, "working", IF token[j] THEN "error" ELSE "collecting")
    /\ UNCHANGED <<clientVars, cancel_call, brokerVars, token, scratch, pipeVars>>

\* A stage failed, or saw cancel_event between two stages.
PipelineRaises(j) ==
    /\ ChildAt(j, "working", "error")
    /\ scratch' = [scratch EXCEPT ![j] = FALSE]
    /\ UNCHANGED <<clientVars, cancel_call, brokerVars, token, pipeVars>>

\* Bug: the work dir is removed only when every output was copied.
MutCollect(j) ==
    \E reply \in Terminal :
        /\ ChildAt(j, "collecting", reply)
        /\ scratch' = [scratch EXCEPT ![j] = @ /\ reply = "error"]
        /\ UNCHANGED <<clientVars, cancel_call, brokerVars, token, pipeVars>>

Collect(j) ==
    \E reply \in Terminal :
        /\ ChildAt(j, "collecting", reply)
        /\ scratch' = [scratch EXCEPT ![j] = FALSE]
        /\ UNCHANGED <<clientVars, cancel_call, brokerVars, token, pipeVars>>

Reply(j) ==
    /\ child[j] \in Terminal /\ RoomIn(j)
    /\ Put(j, child[j])
    /\ child' = [child EXCEPT ![j] = "idle"]
    /\ UNCHANGED <<clientVars, cancel_call, brokerVars, token, scratch, stdin>>

Quit(j) ==
    /\ "eof" \in stdin[j]
    /\ ChildAt(j, "idle", "exited")
    /\ UNCHANGED <<clientVars, cancel_call, brokerVars, token, scratch, pipeVars>>

\* Killed by the OS, or a native library aborts.
Crash(j) ==
    /\ child[j] \in Alive
    /\ child' = [child EXCEPT ![j] = "crashed"]
    /\ UNCHANGED <<clientVars, cancel_call, brokerVars, token, scratch, pipeVars>>

ClientStep(j) ==
    RunAborted(j) \/ RunBlob(j) \/ RunPath(j) \/ StageFails(j) \/ Staged(j)
        \/ StagedAborted(j) \/ Abort(j) \/ Settle(j)

BrokerStep(j) ==
    \/ Spawn(j) \/ SpawnFails(j) \/ Register(j) \/ WriteRequest(j) \/ WriteFails(j)
    \/ Forward(j) \/ SendFails(j) \/ ReadFails(j) \/ ReadEof(j)
    \/ TakeCancel(j) \/ Kill(j) \/ CloseStdin(j) \/ Reap(j)

ChildStep(j) ==
    \/ ReadRequest(j) \/ PipelineReturns(j) \/ PipelineRaises(j)
    \/ Collect(j) \/ Reply(j) \/ Quit(j)

Next == \E j \in Jobs :
    \/ ClientStep(j) \/ BrokerStep(j) \/ CancelJob(j) \/ ChildStep(j)
    \/ ReadCancel(j) \/ Progress(j) \/ WriteHuge(j) \/ Crash(j)

(***************************************************************************)
(* Fairness: the webview's and tokio's runtimes run every ready            *)
(* continuation, the OS schedules the sidecar and its pipeline ends.  The  *)
(* user's abort, a crash and a send failure may never happen.              *)
(***************************************************************************)
ClientProgress(j) == StageFails(j) \/ Staged(j) \/ StagedAborted(j) \/ Settle(j)

Spec ==
    /\ Init /\ [][Next]_vars
    /\ \A j \in Jobs :
        WF_vars(ClientProgress(j)) /\ WF_vars(BrokerStep(j))
            /\ WF_vars(CancelJob(j)) /\ WF_vars(ChildStep(j))

(***************************************************************************)
(* Properties                                                              *)
(***************************************************************************)
\* A registered cancel channel always belongs to a run_job whose loop is still
\* to be left: no return path of run_job leaves an entry that a later
\* cancel_job would match.
NoDeadEntry == \A j \in jobs : broker[j] \in {"writing", "reading", "killing", "closing"}

\* The staged input outlives the process that reads it (run removes it only
\* after run_job has reaped the child) and never outlives the run.
InputOutlivesJob == \A j \in Jobs :
    /\ child[j] \in Alive => client[j] = "running" /\ temp[j] # "removed"
    /\ client[j] \in Settled => temp[j] # "staged"

\* run resolves only with the sidecar's result, or because the sidecar died
\* without a terminal frame; once its signal is aborted it never resolves.
SuccessIsReal == \A j \in Jobs :
    client[j] = "resolved" =>
        /\ ~aborted[j]
        /\ "result" \in got[j] \/ child[j] = "crashed"

\* A sidecar that ends on its own leaves no scratch dir behind: only a kill
\* or a crash can, which is what the sweep at the next start is for.
CleanExitLeavesNoScratch == \A j \in Jobs : child[j] = "exited" => ~scratch[j]

\* A cancel_job that arrives while the request is being written, or while
\* frames are read, reaches the select loop: it is never dropped.
CancelReachesLoop ==
    [][\A j \in Jobs :
        cancel_call[j] = "pending" /\ cancel_call'[j] = "done"
            /\ broker[j] \in {"writing", "reading"} => j \in fired']_vars

\* The sidecar is stuck on a stdout pipe that the broker no longer reads.
Stuck(j) ==
    broker[j] = "reaping" /\ (child[j] = "blocked" \/ (child[j] \in Busy /\ ~RoomIn(j)))

\* Every run settles, whatever the user, the broker and the sidecar do, unless
\* the broker stopped reading before the job ended and the pipe filled up.
EveryRunSettles == \A j \in Jobs :
    client[j] \in {"staging", "running"} ~> client[j] \in Settled \/ Stuck(j)

(***************************************************************************)
(* What the code says of itself and does not keep                          *)
(***************************************************************************)
\* A cancel of a dispatched job is never dropped before its loop has ended:
\* the comment of run_job on registering the cancel channel early.
CancelNeverDropped ==
    [][\A j \in Jobs :
        cancel_call[j] = "pending" /\ cancel_call'[j] = "done"
            /\ broker[j] \in {"invoked", "spawned", "writing", "reading"}
                => j \in fired']_vars

\* A job's stream ends with a result or an error frame, so a run that resolves
\* has received the result: the comment on ServerMessageSchema's stream.
ResolvedHasResult == \A j \in Jobs : client[j] = "resolved" => "result" \in got[j]

=============================================================================
