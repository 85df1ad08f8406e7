-------------------------- MODULE SidecarJob_proofs --------------------------
(***************************************************************************)
(* For every set of jobs and every pipe capacity: what a run of the        *)
(* desktop backend leaves behind and what it reports.  The jobs share only *)
(* the broker's map, so the inductive invariant is a conjunction over jobs *)
(* of facts that tie the client, the broker and the sidecar of one job.    *)
(***************************************************************************)
EXTENDS SidecarJob, SequenceTheorems, TLAPS

(***************************************************************************)
(* The inductive invariant.                                                *)
(***************************************************************************)
\* The three parties are in step: the broker works only for a running client,
\* the sidecar lives only between the broker's spawn and its return, and the
\* staged input is there exactly from dispatch to settlement.
InStep(j) ==
    /\ broker[j] = "none" => client[j] # "running"
    /\ broker[j] # "none" /\ broker[j] \notin Returned => client[j] = "running"
    /\ broker[j] \in Returned => client[j] \in {"running"} \cup Settled
    /\ broker[j] \in {"none", "invoked"} => child[j] = "none"
    /\ child[j] \in Alive => broker[j] \notin Returned
    /\ temp[j] = "staged" => client[j] = "running"
    /\ temp[j] = "removed" => client[j] \in Settled

\* Only the end of stdin lets a sidecar exit, and only the broker kills one.
Ending(j) ==
    /\ "eof" \in stdin[j] \/ child[j] = "exited" => broker[j] \in {"reaping"} \cup Returned
    /\ child[j] = "killed" => broker[j] \in {"closing", "reaping"} \cup Returned

\* A cancel starts at an abort, and until the loop ends its channel is
\* registered or has been sent to.
Cancelling(j) ==
    /\ cancel_call[j] # "none" \/ j \in fired \/ broker[j] = "killing" => aborted[j]
    /\ broker[j] \in {"writing", "reading"} => j \in jobs \cup fired
    /\ j \in jobs => broker[j] \in {"writing", "reading", "killing", "closing"}

\* A loop that ended well read a terminal frame, was cancelled or found the
\* sidecar crashed.
Explained(j) == aborted[j] \/ got[j] # {} \/ child[j] = "crashed"

Verdict(j) ==
    /\ broker[j] \in {"closing", "reaping"} /\ verdict[j] = "ok" => Explained(j)
    /\ broker[j] = "ok" => Explained(j)

Reported(j) ==
    client[j] = "resolved" =>
        ~aborted[j] /\ ("result" \in got[j] \/ child[j] = "crashed")

\* A cancel reaches a live sidecar only while the broker is about to kill it,
\* so a job that returns with its work dir in place never exits by itself.
Scratch(j) ==
    /\ "cancel" \in stdin[j] \/ token[j] => child[j] \in Dead \/ broker[j] = "killing"
    /\ child[j] \in Terminal \cup {"idle"} /\ scratch[j] => broker[j] = "killing"
    /\ child[j] = "exited" => ~scratch[j]

JobInv(j) ==
    InStep(j) /\ Ending(j) /\ Cancelling(j) /\ Verdict(j) /\ Reported(j) /\ Scratch(j)

IInv == TypeOK /\ \A j \in Jobs : JobInv(j)

-----------------------------------------------------------------------------
(***************************************************************************)
(* Type correctness.                                                       *)
(***************************************************************************)
\* A settled run resolves, fails or was aborted, whatever the broker returned.
LEMMA OutcomeSettles ==
    ASSUME TypeOK, NEW j \in Jobs, broker[j] \in Returned
    PROVE  Outcome(j) \in Settled
<1>1. CASE broker[j] = "err"
  BY <1>1 DEF Outcome, Settled
<1>2. CASE broker[j] = "ok"
  BY <1>2 DEF TypeOK, Outcome, Settled
<1>3. QED BY <1>1, <1>2 DEF Returned

\* A frame that is forwarded leaves frames in the pipe; a terminal one is noted.
LEMMA ForwardType ==
    ASSUME TypeOK, NEW j \in Jobs, Forward(j)
    PROVE  TypeOK'
<1> USE DEF TypeOK, Forward, Terminal, clientVars, brokerVars, childVars, pipeVars
<1>1. stdout' \in [Jobs -> Seq({"progress", "huge"} \cup Terminal)]
  OBVIOUS
<1>2. CASE Head(stdout[j]) \in Terminal
  <2>1. got[j] \cup {Head(stdout[j])} \in SUBSET Terminal
    BY <1>2
  <2>2. got' = [got EXCEPT ![j] = got[j] \cup {Head(stdout[j])}]
    BY <1>2
  <2>3. got' \in [Jobs -> SUBSET Terminal]
    BY <2>1, <2>2
  <2>4. QED BY <1>1, <1>2, <2>3 DEF LoopEnds, BrokerAt, Returned
<1>3. CASE Head(stdout[j]) \notin Terminal
  BY <1>1, <1>3
<1>4. QED BY <1>2, <1>3

\* Type correctness is inductive: one step per action of Next.
LEMMA TypeStep == TypeOK /\ [Next]_vars => TypeOK'
<1> SUFFICES ASSUME TypeOK, [Next]_vars PROVE TypeOK'
  OBVIOUS
<1> USE DEF Settled, Returned, Terminal, Dead, Busy, Alive, clientVars, brokerVars,
            childVars, pipeVars
<1>1. ASSUME NEW j \in Jobs, RunAborted(j) PROVE TypeOK'
  BY <1>1 DEF TypeOK, RunAborted, SettleAs
<1>2. ASSUME NEW j \in Jobs, RunBlob(j) PROVE TypeOK'
  BY <1>2 DEF TypeOK, RunBlob
<1>3. ASSUME NEW j \in Jobs, RunPath(j) PROVE TypeOK'
  BY <1>3 DEF TypeOK, RunPath, Dispatch
<1>4. ASSUME NEW j \in Jobs, StageFails(j) PROVE TypeOK'
  BY <1>4 DEF TypeOK, StageFails, SettleAs
<1>5. ASSUME NEW j \in Jobs, Staged(j) PROVE TypeOK'
  BY <1>5 DEF TypeOK, Staged, Dispatch
<1>6. ASSUME NEW j \in Jobs, StagedAborted(j) PROVE TypeOK'
  BY <1>6 DEF TypeOK, StagedAborted, SettleAs
<1>7. ASSUME NEW j \in Jobs, Abort(j) PROVE TypeOK'
  BY <1>7 DEF TypeOK, Abort
<1>8. ASSUME NEW j \in Jobs, Settle(j) PROVE TypeOK'
  BY <1>8, OutcomeSettles DEF TypeOK, Settle, SettleAs
<1>9. ASSUME NEW j \in Jobs, Spawn(j) PROVE TypeOK'
  BY <1>9 DEF TypeOK, Spawn, BrokerAt
<1>10. ASSUME NEW j \in Jobs, SpawnFails(j) PROVE TypeOK'
  BY <1>10 DEF TypeOK, SpawnFails, BrokerAt
<1>11. ASSUME NEW j \in Jobs, Register(j) PROVE TypeOK'
  BY <1>11 DEF TypeOK, Register, BrokerAt
<1>12. ASSUME NEW j \in Jobs, WriteRequest(j) PROVE TypeOK'
  BY <1>12 DEF TypeOK, WriteRequest, BrokerAt
<1>13. ASSUME NEW j \in Jobs, WriteFails(j) PROVE TypeOK'
  BY <1>13 DEF TypeOK, WriteFails, BrokerAt
<1>14. ASSUME NEW j \in Jobs, Forward(j) PROVE TypeOK'
  BY <1>14, ForwardType
<1>15. ASSUME NEW j \in Jobs, SendFails(j) PROVE TypeOK'
  BY <1>15 DEF TypeOK, SendFails, LoopEnds, BrokerAt
<1>16. ASSUME NEW j \in Jobs, ReadFails(j) PROVE TypeOK'
  BY <1>16 DEF TypeOK, ReadFails, LoopEnds, BrokerAt
<1>17. ASSUME NEW j \in Jobs, ReadEof(j) PROVE TypeOK'
  BY <1>17 DEF TypeOK, ReadEof, LoopEnds, BrokerAt
<1>18. ASSUME NEW j \in Jobs, TakeCancel(j) PROVE TypeOK'
  BY <1>18 DEF TypeOK, TakeCancel, BrokerAt
<1>19. ASSUME NEW j \in Jobs, Kill(j) PROVE TypeOK'
  BY <1>19 DEF TypeOK, Kill, BrokerAt
<1>20. ASSUME NEW j \in Jobs, CloseStdin(j) PROVE TypeOK'
  BY <1>20 DEF TypeOK, CloseStdin, BrokerAt
<1>21. ASSUME NEW j \in Jobs, Reap(j) PROVE TypeOK'
  BY <1>21 DEF TypeOK, Reap, BrokerAt
<1>22. ASSUME NEW j \in Jobs, CancelJob(j) PROVE TypeOK'
  BY <1>22 DEF TypeOK, CancelJob
<1>23. ASSUME NEW j \in Jobs, ReadRequest(j) PROVE TypeOK'
  BY <1>23 DEF TypeOK, ReadRequest, ChildAt
<1>24. ASSUME NEW j \in Jobs, PipelineReturns(j) PROVE TypeOK'
  BY <1>24 DEF TypeOK, PipelineReturns, ChildAt
<1>25. ASSUME NEW j \in Jobs, PipelineRaises(j) PROVE TypeOK'
  BY <1>25 DEF TypeOK, PipelineRaises, ChildAt
<1>26. ASSUME NEW j \in Jobs, Collect(j) PROVE TypeOK'
  BY <1>26 DEF TypeOK, Collect, ChildAt
<1>27. ASSUME NEW j \in Jobs, Reply(j) PROVE TypeOK'
  BY <1>27 DEF TypeOK, Reply, Put
<1>28. ASSUME NEW j \in Jobs, Quit(j) PROVE TypeOK'
  BY <1>28 DEF TypeOK, Quit, ChildAt
<1>29. ASSUME NEW j \in Jobs, ReadCancel(j) PROVE TypeOK'
  BY <1>29 DEF TypeOK, ReadCancel
<1>30. ASSUME NEW j \in Jobs, Progress(j) PROVE TypeOK'
  BY <1>30 DEF TypeOK, Progress, Put
<1>31. ASSUME NEW j \in Jobs, WriteHuge(j) PROVE TypeOK'
  BY <1>31 DEF TypeOK, WriteHuge, Put, ChildAt
<1>32. ASSUME NEW j \in Jobs, Crash(j) PROVE TypeOK'
  BY <1>32 DEF TypeOK, Crash
<1>33. CASE UNCHANGED vars
  BY <1>33 DEF vars, TypeOK
<1>34. QED
  BY <1>1, <1>2, <1>3, <1>4, <1>5, <1>6, <1>7, <1>8, <1>9, <1>10, <1>11, <1>12,
     <1>13, <1>14, <1>15, <1>16, <1>17, <1>18, <1>19, <1>20, <1>21, <1>22, <1>23,
     <1>24, <1>25, <1>26, <1>27, <1>28, <1>29, <1>30, <1>31, <1>32, <1>33
     DEF Next, ClientStep, BrokerStep, ChildStep

-----------------------------------------------------------------------------
(***************************************************************************)
(* The invariant is inductive.                                             *)
(***************************************************************************)
\* A forwarded frame: the loop goes on, or it ends with the frame on record.
LEMMA ForwardInv ==
    ASSUME IInv, NEW j \in Jobs, Forward(j), NEW i \in Jobs
    PROVE  JobInv(i)'
<1> USE DEF IInv, TypeOK, JobInv, InStep, Ending, Cancelling, Explained, Verdict, Reported,
            Scratch, Forward, Returned, Terminal, childVars, pipeVars
<1>1. CASE Head(stdout[j]) \in Terminal
  <2>1. got'[j] # {} /\ got[j] \subseteq got'[j] /\ (i # j => got'[i] = got[i])
    <3>1. DOMAIN got = Jobs
      OBVIOUS
    <3>2. got' = [got EXCEPT ![j] = got[j] \cup {Head(stdout[j])}]
      BY <1>1
    <3>3. got'[j] = got[j] \cup {Head(stdout[j])} /\ (i # j => got'[i] = got[i])
      BY <3>1, <3>2, Zenon
    <3>4. QED BY <3>3, Zenon
  <2>2. broker[j] = "reading" /\ broker' = [broker EXCEPT ![j] = "closing"]
    BY <1>1 DEF LoopEnds, BrokerAt
  <2>3. UNCHANGED <<client, aborted, temp, cancel_call, jobs, fired, childVars, stdin>>
        /\ verdict' = [verdict EXCEPT ![j] = "ok"]
    BY <1>1 DEF LoopEnds
  <2>4. CASE i = j
    BY <2>1, <2>2, <2>3, <2>4
  <2>5. CASE i # j
    BY <2>1, <2>2, <2>3, <2>5
  <2>6. QED BY <2>4, <2>5
<1>2. CASE Head(stdout[j]) \notin Terminal
  BY <1>2
<1>3. QED BY <1>1, <1>2

\* A run that settles has an account of itself.
LEMMA SettleInv ==
    ASSUME IInv, NEW j \in Jobs, Settle(j), NEW i \in Jobs
    PROVE  JobInv(i)'
<1> USE DEF IInv, TypeOK, JobInv, InStep, Ending, Cancelling, Explained, Verdict, Reported,
            Scratch, Settle, SettleAs, Settled, Returned, Terminal, Dead, Busy, Alive,
            brokerVars, childVars, pipeVars
<1>1. Outcome(j) \in Settled
  BY OutcomeSettles
<1>2. Outcome(j) = "resolved" =>
          broker[j] = "ok" /\ ~aborted[j] /\ "error" \notin got[j]
  <2>1. broker[j] \in {"ok", "err"} /\ aborted[j] \in BOOLEAN
    OBVIOUS
  <2>2. QED BY <2>1 DEF Outcome
<1>3. Outcome(j) = "resolved" =>
          ~aborted[j] /\ ("result" \in got[j] \/ child[j] = "crashed")
  <2>1. got[j] \subseteq {"result", "error"} /\ JobInv(j)
    OBVIOUS
  <2>2. QED BY <1>2, <2>1
<1>4. QED BY <1>1, <1>3

\* Every step of a job keeps the facts of every job: one step per action of Next.
LEMMA InvStep == IInv /\ [Next]_vars => \A i \in Jobs : JobInv(i)'
<1> SUFFICES ASSUME IInv, [Next]_vars, NEW i \in Jobs PROVE JobInv(i)'
  OBVIOUS
<1> USE DEF IInv, TypeOK, JobInv, InStep, Ending, Cancelling, Explained, Verdict, Reported,
            Scratch, Settled, Returned, Terminal, Dead, Busy, Alive, clientVars, brokerVars,
            childVars, pipeVars
<1>1. ASSUME NEW j \in Jobs, RunAborted(j) PROVE JobInv(i)'
  BY <1>1 DEF RunAborted, SettleAs
<1>2. ASSUME NEW j \in Jobs, RunBlob(j) PROVE JobInv(i)'
  BY <1>2 DEF RunBlob
<1>3. ASSUME NEW j \in Jobs, RunPath(j) PROVE JobInv(i)'
  BY <1>3 DEF RunPath, Dispatch
<1>4. ASSUME NEW j \in Jobs, StageFails(j) PROVE JobInv(i)'
  BY <1>4 DEF StageFails, SettleAs
<1>5. ASSUME NEW j \in Jobs, Staged(j) PROVE JobInv(i)'
  BY <1>5 DEF Staged, Dispatch
<1>6. ASSUME NEW j \in Jobs, StagedAborted(j) PROVE JobInv(i)'
  BY <1>6 DEF StagedAborted, SettleAs
<1>7. ASSUME NEW j \in Jobs, Abort(j) PROVE JobInv(i)'
  BY <1>7 DEF Abort
<1>8. ASSUME NEW j \in Jobs, Settle(j) PROVE JobInv(i)'
  BY <1>8, SettleInv
<1>9. ASSUME NEW j \in Jobs, Spawn(j) PROVE JobInv(i)'
  BY <1>9 DEF Spawn, BrokerAt
<1>10. ASSUME NEW j \in Jobs, SpawnFails(j) PROVE JobInv(i)'
  BY <1>10 DEF SpawnFails, BrokerAt
<1>11. ASSUME NEW j \in Jobs, Register(j) PROVE JobInv(i)'
  BY <1>11 DEF Register, BrokerAt
<1>12. ASSUME NEW j \in Jobs, WriteRequest(j) PROVE JobInv(i)'
  BY <1>12 DEF WriteRequest, BrokerAt
<1>13. ASSUME NEW j \in Jobs, WriteFails(j) PROVE JobInv(i)'
  BY <1>13 DEF WriteFails, BrokerAt
<1>14. ASSUME NEW j \in Jobs, Forward(j) PROVE JobInv(i)'
  BY <1>14, ForwardInv
<1>15. ASSUME NEW j \in Jobs, SendFails(j) PROVE JobInv(i)'
  BY <1>15 DEF SendFails, LoopEnds, BrokerAt
<1>16. ASSUME NEW j \in Jobs, ReadFails(j) PROVE JobInv(i)'
  BY <1>16 DEF ReadFails, LoopEnds, BrokerAt
<1>17. ASSUME NEW j \in Jobs, ReadEof(j) PROVE JobInv(i)'
  BY <1>17 DEF ReadEof, LoopEnds, BrokerAt
<1>18. ASSUME NEW j \in Jobs, TakeCancel(j) PROVE JobInv(i)'
  BY <1>18 DEF TakeCancel, BrokerAt
<1>19. ASSUME NEW j \in Jobs, Kill(j) PROVE JobInv(i)'
  BY <1>19 DEF Kill, BrokerAt
<1>20. ASSUME NEW j \in Jobs, CloseStdin(j) PROVE JobInv(i)'
  BY <1>20 DEF CloseStdin, BrokerAt
<1>21. ASSUME NEW j \in Jobs, Reap(j) PROVE JobInv(i)'
  BY <1>21 DEF Reap, BrokerAt
<1>22. ASSUME NEW j \in Jobs, CancelJob(j) PROVE JobInv(i)'
  BY <1>22 DEF CancelJob
<1>23. ASSUME NEW j \in Jobs, ReadRequest(j) PROVE JobInv(i)'
  BY <1>23 DEF ReadRequest, ChildAt
<1>24. ASSUME NEW j \in Jobs, PipelineReturns(j) PROVE JobInv(i)'
  BY <1>24 DEF PipelineReturns, ChildAt
<1>25. ASSUME NEW j \in Jobs, PipelineRaises(j) PROVE JobInv(i)'
  BY <1>25 DEF PipelineRaises, ChildAt
<1>26. ASSUME NEW j \in Jobs, Collect(j) PROVE JobInv(i)'
  BY <1>26 DEF Collect, ChildAt
<1>27. ASSUME NEW j \in Jobs, Reply(j) PROVE JobInv(i)'
  BY <1>27 DEF Reply, Put
<1>28. ASSUME NEW j \in Jobs, Quit(j) PROVE JobInv(i)'
  BY <1>28 DEF Quit, ChildAt
<1>29. ASSUME NEW j \in Jobs, ReadCancel(j) PROVE JobInv(i)'
  BY <1>29 DEF ReadCancel
<1>30. ASSUME NEW j \in Jobs, Progress(j) PROVE JobInv(i)'
  BY <1>30 DEF Progress, Put
<1>31. ASSUME NEW j \in Jobs, WriteHuge(j) PROVE JobInv(i)'
  BY <1>31 DEF WriteHuge, Put, ChildAt
<1>32. ASSUME NEW j \in Jobs, Crash(j) PROVE JobInv(i)'
  BY <1>32 DEF Crash
<1>33. CASE UNCHANGED vars
  BY <1>33 DEF vars
<1>34. QED
  BY <1>1, <1>2, <1>3, <1>4, <1>5, <1>6, <1>7, <1>8, <1>9, <1>10, <1>11, <1>12,
     <1>13, <1>14, <1>15, <1>16, <1>17, <1>18, <1>19, <1>20, <1>21, <1>22, <1>23,
     <1>24, <1>25, <1>26, <1>27, <1>28, <1>29, <1>30, <1>31, <1>32, <1>33
     DEF Next, ClientStep, BrokerStep, ChildStep

\* The inductive invariant holds of every behaviour.
THEOREM Invariance == Spec => []IInv
<1>1. Init => IInv
  BY DEF Init, IInv, TypeOK, JobInv, InStep, Ending, Cancelling, Explained, Verdict, Reported,
         Scratch, Settled, Returned, Terminal, Dead, Busy, Alive
<1>2. IInv /\ [Next]_vars => IInv'
  BY TypeStep, InvStep DEF IInv
<1>3. QED BY <1>1, <1>2, PTL DEF Spec

-----------------------------------------------------------------------------
(***************************************************************************)
(* What follows for the code.                                              *)
(***************************************************************************)
\* Every reachable state has the shapes the code gives it.
THEOREM TypeCorrect == Spec => []TypeOK
<1>1. IInv => TypeOK
  BY DEF IInv
<1>2. QED BY <1>1, Invariance, PTL

\* No return path of run_job leaves a cancel channel in the broker's map.
THEOREM NoEntryOutlivesLoop == Spec => []NoDeadEntry
<1>1. IInv => NoDeadEntry
  BY DEF IInv, TypeOK, JobInv, Cancelling, NoDeadEntry
<1>2. QED BY <1>1, Invariance, PTL

\* The staged input is there for as long as the sidecar that reads it lives, and
\* is gone when the run has settled.
THEOREM InputIsThere == Spec => []InputOutlivesJob
<1>1. IInv => InputOutlivesJob
  BY DEF IInv, TypeOK, JobInv, InStep, InputOutlivesJob, Returned, Settled, Alive, Busy,
         Terminal
<1>2. QED BY <1>1, Invariance, PTL

\* A run that resolves was not aborted, and has the result or lost its sidecar.
THEOREM ResolvedIsReal == Spec => []SuccessIsReal
<1>1. IInv => SuccessIsReal
  BY DEF IInv, JobInv, Reported, SuccessIsReal
<1>2. QED BY <1>1, Invariance, PTL

\* A sidecar that exits by itself has removed its work dir.
THEOREM ExitLeavesNoScratch == Spec => []CleanExitLeavesNoScratch
<1>1. IInv => CleanExitLeavesNoScratch
  BY DEF IInv, JobInv, Scratch, CleanExitLeavesNoScratch
<1>2. QED BY <1>1, Invariance, PTL

\* A cancel_job that arrives while the loop can still take it reaches the loop.
THEOREM CancelsReachLoop == Spec => CancelReachesLoop
<1> DEFINE Reaches == \A j \in Jobs :
             cancel_call[j] = "pending" /\ cancel_call'[j] = "done"
                 /\ broker[j] \in {"writing", "reading"} => j \in fired'
<1>1. ASSUME IInv, [Next]_vars, NEW j \in Jobs, cancel_call[j] = "pending",
             cancel_call'[j] = "done", broker[j] \in {"writing", "reading"}
      PROVE  j \in fired'
  <2>1. j \in jobs \cup fired
    BY <1>1 DEF IInv, JobInv, Cancelling
  <2>2. PICK k \in Jobs : CancelJob(k) \/ Abort(k)
    BY <1>1 DEF Next, ClientStep, BrokerStep, ChildStep, vars, clientVars, RunAborted, RunBlob,
       RunPath, StageFails, Staged, StagedAborted, Settle, Spawn, SpawnFails, Register,
       WriteRequest, WriteFails, Forward, SendFails, ReadFails, ReadEof, TakeCancel, Kill,
       CloseStdin, Reap, ReadRequest, ReadCancel, Progress, WriteHuge, PipelineReturns,
       PipelineRaises, Collect, Reply, Quit, Crash
  <2>3. CancelJob(k) /\ k = j
    BY <1>1, <2>2 DEF IInv, TypeOK, CancelJob, Abort
  <2>4. QED BY <2>1, <2>3 DEF CancelJob
<1>2. IInv /\ [Next]_vars => [Reaches]_vars
  BY <1>1
<1>3. QED BY <1>2, Invariance, PTL DEF Spec, CancelReachesLoop
=============================================================================
