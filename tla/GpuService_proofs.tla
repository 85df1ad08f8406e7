-------------------------- MODULE GpuService_proofs --------------------------
(***************************************************************************)
(* For every set of requests, every assignment of endpoints to them, every *)
(* pipeline and every build: the state is well typed, the lock excludes,   *)
(* and no model moves under the thread of a stream that holds the lock.    *)
(***************************************************************************)
EXTENDS GpuService, SequenceTheorems, TLAPS

USE KindAssumption, NoRequestAssumption

\* park, unpark and drop keep each model in one of its three places.
LEMMA ParkType ==
    ASSUME NEW dev \in [Models -> {"unloaded", "cuda", "cpu"}], NEW ms
    PROVE  /\ park_module(dev, ms) \in [Models -> {"unloaded", "cuda", "cpu"}]
           /\ unpark_module(dev, ms) \in [Models -> {"unloaded", "cuda", "cpu"}]
           /\ drop_sessions(dev, ms) \in [Models -> {"unloaded", "cuda", "cpu"}]
BY DEF park_module, unpark_module, drop_sessions

\* The park helpers leave every model somewhere.
LEMMA ParkCallsType ==
    ASSUME NEW dev \in [Models -> {"unloaded", "cuda", "cpu"}]
    PROVE  /\ park_for_transcribe(dev) \in [Models -> {"unloaded", "cuda", "cpu"}]
           /\ park_for_lyrics(dev) \in [Models -> {"unloaded", "cuda", "cpu"}]
           /\ park_vocals_after_extraction(dev) \in [Models -> {"unloaded", "cuda", "cpu"}]
BY ParkType DEF park_for_transcribe, park_for_lyrics, park_vocals_after_extraction

\* A cancelled acquire() leaves the others in line, in order.
LEMMA WithoutType ==
    ASSUME waiters \in Seq(Requests), NEW r \in Requests
    PROVE  Without(r) \in Seq(Requests)
<1>1. CASE pc[r] # "waiting"
  BY <1>1 DEF Without
<1>2. CASE pc[r] = "waiting"
  <2> DEFINE n == Len(waiters) - 1
             f == [i \in 1..n |-> waiters[IF i < Position(r) THEN i ELSE i + 1]]
  <2>1. Len(waiters) \in Nat /\ waiters \in [1..Len(waiters) -> Requests]
    BY SeqDef
  <2>2. CASE Len(waiters) = 0
    <3>1. 1..n = 1..0 /\ \A i \in 1..n : FALSE
      BY <2>2
    <3>2. f \in [1..0 -> Requests]
      BY <3>1
    <3>3. f \in Seq(Requests)
      BY <3>2, SeqDef
    <3>4. QED BY <3>3, <1>2 DEF Without
  <2>3. CASE Len(waiters) # 0
    <3>1. n \in Nat /\ \A i \in 1..n : i \in 1..Len(waiters) /\ i + 1 \in 1..Len(waiters)
      BY <2>1, <2>3
    <3>2. \A i \in 1..n : waiters[IF i < Position(r) THEN i ELSE i + 1] \in Requests
      BY <2>1, <3>1
    <3>3. f \in [1..n -> Requests]
      BY <3>2
    <3>4. f \in Seq(Requests)
      BY <3>1, <3>3, SeqDef
    <3>5. QED BY <3>4, <1>2 DEF Without
  <2>4. QED BY <2>2, <2>3
<1>3. QED BY <1>1, <1>2

-----------------------------------------------------------------------------
\* The park calls keep the types of the model variables.
LEMMA ParkForType ==
    ASSUME TypeOK, ParkForTranscribe \/ ParkForLyrics
    PROVE  /\ device' \in [Models -> {"unloaded", "cuda", "cpu"}]
           /\ disturbed' \in SUBSET Requests
           /\ modules' \in Builds
<1>1. \A ms : MidForward(ms) \subseteq Requests
  BY DEF MidForward
<1>2. device' \in [Models -> {"unloaded", "cuda", "cpu"}]
  BY ParkCallsType DEF ParkForTranscribe, ParkForLyrics, TypeOK
<1>3. disturbed' \in SUBSET Requests
  BY <1>1 DEF ParkForTranscribe, ParkForLyrics, TypeOK
<1>4. modules' \in Builds
  BY DEF ParkForTranscribe, ParkForLyrics, TypeOK
<1>5. QED BY <1>2, <1>3, <1>4

\* Writing an envelope keeps the client's stream a sequence of envelopes.
LEMMA SendType ==
    ASSUME TypeOK, NEW r \in Requests, NEW e \in Envelopes, Send(r, e)
    PROVE  sent' \in [Requests -> Seq(Envelopes)]
BY DEF TypeOK, Send

\* What entering the critical section keeps of the types.
LEMMA EnterType ==
    ASSUME TypeOK, NEW r \in Requests, Enter(r), waiters' \in Seq(Requests)
    PROVE  TypeOK'
<1>1. CASE ParkForTranscribe /\ thread' = [thread EXCEPT ![r] = "ready"]
           /\ Goto(r, "pump") /\ UNCHANGED sent
  BY <1>1, ParkForType DEF Enter, Goto, PCs, Critical, TypeOK
<1>2. CASE Send(r, "running") /\ Goto(r, "granted") /\ UNCHANGED <<thread, modelVars>>
  <2>1. sent' \in [Requests -> Seq(Envelopes)]
    BY <1>2, SendType DEF Envelopes
  <2>2. QED BY <1>2, <2>1 DEF Enter, Goto, PCs, Critical, modelVars, TypeOK
<1>3. QED BY <1>1, <1>2 DEF Enter

\* The end of a thread's work appends its report to the request's queue.
LEMMA EmitType ==
    ASSUME TypeOK, NEW r \in Requests, NEW es \in Seq(QueueItems), Emit(r, es)
    PROVE  queue' \in [Requests -> Seq(QueueItems)]
<1>1. queue[r] \o es \in Seq(QueueItems)
  BY DEF TypeOK
<1>2. QED BY <1>1 DEF Emit, TypeOK

\* A thread's end and its report are well typed.
LEMMA ThreadEndType ==
    ASSUME TypeOK, NEW r \in Requests, NEW res \in {"ok", "error", "cancelled"},
           ThreadEnd(r, res)
    PROVE  /\ thread' \in [Requests -> {"none", "ready", "stage", "ended"}]
           /\ outcome' \in [Requests -> {"none", "ok", "error", "cancelled"}]
           /\ queue' \in [Requests -> Seq(QueueItems)]
<1>1. Report(res) \in Seq(QueueItems)
  <2>1. CASE res = "ok"
    BY <2>1 DEF Report, QueueItems
  <2>2. CASE res = "error"
    BY <2>2 DEF Report, QueueItems
  <2>3. CASE res = "cancelled"
    BY <2>3 DEF Report, QueueItems
  <2>4. QED BY <2>1, <2>2, <2>3
<1>2. QED BY <1>1, EmitType DEF ThreadEnd, TypeOK

\* Type correctness is inductive: one step per action of Next.
LEMMA TypeStep == TypeOK /\ [Next]_vars => TypeOK'
<1> SUFFICES ASSUME TypeOK, [Next]_vars PROVE TypeOK'
  OBVIOUS
<1> USE DEF TypeOK, Goto
<1>1. ASSUME NEW r \in Requests, Arrive(r) PROVE TypeOK'
  BY <1>1 DEF Arrive, PCs, lockVars, threadVars, modelVars
<1>2. ASSUME NEW r \in Requests, CachedAnswer(r) PROVE TypeOK'
  BY <1>2 DEF CachedAnswer, Send, PCs, Envelopes, lockVars, threadVars, modelVars
<1>3. ASSUME NEW r \in Requests, Disconnect(r) PROVE TypeOK'
  BY <1>3 DEF Disconnect, lockVars, threadVars, modelVars
<1>4. ASSUME NEW r \in Requests, WatchDisconnect(r) PROVE TypeOK'
  BY <1>4 DEF WatchDisconnect, lockVars, threadVars, modelVars
<1>5. ASSUME NEW r \in Requests, AnnounceQueued(r) PROVE TypeOK'
  BY <1>5 DEF AnnounceQueued, Send, PCs, Envelopes, lockVars, threadVars, modelVars
<1>6. ASSUME NEW r \in Requests, Acquire(r) PROVE TypeOK'
  <2>1. CASE LockFree /\ Enter(r) /\ UNCHANGED waiters
    BY <2>1, EnterType
  <2>2. CASE ~LockFree /\ Wait(r)
    BY <2>2 DEF Wait, PCs, threadVars, modelVars
  <2>3. QED BY <1>6, <2>1, <2>2 DEF Acquire
<1>7. ASSUME NEW r \in Requests, Wake(r) PROVE TypeOK'
  <2>1. waiters' \in Seq(Requests)
    BY <1>7 DEF Wake
  <2>2. QED BY <1>7, <2>1, EnterType DEF Wake
<1>8. ASSUME NEW r \in Requests, Pump(r) PROVE TypeOK'
  <2>1. Head(queue[r]) \in QueueItems /\ Tail(queue[r]) \in Seq(QueueItems)
    BY <1>8 DEF Pump
  <2>2. sent' \in [Requests -> Seq(Envelopes)]
    BY <1>8, <2>1 DEF Pump, Forwarded, Envelopes
  <2>3. queue' \in [Requests -> Seq(QueueItems)]
    BY <1>8, <2>1 DEF Pump
  <2>4. seen' \in [Requests -> {"none", "ok", "cancelled"}]
    BY <1>8 DEF Pump
  <2>5. QED BY <1>8, <2>2, <2>3, <2>4 DEF Pump, lockVars, modelVars
<1>9. ASSUME NEW r \in Requests, PumpEnd(r) PROVE TypeOK'
  <2>1. Tail(queue[r]) \in Seq(QueueItems)
    BY <1>9 DEF PumpEnd
  <2>2. sent' \in [Requests -> Seq(Envelopes)]
    BY <1>9, SendType DEF PumpEnd, Envelopes
  <2>3. queue' \in [Requests -> Seq(QueueItems)]
    BY <1>9, <2>1 DEF PumpEnd
  <2>4. QED BY <1>9, <2>2, <2>3 DEF PumpEnd, CloseStream, Release, PCs, modelVars
<1>10. ASSUME NEW r \in Requests, JobStart(r) PROVE TypeOK'
  <2>1. device' \in [Models -> {"unloaded", "cuda", "cpu"}]
    <3>1. park_for_lyrics(device) \in [Models -> {"unloaded", "cuda", "cpu"}]
      BY ParkCallsType
    <3>2. park_vocals_after_extraction(park_for_lyrics(device))
             \in [Models -> {"unloaded", "cuda", "cpu"}]
      BY <3>1, ParkCallsType
    <3>3. QED BY <1>10, <3>2, ParkForType DEF JobStart
  <2>2. disturbed' \in SUBSET Requests
    BY <1>10, ParkForType DEF JobStart, MidForward
  <2>3. stage' \in [Requests -> Nat \ {0}]
    <3>1. stage' = stage \/ stage' = [stage EXCEPT ![r] = 2]
      BY <1>10 DEF JobStart
    <3>2. CASE stage' = stage
      BY <3>2
    <3>3. CASE stage' = [stage EXCEPT ![r] = 2]
      BY <3>3
    <3>4. QED BY <3>1, <3>2, <3>3
  <2>4. modules' \in Builds
    BY <1>10, ParkForType DEF JobStart
  <2>5. QED BY <1>10, <2>1, <2>2, <2>3, <2>4 DEF JobStart, PCs, Critical, lockVars
<1>11. ASSUME NEW r \in Requests, JobAlign(r) PROVE TypeOK'
  <2>1. MidForward({"sw"}) \subseteq Requests
    BY DEF MidForward
  <2>2. device' \in [Models -> {"unloaded", "cuda", "cpu"}]
    BY <1>11, ParkCallsType DEF JobAlign
  <2>3. QED BY <1>11, <2>1, <2>2 DEF JobAlign, lockVars
<1>12. ASSUME NEW r \in Requests, JobAnswer(r) PROVE TypeOK'
  <2>1. sent' \in [Requests -> Seq(Envelopes)]
    BY <1>12, SendType DEF JobAnswer, Envelopes
  <2>2. QED
    BY <1>12, <2>1 DEF JobAnswer, PCs, Critical, lockVars, threadVars, modelVars
<1>13. ASSUME NEW r \in Requests, JobClose(r) PROVE TypeOK'
  BY <1>13 DEF JobClose, CloseStream, Release, PCs, threadVars, modelVars
<1>14. ASSUME NEW r \in Requests, UnwindSerial(r) PROVE TypeOK'
  BY <1>14, WithoutType DEF UnwindSerial, Leave, Release, PCs, threadVars, modelVars
<1>15. ASSUME NEW r \in Requests, StageSkip(r) PROVE TypeOK'
  BY <1>15, ThreadEndType DEF StageSkip, lockVars, modelVars
<1>16. ASSUME NEW r \in Requests, StageStart(r) PROVE TypeOK'
  <2>1. <<"stage">> \in Seq(QueueItems)
    BY DEF QueueItems
  <2>2. queue' \in [Requests -> Seq(QueueItems)]
    BY <1>16, <2>1, EmitType DEF StageStart
  <2>3. device' \in [Models -> {"unloaded", "cuda", "cpu"}]
    BY <1>16 DEF StageStart
  <2>4. QED BY <1>16, <2>2, <2>3 DEF StageStart, lockVars
<1>17. ASSUME NEW r \in Requests, StageOk(r) PROVE TypeOK'
  <2>1. workdir' \in [Requests -> BOOLEAN]
    BY <1>17 DEF StageOk, StageWrites
  <2>2. CASE stage[r] < Len(Program(r)) /\ Kind[r] # "lyrics"
    <3>1. stage' \in [Requests -> Nat \ {0}]
      BY <1>17, <2>2 DEF StageOk
    <3>2. thread' = [thread EXCEPT ![r] = "ready"] /\ UNCHANGED <<outcome, queue>>
      BY <1>17, <2>2 DEF StageOk
    <3>3. QED BY <1>17, <2>1, <3>1, <3>2 DEF StageOk, lockVars, modelVars
  <2>3. CASE ~(stage[r] < Len(Program(r)) /\ Kind[r] # "lyrics")
    BY <1>17, <2>1, <2>3, ThreadEndType DEF StageOk, lockVars, modelVars
  <2>4. QED BY <2>2, <2>3
<1>18. ASSUME NEW r \in Requests, StageFail(r) PROVE TypeOK'
  <2>1. workdir' \in [Requests -> BOOLEAN]
    BY <1>18 DEF StageFail, StageWrites
  <2>2. PICK res \in {"error", "cancelled"} : ThreadEnd(r, res)
    BY <1>18 DEF StageFail
  <2>3. QED BY <1>18, <2>1, <2>2, ThreadEndType DEF StageFail, lockVars, modelVars
<1>19. ASSUME NEW r \in Requests, CancelPipeline(r) PROVE TypeOK'
  BY <1>19 DEF CancelPipeline, CloseStream, Release, PCs, modelVars
<1>20. ASSUME NEW r \in Requests, CancelQueuedPipeline(r) PROVE TypeOK'
  BY <1>20, WithoutType DEF CancelQueuedPipeline, Leave, Release, PCs, threadVars, modelVars
<1>21. ASSUME NEW r \in Requests, CancelSerial(r) PROVE TypeOK'
  BY <1>21, WithoutType DEF CancelSerial, PCs, Critical, threadVars, modelVars
<1>22. ASSUME NEW r \in Requests, ExitPipeline(r) PROVE TypeOK'
  BY <1>22 DEF ExitPipeline, CloseStream, Release, PCs, threadVars, modelVars
<1>23. ASSUME NEW r \in Requests, StrandPipeline(r) PROVE TypeOK'
  BY <1>23 DEF StrandPipeline, PCs, Critical, lockVars, threadVars, modelVars
<1>24. CASE UNCHANGED vars
  BY <1>24 DEF vars, lockVars, threadVars, modelVars
<1>25. QED
  BY <1>1, <1>2, <1>3, <1>4, <1>5, <1>6, <1>7, <1>8, <1>9, <1>10, <1>11, <1>12, <1>13,
     <1>14, <1>15, <1>16, <1>17, <1>18, <1>19, <1>20, <1>21, <1>22, <1>23, <1>24
     DEF Next, LoopStep, ThreadStep, CancelStep

\* Every reachable state has the shapes the code gives it.
THEOREM TypeCorrect == Spec => []TypeOK
<1>1. Init => TypeOK
  BY DEF Init, TypeOK, PCs, Models
<1>2. QED BY <1>1, TypeStep, PTL DEF Spec

-----------------------------------------------------------------------------
(***************************************************************************)
(* The strengthening that makes both safety claims inductive: before its   *)
(* job starts a stream has no thread, and only a request that has or had a *)
(* thread can have been disturbed.                                         *)
(***************************************************************************)
Early == {"idle", "arrived", "queued", "waiting", "granted"}

ThreadInv == \A r \in Requests : pc[r] \in Early => thread[r] = "none"

DisturbedInv == \A r \in disturbed : thread[r] # "none"

Safe == MutualExclusion /\ ThreadInv /\ DisturbedInv /\ AttachedUndisturbed

IInv == TypeOK /\ Safe

\* Whatever moves now, only requests with a running stage are caught by it.
LEMMA MidForwardRuns == \A ms : \A q \in MidForward(ms) : q \in Requests /\ thread[q] = "stage"
BY DEF MidForward

\* Entering: the lock was free, so no live stream had a stage to disturb.
LEMMA EnterSafe ==
    ASSUME IInv, NEW r \in Requests, Enter(r), holder = NoRequest,
           pc[r] \in {"arrived", "queued", "waiting"}
    PROVE  Safe'
<1> USE DEF IInv, Safe, TypeOK, PCs, Critical, Early, Goto, Attached
<1>1. thread[r] = "none" /\ r \notin disturbed
  BY DEF ThreadInv, DisturbedInv
<1>2. \A q \in Requests : pc[q] \notin Critical
  BY DEF MutualExclusion
<1>3. MutualExclusion'
  BY <1>2 DEF Enter, MutualExclusion
<1>4. ThreadInv'
  BY <1>1 DEF Enter, ThreadInv, modelVars
<1>5. \A q \in disturbed' : q \in Requests /\ (q \in disturbed \/ thread[q] = "stage")
  BY MidForwardRuns DEF Enter, ParkForTranscribe, modelVars
<1>6. DisturbedInv'
  BY <1>1, <1>5 DEF Enter, DisturbedInv, modelVars
<1>7. AttachedUndisturbed'
  <2>1. r \notin disturbed'
    BY <1>1, <1>5
  <2>2. QED BY <2>1 DEF Enter, AttachedUndisturbed, modelVars
<1>8. QED BY <1>3, <1>4, <1>6, <1>7

\* A step of a thread that stays inside the thread.
LEMMA ThreadSafe ==
    ASSUME IInv, NEW r \in Requests, thread[r] \in {"ready", "stage"},
           NEW t \in {"ready", "stage", "ended"}, thread' = [thread EXCEPT ![r] = t],
           UNCHANGED <<pc, holder, disturbed>>
    PROVE  Safe'
BY DEF IInv, Safe, TypeOK, MutualExclusion, ThreadInv, DisturbedInv, AttachedUndisturbed,
       Attached, Early

\* Leaving: the lock is free if it was r's, and everything else stays put.
LEMMA LeaveSafe ==
    ASSUME IInv, NEW r \in Requests, Goto(r, "closed"), Release(r),
           UNCHANGED <<thread, disturbed>>
    PROVE  Safe'
BY DEF IInv, Safe, TypeOK, MutualExclusion, ThreadInv, DisturbedInv, AttachedUndisturbed,
       Attached, Early, Goto, Release, Critical, PCs

\* The lock's invariants hold after every step: one case per action of Next.
LEMMA SafeStep == IInv /\ [Next]_vars => Safe'
<1> SUFFICES ASSUME IInv, [Next]_vars PROVE Safe'
  OBVIOUS
<1> DEFINE Same == UNCHANGED <<holder, thread, disturbed>>
<1>0. ASSUME NEW r \in Requests, NEW l \in PCs, Same, Goto(r, l),
             l \in Critical <=> pc[r] \in Critical,
             l \in Early => pc[r] \in Early
      PROVE  Safe'
  BY <1>0 DEF IInv, Safe, TypeOK, MutualExclusion, ThreadInv, DisturbedInv,
              AttachedUndisturbed, Attached, Goto
<1>1. ASSUME NEW r \in Requests, Arrive(r) PROVE Safe'
  BY <1>1, <1>0 DEF Arrive, lockVars, threadVars, modelVars, PCs, Critical, Early
<1>2. ASSUME NEW r \in Requests, CachedAnswer(r) PROVE Safe'
  BY <1>2, <1>0 DEF CachedAnswer, lockVars, threadVars, modelVars, PCs, Critical, Early
<1>3. ASSUME NEW r \in Requests, Disconnect(r) \/ WatchDisconnect(r) \/ Pump(r) PROVE Safe'
  <2>1. Same /\ pc' = pc
    BY <1>3 DEF Disconnect, WatchDisconnect, Pump, lockVars, threadVars, modelVars
  <2>2. QED
    BY <2>1 DEF IInv, Safe, MutualExclusion, ThreadInv, DisturbedInv, AttachedUndisturbed,
                Attached
<1>4. ASSUME NEW r \in Requests, AnnounceQueued(r) PROVE Safe'
  BY <1>4, <1>0 DEF AnnounceQueued, lockVars, threadVars, modelVars, PCs, Critical, Early
<1>5. ASSUME NEW r \in Requests, Acquire(r) PROVE Safe'
  <2>1. CASE LockFree /\ Enter(r)
    BY <1>5, <2>1, EnterSafe DEF Acquire, LockFree
  <2>2. CASE Wait(r)
    BY <1>5, <2>2, <1>0 DEF Acquire, Wait, threadVars, modelVars, PCs, Critical, Early
  <2>3. QED BY <1>5, <2>1, <2>2 DEF Acquire
<1>6. ASSUME NEW r \in Requests, Wake(r) PROVE Safe'
  BY <1>6, EnterSafe DEF Wake
<1>7. ASSUME NEW r \in Requests, PumpEnd(r) PROVE Safe'
  BY <1>7, LeaveSafe DEF PumpEnd, CloseStream, modelVars
<1>8. ASSUME NEW r \in Requests, JobStart(r) PROVE Safe'
  <2> USE DEF IInv, Safe, TypeOK, PCs, Critical, Early, Goto, Attached
  <2>1. pc[r] = "granted" /\ holder = r /\ thread[r] = "none" /\ r \notin disturbed
    BY <1>8 DEF JobStart, MutualExclusion, ThreadInv, DisturbedInv
  <2>2. \A q \in disturbed' : q \in Requests /\ (q \in disturbed \/ thread[q] = "stage")
    BY <1>8, MidForwardRuns DEF JobStart, ParkForTranscribe, ParkForLyrics
  <2>3. MutualExclusion'
    BY <1>8, <2>1 DEF JobStart, MutualExclusion, lockVars
  <2>4. ThreadInv'
    BY <1>8 DEF JobStart, ThreadInv
  <2>5. DisturbedInv'
    BY <1>8, <2>1, <2>2 DEF JobStart, DisturbedInv
  <2>6. AttachedUndisturbed'
    BY <1>8, <2>1, <2>2 DEF JobStart, AttachedUndisturbed, lockVars
  <2>7. QED BY <2>3, <2>4, <2>5, <2>6
<1>9. ASSUME NEW r \in Requests, JobAlign(r) PROVE Safe'
  <2> USE DEF IInv, Safe, TypeOK, PCs, Critical, Early, Goto, Attached
  <2>1. pc[r] = "pump" /\ holder = r /\ thread[r] = "ended" /\ r \notin disturbed
    BY <1>9 DEF JobAlign, MutualExclusion, AttachedUndisturbed
  <2>2. \A q \in disturbed' : q \in Requests /\ (q \in disturbed \/ thread[q] = "stage")
    BY <1>9, MidForwardRuns DEF JobAlign
  <2>3. MutualExclusion'
    BY <1>9 DEF JobAlign, MutualExclusion, lockVars
  <2>4. ThreadInv'
    BY <1>9 DEF JobAlign, ThreadInv
  <2>5. DisturbedInv'
    BY <1>9, <2>1, <2>2 DEF JobAlign, DisturbedInv
  <2>6. AttachedUndisturbed'
    BY <1>9, <2>1, <2>2 DEF JobAlign, AttachedUndisturbed, lockVars
  <2>7. QED BY <2>3, <2>4, <2>5, <2>6
<1>10. ASSUME NEW r \in Requests, JobAnswer(r) PROVE Safe'
  BY <1>10, <1>0 DEF JobAnswer, lockVars, threadVars, modelVars, PCs, Critical, Early
<1>11. ASSUME NEW r \in Requests, JobClose(r) PROVE Safe'
  BY <1>11, LeaveSafe DEF JobClose, CloseStream, threadVars, modelVars
<1>12. ASSUME NEW r \in Requests, UnwindSerial(r) PROVE Safe'
  BY <1>12, LeaveSafe DEF UnwindSerial, Leave, threadVars, modelVars
<1>13. ASSUME NEW r \in Requests, ThreadStep(r) PROVE Safe'
  <2>1. CASE StageSkip(r)
    BY <2>1, ThreadSafe DEF StageSkip, ThreadEnd, lockVars, modelVars
  <2>2. CASE StageStart(r)
    BY <2>2, ThreadSafe DEF StageStart, lockVars
  <2>3. CASE StageOk(r)
    <3>1. \E t \in {"ready", "ended"} : thread' = [thread EXCEPT ![r] = t]
      BY <2>3 DEF StageOk, ThreadEnd
    <3>2. QED BY <2>3, <3>1, ThreadSafe DEF StageOk, lockVars, modelVars
  <2>4. CASE StageFail(r)
    BY <2>4, ThreadSafe DEF StageFail, ThreadEnd, lockVars, modelVars
  <2>5. QED BY <1>13, <2>1, <2>2, <2>3, <2>4 DEF ThreadStep
<1>14. ASSUME NEW r \in Requests, CancelPipeline(r) PROVE Safe'
  BY <1>14, LeaveSafe DEF CancelPipeline, CloseStream, modelVars
<1>15. ASSUME NEW r \in Requests, CancelQueuedPipeline(r) PROVE Safe'
  BY <1>15, LeaveSafe DEF CancelQueuedPipeline, Leave, threadVars, modelVars
<1>16. ASSUME NEW r \in Requests, CancelSerial(r) PROVE Safe'
  <2>1. holder = r <=> pc[r] \in Critical
    BY DEF IInv, Safe, MutualExclusion
  <2>2. QED
    BY <1>16, <2>1, <1>0 DEF CancelSerial, threadVars, modelVars, PCs, Critical, Early
<1>17. ASSUME NEW r \in Requests, ExitPipeline(r) PROVE Safe'
  BY <1>17, LeaveSafe DEF ExitPipeline, CloseStream, threadVars, modelVars
<1>18. ASSUME NEW r \in Requests, StrandPipeline(r) PROVE Safe'
  BY <1>18, <1>0 DEF StrandPipeline, lockVars, threadVars, modelVars, PCs, Critical, Early
<1>19. CASE UNCHANGED vars
  BY <1>19 DEF vars, lockVars, threadVars, modelVars, IInv, Safe, MutualExclusion, ThreadInv,
               DisturbedInv, AttachedUndisturbed, Attached
<1>20. QED
  BY <1>1, <1>2, <1>3, <1>4, <1>5, <1>6, <1>7, <1>8, <1>9, <1>10, <1>11, <1>12, <1>13,
     <1>14, <1>15, <1>16, <1>17, <1>18, <1>19 DEF Next, LoopStep, CancelStep

\* The inductive invariant holds in every reachable state.
THEOREM Invariance == Spec => []IInv
<1>1. Init => IInv
  BY DEF Init, IInv, Safe, TypeOK, MutualExclusion, ThreadInv, DisturbedInv,
         AttachedUndisturbed, Attached, PCs, Critical, Early, Models
<1>2. IInv /\ [Next]_vars => IInv'
  BY TypeStep, SafeStep DEF IInv
<1>3. QED BY <1>1, <1>2, PTL DEF Spec

\* _gpu_lock: exactly the stream inside its critical section owns the lock, on
\* every path into and out of it and for any number of requests.
THEOREM LockExcludes == Spec => []MutualExclusion
<1>1. IInv => MutualExclusion
  BY DEF IInv, Safe
<1>2. QED BY <1>1, Invariance, PTL

\* No model moves under the thread of a stream that still holds the lock.
THEOREM LiveStreamsUndisturbed == Spec => []AttachedUndisturbed
<1>1. IInv => AttachedUndisturbed
  BY DEF IInv, Safe
<1>2. QED BY <1>1, Invariance, PTL
=============================================================================
