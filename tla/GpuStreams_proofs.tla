-------------------------- MODULE GpuStreams_proofs --------------------------
(***************************************************************************)
(* For every set of requests and every transcription pipeline: what a      *)
(* stream finds on the GPU, what its client receives and what it leaves on *)
(* disk, and that the streams take only steps of SerialService.            *)
(***************************************************************************)
EXTENDS GpuService_proofs

(***************************************************************************)
(* The strengthening.  It adds to the invariant of GpuService_proofs how   *)
(* far each stream's thread, queue and answer have come.                   *)
(***************************************************************************)
NoAnswer(r) == \A i \in 1..Len(sent[r]) : sent[r][i] \notin Terminal

AnswerLast(r) == \A i \in 1..Len(sent[r]) : sent[r][i] \in Terminal => i = Len(sent[r])

Answered(r) == sent[r] # <<>> /\ sent[r][Len(sent[r])] \in Terminal

\* Where the thread may still run once its stream is not in its pump: only
\* behind a client that went away.
ThreadPhase(r) ==
    /\ thread[r] = "none" => stage[r] = 1
    /\ stage[r] \in 1..Len(Program(r))
    /\ pc[r] \in {"granted", "finishing", "closing"} => Serial(r)
    /\ pc[r] = "pump" => thread[r] # "none"
    /\ pc[r] = "finishing" => thread[r] = "ended"
    /\ pc[r] = "closing" => ~connected[r]
    /\ pc[r] = "closed" /\ connected[r] => thread[r] \in {"none", "ended"}
    /\ cancel_event[r] => ~connected[r]
    /\ pc[r] = "stranded" => ~Serial(r) /\ ~connected[r] /\ thread[r] # "none"

\* The end of a pipeline's queue, once its thread has reported: the report and
\* the end marker behind any stage envelopes, then the marker alone.
ReportQueued(r) ==
    LET n == Len(queue[r]) IN
    /\ n >= 2 /\ queue[r][n] = "end"
    /\ queue[r][n - 1] \in {"_done", "_cancelled", "error"}
    /\ queue[r][n - 1] = "_cancelled" => ~connected[r]
    /\ \A i \in 1..n - 2 : queue[r][i] = "stage"
    /\ seen[r] = "none" /\ NoAnswer(r)

ReportTaken(r) ==
    /\ queue[r] = <<"end">>
    /\ \/ seen[r] = "ok" /\ NoAnswer(r)
       \/ seen[r] = "cancelled" /\ NoAnswer(r) /\ ~connected[r]
       \/ seen[r] = "none" /\ Answered(r) /\ AnswerLast(r)

QueuePhase(r) ==
    /\ ~Serial(r) /\ thread[r] = "none" => queue[r] = <<>> /\ seen[r] = "none"
    /\ ~Serial(r) /\ pc[r] = "pump" /\ thread[r] \in {"ready", "stage"} =>
           seen[r] = "none" /\ NoAnswer(r)
               /\ \A i \in 1..Len(queue[r]) : queue[r][i] = "stage"
    /\ ~Serial(r) /\ pc[r] = "pump" /\ thread[r] = "ended" =>
           ReportQueued(r) \/ ReportTaken(r)
    /\ Serial(r) => queue[r] = <<>>

AnswerPhase(r) ==
    /\ pc[r] \in Early => NoAnswer(r)
    /\ Serial(r) /\ pc[r] = "pump" => NoAnswer(r)
    /\ pc[r] = "finishing" => Answered(r)
    /\ pc[r] = "closed" /\ connected[r] => Answered(r) /\ ~workdir[r]
    /\ AnswerLast(r)

\* No abandoned thread can be about.
NobodyLeft == \A q \in Requests : pc[q] = "closed" => connected[q]

\* What is left of m on the GPU is a separator's session.
OffCuda(m) == device[m] = "cuda" => m \in Separators \ modules

\* Once a job has parked for its kind, what it needs is not on the CPU, and a
\* lyrics job has the models it does not need off CUDA, if they can be moved.
DevicePhase(r) ==
    Attached(r) /\ thread[r] # "none" =>
        /\ Kind[r] # "lyrics" => \A m \in {"sw", "drum", "adtof"} : device[m] # "cpu"
        /\ Kind[r] = "lyrics" =>
              /\ device["ctc"] # "cpu"
              /\ stage[r] = 1 => device["sw"] # "cpu"
              /\ NobodyLeft => \A m \in {"drum", "beat", "adtof"} : OffCuda(m)
              /\ NobodyLeft /\ stage[r] = 2 => OffCuda("sw")
        /\ thread[r] = "stage" /\ Uses(r) # NoModel => device[Uses(r)] = "cuda"

\* Only modules are parked; unpark brings back whatever is on the CPU.
OnlyModulesPark == \A m \in Models : device[m] = "cpu" => m \in modules

Threads == \A r \in Requests : ThreadPhase(r)
Answers == \A r \in Requests : QueuePhase(r) /\ AnswerPhase(r)
Devices == \A r \in Requests : DevicePhase(r)

StreamInv == IInv /\ Threads /\ Answers /\ Devices /\ OnlyModulesPark

-----------------------------------------------------------------------------
(***************************************************************************)
(* Pipelines, envelopes and queues.                                        *)
(***************************************************************************)
\* Lyrics jobs extract the vocals and then align; nothing else uses an aligner.
LEMMA ProgramFacts ==
    ASSUME NEW r \in Requests
    PROVE  /\ Program(r) \in Seq(Models \cup {NoModel}) /\ Len(Program(r)) \in Nat \ {0}
           /\ Serial(r) => Len(Program(r)) = 2
           /\ Kind[r] = "lyrics" => Program(r)[1] = "sw" /\ Program(r)[2] = "ctc"
           /\ Kind[r] # "lyrics" =>
                 \A i \in 1..Len(Program(r)) : Program(r)[i] \in (Models \ {"ctc"}) \cup {NoModel}
<1>1. CASE Kind[r] = "transcribe"
  <2>1. Program(r) = TranscribeProgram
    BY <1>1 DEF Program
  <2>2. QED BY <2>1, <1>1, ProgramAssumption DEF Models, Serial
<1>2. CASE Kind[r] = "lyrics"
  <2>1. Program(r) = <<"sw", "ctc">>
    BY <1>2 DEF Program
  <2>2. QED BY <2>1, <1>2 DEF Models, Serial
<1>3. CASE Kind[r] = "score"
  <2>1. Program(r) = <<"sw", "adtof">>
    BY <1>3 DEF Program
  <2>2. QED BY <2>1, <1>3 DEF Models, Serial
<1>4. QED BY <1>1, <1>2, <1>3, KindAssumption

\* A serial job has two stages; a lyrics job extracts the vocals, then aligns.
LEMMA SerialPrograms ==
    ASSUME NEW r \in Requests, Serial(r)
    PROVE  /\ 1..Len(Program(r)) = {1, 2}
           /\ Kind[r] = "lyrics" => \A i \in {1, 2} :
                  Program(r)[i] = IF i = 1 THEN "sw" ELSE "ctc"
<1>1. Len(Program(r)) = 2
  BY ProgramFacts
<1>2. QED BY <1>1, ProgramFacts

\* What writing an envelope does to the client's stream, and to the others'.
LEMMA SendFacts ==
    ASSUME TypeOK, NEW r \in Requests, NEW e \in Envelopes, Send(r, e)
    PROVE  /\ \A q \in Requests : q # r => sent'[q] = sent[q]
           /\ e \notin Terminal /\ NoAnswer(r) => NoAnswer(r)'
           /\ e \in Terminal /\ NoAnswer(r) => Answered(r)' /\ AnswerLast(r)'
<1>1. sent[r] \in Seq(Envelopes) /\ sent' = [sent EXCEPT ![r] = Append(sent[r], e)]
  BY DEF TypeOK, Send
<1>2. sent'[r] = Append(sent[r], e) /\ \A q \in Requests : q # r => sent'[q] = sent[q]
  BY <1>1 DEF TypeOK
<1>3. /\ Len(sent[r]) \in Nat /\ Len(sent'[r]) = Len(sent[r]) + 1
      /\ sent'[r][Len(sent[r]) + 1] = e
      /\ \A i \in 1..Len(sent[r]) : sent'[r][i] = sent[r][i]
      /\ sent'[r] # <<>>
  BY <1>1, <1>2, AppendProperties
<1>4. QED BY <1>2, <1>3 DEF NoAnswer, Answered, AnswerLast

\* What a pipeline's thread adds is at the end of its queue.
LEMMA EmitFacts ==
    ASSUME TypeOK, NEW r \in Requests, NEW es \in Seq(QueueItems), Emit(r, es)
    PROVE  /\ \A q \in Requests : q # r => queue'[q] = queue[q]
           /\ Serial(r) => queue'[r] = queue[r]
           /\ ~Serial(r) =>
                 /\ Len(queue'[r]) = Len(queue[r]) + Len(es)
                 /\ \A i \in 1..Len(queue[r]) : queue'[r][i] = queue[r][i]
                 /\ \A i \in 1..Len(es) : queue'[r][Len(queue[r]) + i] = es[i]
<1>1. queue[r] \in Seq(QueueItems)
  BY DEF TypeOK
<1>2. /\ \A q \in Requests : q # r => queue'[q] = queue[q]
      /\ Serial(r) => queue'[r] = queue[r]
      /\ ~Serial(r) => queue'[r] = queue[r] \o es
  BY DEF TypeOK, Emit
<1>3. Len(queue[r]) \in Nat /\ Len(es) \in Nat
  BY <1>1
<1>4. /\ Len(queue[r] \o es) = Len(queue[r]) + Len(es)
      /\ \A i \in 1..Len(queue[r]) + Len(es) : (queue[r] \o es)[i] =
            IF i <= Len(queue[r]) THEN queue[r][i] ELSE es[i - Len(queue[r])]
  BY <1>1, ConcatProperties
<1>5. ASSUME NEW i \in 1..Len(queue[r]) PROVE (queue[r] \o es)[i] = queue[r][i]
  BY <1>3, <1>4
<1>6. ASSUME NEW i \in 1..Len(es) PROVE (queue[r] \o es)[Len(queue[r]) + i] = es[i]
  BY <1>3, <1>4
<1>7. QED BY <1>2, <1>4, <1>5, <1>6

\* A stream whose envelopes, thread and place do not change is where it was.
LEMMA PhaseKept ==
    ASSUME StreamInv, NEW q \in Requests, sent'[q] = sent[q], queue'[q] = queue[q],
           seen'[q] = seen[q], thread'[q] = thread[q],
           connected'[q] => connected[q],
           pc'[q] = pc[q] \/ (pc[q] \in Early /\ pc'[q] \in Early),
           workdir'[q] => workdir[q] \/ thread[q] = "stage" \/ pc[q] # "closed"
    PROVE  QueuePhase(q)' /\ AnswerPhase(q)'
<1>1. /\ NoAnswer(q) => NoAnswer(q)'
      /\ Answered(q) => Answered(q)'
      /\ AnswerLast(q) => AnswerLast(q)'
  BY DEF NoAnswer, Answered, AnswerLast
<1>2. ReportQueued(q) => ReportQueued(q)'
  BY <1>1 DEF ReportQueued, StreamInv, IInv, TypeOK
<1>3. ReportTaken(q) => ReportTaken(q)'
  BY <1>1 DEF ReportTaken
<1>4. QueuePhase(q) /\ AnswerPhase(q) /\ ThreadPhase(q)
  BY DEF StreamInv, Answers, Threads
<1>5. QueuePhase(q)'
  BY <1>1, <1>2, <1>3, <1>4 DEF QueuePhase, Serial, Early
<1>6. AnswerPhase(q)'
  BY <1>1, <1>4 DEF AnswerPhase, ThreadPhase, Serial, Early
<1>7. QED BY <1>5, <1>6

-----------------------------------------------------------------------------
(***************************************************************************)
(* Threads: one step per action of Next.                                   *)
(***************************************************************************)
LEMMA ThreadsStep == StreamInv /\ [Next]_vars => Threads'
<1> SUFFICES ASSUME StreamInv, [Next]_vars, NEW q \in Requests PROVE ThreadPhase(q)'
  BY DEF Threads
<1> USE ProgramFacts DEF StreamInv, Threads, ThreadPhase, IInv, Safe, ThreadInv, TypeOK,
        Early, Critical, PCs, Goto, Serial, lockVars, threadVars, modelVars
<1>1. ASSUME NEW r \in Requests, Arrive(r) PROVE ThreadPhase(q)'
  BY <1>1 DEF Arrive
<1>2. ASSUME NEW r \in Requests, CachedAnswer(r) PROVE ThreadPhase(q)'
  BY <1>2 DEF CachedAnswer
<1>3. ASSUME NEW r \in Requests, Disconnect(r) PROVE ThreadPhase(q)'
  BY <1>3 DEF Disconnect
<1>4. ASSUME NEW r \in Requests, WatchDisconnect(r) PROVE ThreadPhase(q)'
  BY <1>4 DEF WatchDisconnect
<1>5. ASSUME NEW r \in Requests, AnnounceQueued(r) PROVE ThreadPhase(q)'
  BY <1>5 DEF AnnounceQueued
<1>6. ASSUME NEW r \in Requests, pc[r] \in Early, Enter(r) PROVE ThreadPhase(q)'
  <2>1. CASE ~Serial(r)
    <3>1. /\ pc' = [pc EXCEPT ![r] = "pump"] /\ thread' = [thread EXCEPT ![r] = "ready"]
          /\ UNCHANGED <<connected, cancel_event, stage, workdir>>
      BY <1>6, <2>1 DEF Enter
    <3>2. QED BY <1>6, <2>1, <3>1
  <2>2. CASE Serial(r)
    BY <1>6, <2>2 DEF Enter
  <2>3. QED BY <2>1, <2>2
<1>7. ASSUME NEW r \in Requests, Acquire(r) PROVE ThreadPhase(q)'
  <2>1. pc[r] \in Early
    BY <1>7 DEF Acquire
  <2>2. CASE Enter(r)
    BY <1>6, <2>1, <2>2
  <2>3. CASE Wait(r)
    BY <2>1, <2>3 DEF Wait
  <2>4. QED BY <1>7, <2>2, <2>3 DEF Acquire
<1>8. ASSUME NEW r \in Requests, Wake(r) PROVE ThreadPhase(q)'
  <2>1. pc[r] \in Early /\ Enter(r)
    BY <1>8 DEF Wake
  <2>2. QED BY <1>6, <2>1
<1>9. ASSUME NEW r \in Requests, Pump(r) PROVE ThreadPhase(q)'
  BY <1>9 DEF Pump
<1>10. ASSUME NEW r \in Requests, PumpEnd(r) PROVE ThreadPhase(q)'
  <2>1. ~Serial(r) /\ thread[r] = "ended"
    <3>1. QueuePhase(r) /\ queue[r] \in Seq(QueueItems) /\ queue[r] # <<>>
          /\ Head(queue[r]) = "end" /\ pc[r] = "pump"
      BY <1>10 DEF PumpEnd, Answers
    <3>2. Len(queue[r]) >= 1 /\ queue[r][1] = "end"
      BY <3>1
    <3>3. QED BY <3>1, <3>2 DEF QueuePhase
  <2>2. QED BY <1>10, <2>1 DEF PumpEnd, CloseStream
<1>11. ASSUME NEW r \in Requests, JobStart(r) PROVE ThreadPhase(q)'
  <2>1. /\ pc[r] = "granted" /\ pc' = [pc EXCEPT ![r] = "pump"]
        /\ thread' = [thread EXCEPT ![r] = "ready"]
        /\ stage' = stage \/ stage' = [stage EXCEPT ![r] = 2]
        /\ UNCHANGED <<connected, cancel_event>>
    BY <1>11 DEF JobStart
  <2>2. Serial(r)
    BY <2>1
  <2>3. 2 \in 1..Len(Program(r))
    BY <2>2, SerialPrograms
  <2>4. QED BY <2>1, <2>3
<1>12. ASSUME NEW r \in Requests, JobAlign(r) PROVE ThreadPhase(q)'
  BY <1>12 DEF JobAlign
<1>13. ASSUME NEW r \in Requests, JobAnswer(r) PROVE ThreadPhase(q)'
  BY <1>13 DEF JobAnswer
<1>14. ASSUME NEW r \in Requests, JobClose(r) PROVE ThreadPhase(q)'
  BY <1>14 DEF JobClose, CloseStream
<1>15. ASSUME NEW r \in Requests, UnwindSerial(r) PROVE ThreadPhase(q)'
  BY <1>15 DEF UnwindSerial
<1>16. ASSUME NEW r \in Requests, StageSkip(r) PROVE ThreadPhase(q)'
  BY <1>16 DEF StageSkip, ThreadEnd
<1>17. ASSUME NEW r \in Requests, StageStart(r) PROVE ThreadPhase(q)'
  BY <1>17 DEF StageStart
<1>18. ASSUME NEW r \in Requests, StageOk(r) PROVE ThreadPhase(q)'
  BY <1>18 DEF StageOk, ThreadEnd
<1>19. ASSUME NEW r \in Requests, StageFail(r) PROVE ThreadPhase(q)'
  BY <1>19 DEF StageFail, ThreadEnd
<1>20. ASSUME NEW r \in Requests, CancelPipeline(r) PROVE ThreadPhase(q)'
  BY <1>20 DEF CancelPipeline, CloseStream
<1>21. ASSUME NEW r \in Requests, CancelQueuedPipeline(r) PROVE ThreadPhase(q)'
  BY <1>21 DEF CancelQueuedPipeline
<1>22. ASSUME NEW r \in Requests, CancelSerial(r) PROVE ThreadPhase(q)'
  BY <1>22 DEF CancelSerial
<1>23. ASSUME NEW r \in Requests, ExitPipeline(r) PROVE ThreadPhase(q)'
  BY <1>23 DEF ExitPipeline, CloseStream
<1>24. ASSUME NEW r \in Requests, StrandPipeline(r) PROVE ThreadPhase(q)'
  BY <1>24 DEF StrandPipeline
<1>25. CASE UNCHANGED vars
  BY <1>25 DEF vars
<1>26. QED
  BY <1>1, <1>2, <1>3, <1>4, <1>5, <1>7, <1>8, <1>9, <1>10, <1>11, <1>12, <1>13, <1>14,
     <1>15, <1>16, <1>17, <1>18, <1>19, <1>20, <1>21, <1>22, <1>23, <1>24, <1>25
     DEF Next, LoopStep, ThreadStep, CancelStep

-----------------------------------------------------------------------------
(***************************************************************************)
(* Queues and answers.                                                     *)
(***************************************************************************)
\* The end of a pipeline's thread puts its report at the end of the queue.
LEMMA ThreadEndAnswers ==
    ASSUME StreamInv, NEW r \in Requests, NEW res \in {"ok", "error", "cancelled"},
           thread[r] \in {"ready", "stage"}, ThreadEnd(r, res),
           res = "cancelled" => ~connected[r], UNCHANGED <<pc, connected, seen, sent>>
    PROVE  QueuePhase(r)' /\ AnswerPhase(r)'
<1> DEFINE es == Report(res)
<1>1. /\ es \in Seq(QueueItems) /\ Len(es) = 2 /\ es[2] = "end"
      /\ es[1] \in {"_done", "_cancelled", "error"} /\ (es[1] = "_cancelled" => res = "cancelled")
  <2>1. CASE res = "ok"
    BY <2>1 DEF Report, QueueItems
  <2>2. CASE res = "cancelled"
    BY <2>2 DEF Report, QueueItems
  <2>3. CASE res = "error"
    BY <2>3 DEF Report, QueueItems
  <2>4. QED BY <2>1, <2>2, <2>3
<1>2. QueuePhase(r) /\ AnswerPhase(r) /\ ThreadPhase(r) /\ TypeOK
  BY DEF StreamInv, Answers, Threads, IInv
<1>3. thread'[r] = "ended" /\ Emit(r, es)
  BY <1>2 DEF ThreadEnd, TypeOK
<1>4. /\ Serial(r) => queue'[r] = queue[r]
      /\ ~Serial(r) =>
            /\ Len(queue'[r]) = Len(queue[r]) + 2
            /\ \A i \in 1..Len(queue[r]) : queue'[r][i] = queue[r][i]
            /\ queue'[r][Len(queue[r]) + 1] = es[1] /\ queue'[r][Len(queue[r]) + 2] = es[2]
  <2>1. 1 \in 1..Len(es) /\ 2 \in 1..Len(es)
    BY <1>1
  <2> HIDE DEF es
  <2>2. QED BY <1>1, <1>2, <1>3, <2>1, EmitFacts
<1> HIDE DEF es
<1>5. /\ NoAnswer(r) => NoAnswer(r)'
      /\ Answered(r) => Answered(r)'
      /\ AnswerLast(r) => AnswerLast(r)'
  BY DEF NoAnswer, Answered, AnswerLast
<1>6. CASE ~Serial(r) /\ pc[r] = "pump"
  <2>1. seen[r] = "none" /\ NoAnswer(r) /\ \A i \in 1..Len(queue[r]) : queue[r][i] = "stage"
    BY <1>2, <1>6 DEF QueuePhase
  <2>2. Len(queue[r]) \in Nat
    BY <1>2 DEF TypeOK
  <2>3. ReportQueued(r)'
    <3> DEFINE n == Len(queue[r]) + 2
    <3>1. /\ n >= 2 /\ Len(queue'[r]) = n /\ n - 1 = Len(queue[r]) + 1 /\ n - 2 = Len(queue[r])
          /\ queue'[r][n] = "end" /\ queue'[r][n - 1] = es[1]
      BY <1>1, <1>4, <1>6, <2>2
    <3>2. \A i \in 1..n - 2 : queue'[r][i] = "stage"
      BY <1>4, <1>6, <2>1, <3>1
    <3>3. es[1] = "_cancelled" => ~connected'[r]
      BY <1>1
    <3>4. seen'[r] = "none" /\ NoAnswer(r)'
      BY <1>5, <2>1
    <3> HIDE DEF n
    <3>5. QED BY <1>1, <3>1, <3>2, <3>3, <3>4 DEF ReportQueued
  <2>4. QED BY <1>2, <1>3, <1>5, <1>6, <2>3 DEF QueuePhase, AnswerPhase, Serial, Early
<1>7. CASE Serial(r) \/ pc[r] # "pump"
  BY <1>2, <1>3, <1>4, <1>5, <1>7 DEF QueuePhase, AnswerPhase, ThreadPhase, Serial, Early
<1>8. QED BY <1>6, <1>7

\* The pump takes a stage envelope, or the report.
LEMMA PumpAnswers ==
    ASSUME StreamInv, NEW r \in Requests, Pump(r)
    PROVE  QueuePhase(r)' /\ AnswerPhase(r)'
<1>1. QueuePhase(r) /\ AnswerPhase(r) /\ ThreadPhase(r) /\ TypeOK
  BY DEF StreamInv, Answers, Threads, IInv
<1>2. /\ pc[r] = "pump" /\ queue[r] # <<>> /\ queue[r] \in Seq(QueueItems)
      /\ Head(queue[r]) = queue[r][1] /\ queue[r][1] # "end"
      /\ UNCHANGED <<pc, connected, thread, workdir>>
  BY <1>1 DEF Pump, TypeOK
<1>3. ~Serial(r) /\ thread[r] \in {"ready", "stage", "ended"}
  BY <1>1, <1>2 DEF QueuePhase, ThreadPhase, TypeOK
<1>4. /\ Len(queue[r]) \in Nat /\ Len(queue[r]) >= 1
      /\ queue'[r] = Tail(queue[r]) /\ Len(queue'[r]) = Len(queue[r]) - 1
      /\ \A i \in 1..Len(queue[r]) - 1 : queue'[r][i] = queue[r][i + 1]
  BY <1>1, <1>2, HeadTailProperties DEF Pump, TypeOK
<1>5. /\ seen'[r] = CASE queue[r][1] = "_done"      -> "ok"
                      [] queue[r][1] = "_cancelled" -> "cancelled"
                      [] queue[r][1] \notin {"_done", "_cancelled"} -> seen[r]
  BY <1>1, <1>2 DEF Pump, TypeOK
<1>6. /\ queue[r][1] \in {"stage", "error"} => Send(r, queue[r][1])
      /\ queue[r][1] \in {"_done", "_cancelled"} => sent' = sent
  BY <1>2 DEF Pump, Forwarded, Send
<1>7. CASE thread[r] \in {"ready", "stage"}
  <2>1. seen[r] = "none" /\ NoAnswer(r) /\ \A i \in 1..Len(queue[r]) : queue[r][i] = "stage"
    BY <1>1, <1>2, <1>3, <1>7 DEF QueuePhase
  <2>2. queue[r][1] = "stage"
    BY <1>4, <2>1
  <2>3. NoAnswer(r)'
    BY <1>1, <1>6, <2>1, <2>2, SendFacts DEF Envelopes, Terminal
  <2>4. \A i \in 1..Len(queue'[r]) : queue'[r][i] = "stage"
    BY <1>4, <2>1
  <2>5. seen'[r] = "none"
    BY <1>5, <2>1, <2>2
  <2>6. QED BY <1>2, <1>3, <1>7, <2>3, <2>4, <2>5
            DEF QueuePhase, AnswerPhase, NoAnswer, AnswerLast, Serial, Early
<1>8. CASE thread[r] = "ended"
  <2>1. ReportQueued(r)
    BY <1>1, <1>2, <1>3, <1>8 DEF QueuePhase, ReportTaken
  <2>2. seen[r] = "none" /\ NoAnswer(r) /\ Len(queue[r]) >= 2
    BY <2>1 DEF ReportQueued
  <2>3. CASE Len(queue[r]) > 2
    <3>1. queue[r][1] = "stage"
      BY <1>4, <2>1, <2>3 DEF ReportQueued
    <3>2. NoAnswer(r)' /\ seen'[r] = "none"
      BY <1>1, <1>5, <1>6, <2>2, <3>1, SendFacts DEF Envelopes, Terminal
    <3>3. ReportQueued(r)'
      BY <1>2, <1>4, <2>1, <2>3, <3>2 DEF ReportQueued
    <3>4. QED BY <1>2, <1>3, <1>8, <3>2, <3>3
              DEF QueuePhase, AnswerPhase, NoAnswer, AnswerLast, Serial, Early
  <2>4. CASE Len(queue[r]) = 2
    <3>1. queue[r][2] = "end" /\ queue[r][1] \in {"_done", "_cancelled", "error"}
          /\ (queue[r][1] = "_cancelled" => ~connected[r])
      BY <2>1, <2>4 DEF ReportQueued
    <3>2. queue'[r] = <<"end">>
      <4>1. queue'[r] \in Seq(QueueItems) /\ <<"end">> \in Seq(QueueItems)
        BY <1>2, <1>4, HeadTailProperties DEF QueueItems
      <4>2. Len(queue'[r]) = 1 /\ queue'[r][1] = "end"
        BY <1>4, <2>4, <3>1
      <4>3. Len(<<"end">>) = 1 /\ <<"end">>[1] = "end"
        OBVIOUS
      <4>4. \A i \in 1..Len(queue'[r]) : queue'[r][i] = <<"end">>[i]
        BY <4>2, <4>3
      <4>5. QED BY <4>1, <4>2, <4>3, <4>4, SeqEqual
    <3>3. CASE queue[r][1] = "error"
      <4>1. Answered(r)' /\ AnswerLast(r)'
        BY <1>1, <1>6, <2>2, <3>3, SendFacts DEF Envelopes, Terminal
      <4>2. seen'[r] = "none"
        BY <1>5, <2>2, <3>3
      <4>3. ReportTaken(r)'
        BY <3>2, <4>1, <4>2 DEF ReportTaken
      <4>4. QED BY <1>2, <1>3, <1>8, <4>1, <4>3
                DEF QueuePhase, AnswerPhase, Serial, Early
    <3>4. CASE queue[r][1] \in {"_done", "_cancelled"}
      <4>1. NoAnswer(r)' /\ AnswerLast(r)'
        BY <1>6, <2>2, <3>4 DEF NoAnswer, AnswerLast
      <4>2. seen'[r] = "ok" \/ (seen'[r] = "cancelled" /\ ~connected[r])
        BY <1>5, <3>1, <3>4
      <4>3. ReportTaken(r)'
        BY <1>2, <3>2, <4>1, <4>2 DEF ReportTaken
      <4>4. QED BY <1>2, <1>3, <1>8, <4>1, <4>3
                DEF QueuePhase, AnswerPhase, Serial, Early
    <3>5. QED BY <3>1, <3>3, <3>4
  <2>5. Len(queue[r]) > 2 \/ Len(queue[r]) = 2
    <3>1. Len(queue[r]) \in Nat
      BY <1>4
    <3>2. Len(queue[r]) >= 2
      BY <2>2
    <3>3. \A n \in Nat : n >= 2 => n > 2 \/ n = 2
      OBVIOUS
    <3>4. QED BY <3>1, <3>2, <3>3
  <2>6. QED BY <2>3, <2>4, <2>5
<1>9. QED BY <1>3, <1>7, <1>8

\* The end marker is the last thing in a queue: nothing is dropped with it.
LEMMA PumpEndAnswers ==
    ASSUME StreamInv, NEW r \in Requests, PumpEnd(r)
    PROVE  QueuePhase(r)' /\ AnswerPhase(r)' /\ ReportTaken(r)
<1>1. QueuePhase(r) /\ AnswerPhase(r) /\ ThreadPhase(r) /\ TypeOK
  BY DEF StreamInv, Answers, Threads, IInv
<1>2. /\ pc[r] = "pump" /\ queue[r] # <<>> /\ queue[r] \in Seq(QueueItems)
      /\ Head(queue[r]) = queue[r][1] /\ queue[r][1] = "end" /\ Len(queue[r]) >= 1
  BY <1>1 DEF PumpEnd, TypeOK
<1>3. ~Serial(r) /\ thread[r] = "ended"
  BY <1>1, <1>2 DEF QueuePhase, ThreadPhase, TypeOK
<1>4. ReportTaken(r)
  BY <1>1, <1>2, <1>3 DEF QueuePhase, ReportQueued
<1>5. /\ pc'[r] = "closed" /\ ~workdir'[r]
      /\ UNCHANGED <<connected, thread>>
  BY <1>1 DEF PumpEnd, CloseStream, Goto, TypeOK
<1>6. CASE seen[r] = "ok"
  <2>1. NoAnswer(r)
    BY <1>4, <1>6 DEF ReportTaken, Answered, AnswerLast
  <2>2. PICK e \in {"result", "error"} : Send(r, e)
    BY <1>6 DEF PumpEnd
  <2>3. Answered(r)' /\ AnswerLast(r)'
    BY <1>1, <2>1, <2>2, SendFacts DEF Envelopes, Terminal
  <2>4. QED BY <1>3, <1>4, <1>5, <2>3 DEF QueuePhase, AnswerPhase, Serial, Early
<1>7. CASE seen[r] # "ok"
  <2>1. sent' = sent
    BY <1>7 DEF PumpEnd
  <2>2. /\ Answered(r) => Answered(r)'
        /\ AnswerLast(r) => AnswerLast(r)'
    BY <2>1 DEF Answered, AnswerLast
  <2>3. Answered(r) \/ ~connected[r]
    BY <1>4, <1>7 DEF ReportTaken
  <2>4. QED BY <1>1, <1>3, <1>4, <1>5, <2>2, <2>3 DEF QueuePhase, AnswerPhase, Serial, Early
<1>8. QED BY <1>6, <1>7

\* The error that a stream forwards is the first answer it writes.
LEMMA ErrorIsFirst ==
    ASSUME StreamInv, NEW r \in Requests, Pump(r), Head(queue[r]) = "error"
    PROVE  NoAnswer(r)
<1>1. QueuePhase(r) /\ ThreadPhase(r) /\ TypeOK
  BY DEF StreamInv, Answers, Threads, IInv
<1>2. /\ pc[r] = "pump" /\ queue[r] # <<>> /\ queue[r] \in Seq(QueueItems)
      /\ Len(queue[r]) >= 1 /\ queue[r][1] = "error"
  BY <1>1 DEF Pump, TypeOK
<1>3. ~Serial(r) /\ thread[r] \in {"ready", "stage", "ended"}
  BY <1>1, <1>2 DEF QueuePhase, ThreadPhase, TypeOK
<1>4. thread[r] = "ended"
  BY <1>1, <1>2, <1>3 DEF QueuePhase
<1>5. QED BY <1>1, <1>2, <1>3, <1>4 DEF QueuePhase, ReportQueued, ReportTaken

\* The stage envelope joins a queue of stage envelopes.
LEMMA StageStartAnswers ==
    ASSUME StreamInv, NEW r \in Requests, StageStart(r)
    PROVE  QueuePhase(r)' /\ AnswerPhase(r)'
<1>1. QueuePhase(r) /\ AnswerPhase(r) /\ ThreadPhase(r) /\ TypeOK
  BY DEF StreamInv, Answers, Threads, IInv
<1>2. /\ <<"stage">> \in Seq(QueueItems) /\ Len(<<"stage">>) = 1 /\ <<"stage">>[1] = "stage"
      /\ 1 \in 1..Len(<<"stage">>)
  BY DEF QueueItems
<1>3. /\ thread[r] = "ready" /\ thread'[r] = "stage" /\ Emit(r, <<"stage">>)
      /\ UNCHANGED <<pc, connected, seen, sent, workdir>>
  BY <1>1 DEF StageStart, TypeOK
<1>4. /\ Serial(r) => queue'[r] = queue[r]
      /\ ~Serial(r) =>
            /\ Len(queue'[r]) = Len(queue[r]) + 1
            /\ \A i \in 1..Len(queue[r]) : queue'[r][i] = queue[r][i]
            /\ queue'[r][Len(queue[r]) + 1] = "stage"
  BY <1>1, <1>2, <1>3, EmitFacts
<1>5. /\ NoAnswer(r) => NoAnswer(r)'
      /\ Answered(r) => Answered(r)'
      /\ AnswerLast(r) => AnswerLast(r)'
  BY <1>3 DEF NoAnswer, Answered, AnswerLast
<1>6. CASE ~Serial(r) /\ pc[r] = "pump"
  <2>1. seen[r] = "none" /\ NoAnswer(r) /\ \A i \in 1..Len(queue[r]) : queue[r][i] = "stage"
    BY <1>1, <1>3, <1>6 DEF QueuePhase
  <2>2. Len(queue[r]) \in Nat
    BY <1>1 DEF TypeOK
  <2>3. \A i \in 1..Len(queue'[r]) : queue'[r][i] = "stage"
    BY <1>4, <1>6, <2>1, <2>2
  <2>4. QED BY <1>1, <1>3, <1>5, <1>6, <2>1, <2>3 DEF QueuePhase, AnswerPhase, Serial, Early
<1>7. CASE Serial(r) \/ pc[r] # "pump"
  BY <1>1, <1>3, <1>4, <1>5, <1>7 DEF QueuePhase, AnswerPhase, ThreadPhase, Serial, Early
<1>8. QED BY <1>6, <1>7

\* A stage that ends hands over to the next one, or reports.
LEMMA StageOkAnswers ==
    ASSUME StreamInv, NEW r \in Requests, StageOk(r)
    PROVE  QueuePhase(r)' /\ AnswerPhase(r)'
<1>1. QueuePhase(r) /\ AnswerPhase(r) /\ ThreadPhase(r) /\ TypeOK
  BY DEF StreamInv, Answers, Threads, IInv
<1>2. thread[r] = "stage" /\ UNCHANGED <<pc, connected, seen, sent>>
  BY DEF StageOk
<1>3. CASE stage[r] < Len(Program(r)) /\ Kind[r] # "lyrics"
  <2>1. thread'[r] = "ready" /\ queue'[r] = queue[r]
    BY <1>1, <1>3 DEF StageOk, TypeOK
  <2>2. /\ NoAnswer(r) => NoAnswer(r)'
        /\ Answered(r) => Answered(r)'
        /\ AnswerLast(r) => AnswerLast(r)'
    BY <1>2 DEF NoAnswer, Answered, AnswerLast
  <2>3. QueuePhase(r)'
    BY <1>1, <1>2, <2>1, <2>2 DEF QueuePhase, Serial
  <2>4. AnswerPhase(r)'
    BY <1>1, <1>2, <2>2 DEF AnswerPhase, ThreadPhase, Serial, Early
  <2>5. QED BY <2>3, <2>4
<1>4. CASE ~(stage[r] < Len(Program(r)) /\ Kind[r] # "lyrics")
  BY <1>2, <1>4, ThreadEndAnswers DEF StageOk
<1>5. QED BY <1>3, <1>4


\* A step of another stream leaves this one's queue and answer alone.
LEMMA OthersAnswers ==
    ASSUME StreamInv, NEW r \in Requests, NEW q \in Requests, q # r,
           \/ Arrive(r) \/ CachedAnswer(r) \/ Disconnect(r) \/ WatchDisconnect(r)
           \/ LoopStep(r) \/ ThreadStep(r) \/ CancelStep(r)
    PROVE  QueuePhase(q)' /\ AnswerPhase(q)'
<1> DEFINE Same == /\ pc'[q] = pc[q] /\ connected'[q] = connected[q]
                   /\ thread'[q] = thread[q] /\ workdir'[q] = workdir[q]
                   /\ queue'[q] = queue[q] /\ seen'[q] = seen[q] /\ sent'[q] = sent[q]
<1> USE DEF TypeOK, Goto, Send, CloseStream, lockVars, threadVars, modelVars
<1>1. TypeOK
  BY DEF StreamInv, IInv
<1>2. CASE Arrive(r) \/ CachedAnswer(r) \/ Disconnect(r) \/ WatchDisconnect(r)
  BY <1>1, <1>2, PhaseKept DEF Arrive, CachedAnswer, Disconnect, WatchDisconnect
<1>3. CASE AnnounceQueued(r)
  BY <1>1, <1>3, PhaseKept DEF AnnounceQueued
<1>4. ASSUME Enter(r) PROVE Same
  <2>1. CASE ~Serial(r)
    BY <1>1, <1>4, <2>1 DEF Enter
  <2>2. CASE Serial(r)
    BY <1>1, <1>4, <2>2 DEF Enter
  <2>3. QED BY <2>1, <2>2
<1>5. CASE Acquire(r) \/ Wake(r)
  <2>1. CASE Wait(r)
    BY <1>1, <2>1, PhaseKept DEF Wait
  <2>2. QED BY <1>4, <1>5, <2>1, PhaseKept DEF Acquire, Wake
<1>6. CASE Pump(r)
  BY <1>1, <1>6, PhaseKept DEF Pump
<1>7. CASE PumpEnd(r)
  BY <1>1, <1>7, PhaseKept DEF PumpEnd
<1>8. CASE JobStart(r) \/ JobAlign(r)
  BY <1>1, <1>8, PhaseKept DEF JobStart, JobAlign
<1>9. CASE JobAnswer(r) \/ JobClose(r) \/ UnwindSerial(r)
  BY <1>1, <1>9, PhaseKept DEF JobAnswer, JobClose, UnwindSerial
<1>10. CASE StageSkip(r) \/ StageFail(r)
  <2>1. /\ UNCHANGED <<pc, connected, seen, sent>>
        /\ workdir'[q] = workdir[q]
    BY <1>1, <1>10 DEF StageSkip, StageFail, StageWrites
  <2>2. \E res \in {"cancelled", "error"} : ThreadEnd(r, res)
    BY <1>10 DEF StageSkip, StageFail
  <2>3. thread'[q] = thread[q] /\ queue'[q] = queue[q]
    BY <1>1, <2>2 DEF ThreadEnd, Emit
  <2>4. QED BY <2>1, <2>3, PhaseKept
<1>11. CASE StageStart(r)
  BY <1>1, <1>11, PhaseKept DEF StageStart, Emit
<1>12. CASE StageOk(r)
  BY <1>1, <1>12, PhaseKept DEF StageOk, StageWrites, ThreadEnd, Emit
<1>13. CASE CancelStep(r)
  BY <1>1, <1>13, PhaseKept DEF CancelStep, CancelPipeline, ExitPipeline, StrandPipeline,
                               CancelQueuedPipeline, CancelSerial
<1>14. QED
  BY <1>2, <1>3, <1>5, <1>6, <1>7, <1>8, <1>9, <1>10, <1>11, <1>12, <1>13
     DEF LoopStep, ThreadStep

\* Queues and answers keep their phases: one step per action of Next.
LEMMA AnswersStep == StreamInv /\ [Next]_vars => Answers'
<1> SUFFICES ASSUME StreamInv, [Next]_vars PROVE Answers'
  OBVIOUS
<1> DEFINE Kept(r) == QueuePhase(r)' /\ AnswerPhase(r)'
<1>0. \A r \in Requests : QueuePhase(r) /\ AnswerPhase(r) /\ ThreadPhase(r) /\ TypeOK /\ Safe
  BY DEF StreamInv, Answers, Threads, IInv
<1> USE DEF TypeOK, Goto, lockVars, threadVars, modelVars
<1>1. ASSUME NEW r \in Requests, Arrive(r) PROVE Kept(r)
  BY <1>0, <1>1, PhaseKept DEF Arrive, Early
<1>2. ASSUME NEW r \in Requests, CachedAnswer(r) PROVE Kept(r)
  <2>1. NoAnswer(r) /\ thread[r] = "none" /\ Serial(r) /\ queue[r] = <<>>
    BY <1>0, <1>2 DEF CachedAnswer, AnswerPhase, QueuePhase, Serial, Early, Safe, ThreadInv
  <2>2. Answered(r)' /\ AnswerLast(r)'
    BY <1>0, <1>2, <2>1, SendFacts DEF CachedAnswer, Envelopes, Terminal
  <2>3. pc'[r] = "closed" /\ ~workdir'[r] /\ queue'[r] = queue[r]
    BY <1>0, <1>2 DEF CachedAnswer
  <2>4. QED BY <2>1, <2>2, <2>3 DEF QueuePhase, AnswerPhase, Serial, Early
<1>3. ASSUME NEW r \in Requests, Disconnect(r) PROVE Kept(r)
  BY <1>0, <1>3, PhaseKept DEF Disconnect
<1>4. ASSUME NEW r \in Requests, WatchDisconnect(r) PROVE Kept(r)
  BY <1>0, <1>4, PhaseKept DEF WatchDisconnect
<1>5. ASSUME NEW r \in Requests, NEW e \in {"queued", "running"}, Send(r, e),
             pc[r] \in Early, pc'[r] \in Early, UNCHANGED <<queue, seen, thread>>
      PROVE  Kept(r)
  <2>1. NoAnswer(r) /\ NoAnswer(r)'
    BY <1>0, <1>5, SendFacts DEF AnswerPhase, Envelopes, Terminal
  <2>2. QED BY <1>0, <1>5, <2>1 DEF QueuePhase, AnswerPhase, NoAnswer, AnswerLast, Serial, Early
<1>6. ASSUME NEW r \in Requests, AnnounceQueued(r) PROVE Kept(r)
  BY <1>0, <1>5, <1>6 DEF AnnounceQueued, Early
<1>7. ASSUME NEW r \in Requests, pc[r] \in Early, Enter(r) PROVE Kept(r)
  <2>1. CASE ~Serial(r)
    <3>1. /\ pc'[r] = "pump" /\ thread'[r] = "ready"
          /\ UNCHANGED <<queue, seen, sent>>
      BY <1>0, <1>7, <2>1 DEF Enter
    <3>2. queue[r] = <<>> /\ seen[r] = "none" /\ NoAnswer(r)
      BY <1>0, <1>7, <2>1 DEF QueuePhase, AnswerPhase, Safe, ThreadInv
    <3>3. NoAnswer(r)'
      BY <3>1, <3>2 DEF NoAnswer
    <3>4. QED BY <2>1, <3>1, <3>2, <3>3
              DEF QueuePhase, AnswerPhase, NoAnswer, AnswerLast, Serial, Early
  <2>2. CASE Serial(r)
    BY <1>0, <1>5, <1>7, <2>2 DEF Enter, Early
  <2>3. QED BY <2>1, <2>2
<1>8. ASSUME NEW r \in Requests, Acquire(r) PROVE Kept(r)
  <2>1. pc[r] \in Early
    BY <1>8 DEF Acquire, Early
  <2>2. CASE Wait(r)
    BY <1>0, <2>1, <2>2, PhaseKept DEF Wait, Early
  <2>3. QED BY <1>7, <1>8, <2>1, <2>2 DEF Acquire
<1>9. ASSUME NEW r \in Requests, Wake(r) PROVE Kept(r)
  BY <1>7, <1>9 DEF Wake, Early
<1>10. ASSUME NEW r \in Requests, Pump(r) PROVE Kept(r)
  BY <1>10, PumpAnswers
<1>11. ASSUME NEW r \in Requests, PumpEnd(r) PROVE Kept(r)
  BY <1>11, PumpEndAnswers
<1>12. ASSUME NEW r \in Requests, JobStart(r) PROVE Kept(r)
  <2>1. /\ pc[r] = "granted" /\ pc'[r] = "pump" /\ UNCHANGED <<queue, seen, sent>>
    BY <1>0, <1>12 DEF JobStart
  <2>2. Serial(r) /\ NoAnswer(r) /\ queue[r] = <<>>
    BY <1>0, <2>1 DEF ThreadPhase, QueuePhase, AnswerPhase, Early
  <2>3. NoAnswer(r)'
    BY <2>1, <2>2 DEF NoAnswer
  <2>4. QED BY <2>1, <2>2, <2>3 DEF QueuePhase, AnswerPhase, NoAnswer, AnswerLast, Serial, Early
<1>13. ASSUME NEW r \in Requests, JobAlign(r) PROVE Kept(r)
  <2>1. /\ pc[r] = "pump" /\ Serial(r) /\ UNCHANGED <<pc, queue, seen, sent>>
    BY <1>13 DEF JobAlign, Serial
  <2>2. NoAnswer(r) /\ queue[r] = <<>>
    BY <1>0, <2>1 DEF QueuePhase, AnswerPhase
  <2>3. NoAnswer(r)'
    BY <2>1, <2>2 DEF NoAnswer
  <2>4. QED BY <2>1, <2>2, <2>3 DEF QueuePhase, AnswerPhase, NoAnswer, AnswerLast, Serial, Early
<1>14. ASSUME NEW r \in Requests, JobAnswer(r) PROVE Kept(r)
  <2>1. pc[r] = "pump" /\ pc'[r] = "finishing" /\ Serial(r) /\ UNCHANGED queue
    BY <1>0, <1>14 DEF JobAnswer
  <2>2. NoAnswer(r) /\ queue[r] = <<>>
    BY <1>0, <2>1 DEF QueuePhase, AnswerPhase
  <2>3. Answered(r)' /\ AnswerLast(r)'
    BY <1>0, <1>14, <2>2, SendFacts DEF JobAnswer, Envelopes, Terminal
  <2>4. QED BY <2>1, <2>2, <2>3 DEF QueuePhase, AnswerPhase, Serial, Early
<1>15. ASSUME NEW r \in Requests, NEW l \in {"closing", "stranded", "closed"}, Goto(r, l),
             l = "closed" /\ connected'[r] => pc[r] = "finishing" /\ ~workdir'[r],
             UNCHANGED <<connected, queue, seen, sent, thread>>
      PROVE  Kept(r)
  <2>1. pc'[r] = l
    BY <1>0, <1>15
  <2>2. /\ Answered(r) => Answered(r)'
        /\ AnswerLast(r) => AnswerLast(r)'
    BY <1>15 DEF Answered, AnswerLast
  <2>3. QueuePhase(r)'
    BY <1>0, <1>15, <2>1 DEF QueuePhase, Serial
  <2>4. AnswerPhase(r)'
    BY <1>0, <1>15, <2>1, <2>2 DEF AnswerPhase, Serial, Early
  <2>5. QED BY <2>3, <2>4
<1>16. ASSUME NEW r \in Requests, JobClose(r) PROVE Kept(r)
  BY <1>0, <1>15, <1>16 DEF JobClose, CloseStream
<1>17. ASSUME NEW r \in Requests, UnwindSerial(r) PROVE Kept(r)
  BY <1>0, <1>15, <1>17 DEF UnwindSerial, ThreadPhase
<1>18. ASSUME NEW r \in Requests, StageSkip(r) PROVE Kept(r)
  <2>1. ~connected[r]
    BY <1>0, <1>18 DEF StageSkip, CancelSeen, ThreadPhase
  <2>2. QED BY <1>18, <2>1, ThreadEndAnswers DEF StageSkip
<1>19. ASSUME NEW r \in Requests, StageStart(r) PROVE Kept(r)
  BY <1>19, StageStartAnswers
<1>20. ASSUME NEW r \in Requests, StageOk(r) PROVE Kept(r)
  BY <1>20, StageOkAnswers
<1>21. ASSUME NEW r \in Requests, StageFail(r) PROVE Kept(r)
  <2>1. PICK res \in {"error", "cancelled"} :
           ThreadEnd(r, res) /\ (res = "cancelled" => cancel_event[r])
    BY <1>21 DEF StageFail
  <2>2. res = "cancelled" => ~connected[r]
    BY <1>0, <2>1 DEF ThreadPhase
  <2>3. thread[r] = "stage" /\ UNCHANGED <<pc, connected, seen, sent>>
    BY <1>21 DEF StageFail
  <2>4. QED BY <2>1, <2>2, <2>3, ThreadEndAnswers
<1>22. ASSUME NEW r \in Requests, CancelPipeline(r) PROVE Kept(r)
  BY <1>0, <1>15, <1>22 DEF CancelPipeline, CloseStream
<1>23. ASSUME NEW r \in Requests, CancelQueuedPipeline(r) PROVE Kept(r)
  BY <1>0, <1>15, <1>23 DEF CancelQueuedPipeline
<1>24. ASSUME NEW r \in Requests, CancelSerial(r) PROVE Kept(r)
  BY <1>0, <1>15, <1>24 DEF CancelSerial
<1>25. ASSUME NEW r \in Requests, ExitPipeline(r) \/ StrandPipeline(r) PROVE Kept(r)
  BY <1>0, <1>15, <1>25 DEF ExitPipeline, StrandPipeline, CloseStream
<1>26. CASE UNCHANGED vars
  BY <1>26, PhaseKept DEF vars, Answers
<1>27. ASSUME NEW r \in Requests,
             \/ Arrive(r) \/ CachedAnswer(r) \/ Disconnect(r) \/ WatchDisconnect(r)
             \/ LoopStep(r) \/ ThreadStep(r) \/ CancelStep(r)
       PROVE Answers'
  <2>1. Kept(r)
    BY <1>1, <1>2, <1>3, <1>4, <1>6, <1>8, <1>9, <1>10, <1>11, <1>12, <1>13, <1>14, <1>16,
       <1>17, <1>18, <1>19, <1>20, <1>21, <1>22, <1>23, <1>24, <1>25, <1>27
       DEF LoopStep, ThreadStep, CancelStep
  <2>2. ASSUME NEW q \in Requests, q # r PROVE Kept(q)
    BY <1>27, <2>2, OthersAnswers
  <2>3. QED BY <2>1, <2>2 DEF Answers
<1>28. QED BY <1>26, <1>27 DEF Next

-----------------------------------------------------------------------------
(***************************************************************************)
(* Devices.                                                                *)
(***************************************************************************)
\* Nothing but park_module puts a model on the CPU.
LEMMA ParksStep == StreamInv /\ [Next]_vars => OnlyModulesPark'
<1> SUFFICES ASSUME StreamInv, [Next]_vars PROVE OnlyModulesPark'
  OBVIOUS
<1> USE DEF lockVars, threadVars, modelVars
<1>1. ASSUME NEW dev \in [Models -> {"unloaded", "cuda", "cpu"}], NEW ms,
             \A m \in Models : dev[m] = "cpu" => m \in modules
      PROVE  /\ \A m \in Models : park_module(dev, ms)[m] = "cpu" => m \in modules
             /\ \A m \in Models : unpark_module(dev, ms)[m] = "cpu" => m \in modules
             /\ \A m \in Models : drop_sessions(dev, ms)[m] = "cpu" => m \in modules
  BY <1>1 DEF park_module, unpark_module, drop_sessions
<1>2. TypeOK /\ device \in [Models -> {"unloaded", "cuda", "cpu"}] /\ OnlyModulesPark
  BY DEF StreamInv, IInv, TypeOK
<1>3. /\ \A m \in Models : park_for_transcribe(device)[m] = "cpu" => m \in modules
      /\ \A m \in Models : park_for_lyrics(device)[m] = "cpu" => m \in modules
  BY <1>1, <1>2, ParkType DEF park_for_transcribe, park_for_lyrics, OnlyModulesPark
<1>4. /\ \A m \in Models : park_vocals_after_extraction(device)[m] = "cpu" => m \in modules
      /\ \A m \in Models :
            park_vocals_after_extraction(park_for_lyrics(device))[m] = "cpu" => m \in modules
  BY <1>1, <1>2, <1>3, ParkCallsType DEF park_vocals_after_extraction, OnlyModulesPark
<1>5. ASSUME ParkForTranscribe \/ ParkForLyrics PROVE OnlyModulesPark'
  BY <1>3, <1>5 DEF ParkForTranscribe, ParkForLyrics, OnlyModulesPark
<1>6. ASSUME NEW r \in Requests, Acquire(r) \/ Wake(r) PROVE OnlyModulesPark'
  <2>1. ParkForTranscribe \/ UNCHANGED modelVars
    BY <1>6 DEF Acquire, Wake, Enter, Wait
  <2>2. QED BY <1>2, <1>5, <2>1 DEF OnlyModulesPark
<1>7. ASSUME NEW r \in Requests, JobStart(r) \/ JobAlign(r) PROVE OnlyModulesPark'
  BY <1>4, <1>5, <1>7 DEF JobStart, JobAlign, OnlyModulesPark
<1>8. ASSUME NEW r \in Requests, StageStart(r) PROVE OnlyModulesPark'
  BY <1>2, <1>8 DEF StageStart, OnlyModulesPark
<1>9. ASSUME UNCHANGED modelVars PROVE OnlyModulesPark'
  BY <1>2, <1>9 DEF OnlyModulesPark
<1>10. ASSUME NEW r \in Requests,
             \/ Arrive(r) \/ CachedAnswer(r) \/ Disconnect(r) \/ WatchDisconnect(r)
             \/ AnnounceQueued(r) \/ Pump(r) \/ PumpEnd(r) \/ JobAnswer(r) \/ JobClose(r)
             \/ UnwindSerial(r) \/ StageSkip(r) \/ StageOk(r) \/ StageFail(r) \/ CancelStep(r)
       PROVE  UNCHANGED modelVars
  BY <1>10 DEF Arrive, CachedAnswer, Disconnect, WatchDisconnect, AnnounceQueued, Pump, PumpEnd,
               JobAnswer, JobClose, UnwindSerial, StageSkip, StageOk, StageFail, CancelStep,
               CancelPipeline, ExitPipeline, StrandPipeline, CancelQueuedPipeline, CancelSerial
<1>11. QED
  BY <1>6, <1>7, <1>8, <1>9, <1>10 DEF Next, LoopStep, ThreadStep, vars

\* A lyrics job has its two stages only: the vocals, then the aligner.
LEMMA LyricsStages ==
    ASSUME StreamInv, NEW r \in Requests, Kind[r] = "lyrics"
    PROVE  Uses(r) = IF stage[r] = 1 THEN "sw" ELSE "ctc"
<1>1. stage[r] \in 1..Len(Program(r))
  BY DEF StreamInv, Threads, ThreadPhase
<1>2. stage[r] \in {1, 2}
  BY <1>1, SerialPrograms DEF Serial
<1>3. \A i \in {1, 2} : Program(r)[i] = IF i = 1 THEN "sw" ELSE "ctc"
  BY SerialPrograms DEF Serial
<1>4. QED BY <1>2, <1>3 DEF Uses

\* Only a step of r itself, or a park, can disturb what r's stage needs; and a
\* step of one stream never takes the lock from another.
LEMMA DevicesStep == StreamInv /\ [Next]_vars => Devices'
<1> SUFFICES ASSUME StreamInv, [Next]_vars, NEW q \in Requests PROVE DevicePhase(q)'
  BY DEF Devices
<1> USE ProgramFacts, BuildsAssumption
        DEF StreamInv, Devices, DevicePhase, OffCuda, Separators, OnlyModulesPark, NobodyLeft, Threads, ThreadPhase, IInv,
        Safe, ThreadInv, MutualExclusion, TypeOK, Early, Critical, PCs, Goto, Attached, Serial,
        Uses, Models, NoModel, lockVars, threadVars, modelVars
<1>0. ASSUME NEW r \in Requests, thread[r] = "stage",
             NEW t \in {"ready", "ended"}, thread' = [thread EXCEPT ![r] = t],
             stage' = stage \/ (Kind[r] # "lyrics" /\ stage' = [stage EXCEPT ![r] = @ + 1]),
             UNCHANGED <<pc, connected, holder, device, modules>>
      PROVE  DevicePhase(q)'
  <2>1. CASE q = r
    BY <1>0, <2>1
  <2>2. CASE q # r
    <3>1. thread'[q] = thread[q] /\ stage'[q] = stage[q]
      BY <1>0, <2>2
    <3>2. QED BY <1>0, <3>1
  <2>3. QED BY <2>1, <2>2
<1>1. ASSUME NEW r \in Requests, Arrive(r) PROVE DevicePhase(q)'
  BY <1>1 DEF Arrive
<1>2. ASSUME NEW r \in Requests, CachedAnswer(r) PROVE DevicePhase(q)'
  BY <1>2 DEF CachedAnswer, Send
<1>3. ASSUME NEW r \in Requests, Disconnect(r) PROVE DevicePhase(q)'
  BY <1>3 DEF Disconnect
<1>4. ASSUME NEW r \in Requests, WatchDisconnect(r) PROVE DevicePhase(q)'
  BY <1>4 DEF WatchDisconnect
<1>5. ASSUME NEW r \in Requests, AnnounceQueued(r) PROVE DevicePhase(q)'
  BY <1>5 DEF AnnounceQueued, Send
<1>6. ASSUME NEW r \in Requests, holder = NoRequest, pc[r] \in Early, Enter(r) PROVE DevicePhase(q)'
  <2>1. CASE ~Serial(r)
    <3>1. /\ holder' = r /\ ParkForTranscribe /\ thread' = [thread EXCEPT ![r] = "ready"]
          /\ pc' = [pc EXCEPT ![r] = "pump"] /\ UNCHANGED <<connected, stage>>
      BY <1>6, <2>1 DEF Enter
    <3>2. QED BY <1>6, <2>1, <3>1
              DEF ParkForTranscribe, park_for_transcribe, park_module, unpark_module, drop_sessions
  <2>2. CASE Serial(r)
    BY <1>6, <2>2 DEF Enter
  <2>3. QED BY <2>1, <2>2
<1>7. ASSUME NEW r \in Requests, Acquire(r) PROVE DevicePhase(q)'
  <2>1. pc[r] \in Early
    BY <1>7 DEF Acquire
  <2>2. CASE LockFree /\ Enter(r)
    BY <1>6, <2>1, <2>2 DEF LockFree
  <2>3. CASE Wait(r)
    BY <2>1, <2>3 DEF Wait
  <2>4. QED BY <1>7, <2>2, <2>3 DEF Acquire
<1>8. ASSUME NEW r \in Requests, Wake(r) PROVE DevicePhase(q)'
  <2>1. holder = NoRequest /\ pc[r] \in Early /\ Enter(r)
    BY <1>8 DEF Wake
  <2>2. QED BY <1>6, <2>1
<1>9. ASSUME NEW r \in Requests, Pump(r) PROVE DevicePhase(q)'
  BY <1>9 DEF Pump
<1>10. ASSUME NEW r \in Requests, PumpEnd(r) PROVE DevicePhase(q)'
  BY <1>10 DEF PumpEnd, CloseStream, Release
<1>11. ASSUME NEW r \in Requests, JobStart(r) PROVE DevicePhase(q)'
  BY <1>11 DEF JobStart, ParkForTranscribe, ParkForLyrics, park_for_transcribe,
               park_for_lyrics, park_vocals_after_extraction, park_module, unpark_module,
               drop_sessions
<1>12. ASSUME NEW r \in Requests, JobAlign(r) PROVE DevicePhase(q)'
  BY <1>12 DEF JobAlign, park_vocals_after_extraction, park_module
<1>13. ASSUME NEW r \in Requests, JobAnswer(r) PROVE DevicePhase(q)'
  BY <1>13 DEF JobAnswer
<1>14. ASSUME NEW r \in Requests, JobClose(r) PROVE DevicePhase(q)'
  BY <1>14 DEF JobClose, CloseStream, Release
<1>15. ASSUME NEW r \in Requests, UnwindSerial(r) PROVE DevicePhase(q)'
  BY <1>15 DEF UnwindSerial, Leave, Release
<1>16. ASSUME NEW r \in Requests, StageSkip(r) PROVE DevicePhase(q)'
  BY <1>16 DEF StageSkip, ThreadEnd
<1>17. ASSUME NEW r \in Requests, StageStart(r) PROVE DevicePhase(q)'
  <2>1. /\ thread' = [thread EXCEPT ![r] = "stage"]
        /\ thread[r] = "ready" /\ UNCHANGED <<pc, connected, holder, stage, modules>>
        /\ device' = [m \in Models |-> IF m = Program(r)[stage[r]] /\ device[m] = "unloaded"
                                       THEN "cuda" ELSE device[m]]
    BY <1>17 DEF StageStart
  <2>2. CASE q = r
    <3>1. CASE Kind[r] # "lyrics"
      BY <2>1, <2>2, <3>1
    <3>2. CASE Kind[r] = "lyrics"
      <4>1. Program(r)[stage[r]] = IF stage[r] = 1 THEN "sw" ELSE "ctc"
        BY <3>2, LyricsStages
      <4>2. /\ device'["drum"] = device["drum"] /\ device'["beat"] = device["beat"]
            /\ device'["adtof"] = device["adtof"]
            /\ stage[r] = 1 => device'["ctc"] = device["ctc"]
            /\ stage[r] # 1 => device'["sw"] = device["sw"]
            /\ LET m == IF stage[r] = 1 THEN "sw" ELSE "ctc"
               IN  device'[m] = IF device[m] = "unloaded" THEN "cuda" ELSE device[m]
        BY <2>1, <4>1
      <4>3. ASSUME Attached(r)' PROVE Attached(r) /\ thread[r] # "none"
        BY <2>1, <4>3
      <4>4. device \in [Models -> {"unloaded", "cuda", "cpu"}] /\ stage'[r] = stage[r]
        BY <2>1
      <4>5. NobodyLeft' <=> NobodyLeft
        BY <2>1
      <4>6. QED BY <2>1, <2>2, <3>2, <4>1, <4>2, <4>3, <4>4, <4>5
    <3>3. QED BY <3>1, <3>2
  <2>3. CASE q # r
    <3>1. Attached(q) => pc[r] = "closed" /\ ~connected[r]
      <4>1. pc[r] \notin Early /\ pc[r] \in PCs
        BY <2>1
      <4>2. Attached(q) => pc[r] \notin Critical
        BY <2>3
      <4>3. pc[r] \in PCs \ (Early \cup Critical) => pc[r] = "closed"
        BY DEF PCs, Early, Critical
      <4>4. pc[r] = "closed" => ~connected[r]
        BY <2>1
      <4>5. QED BY <4>1, <4>2, <4>3, <4>4
    <3>2. Attached(q)' => Attached(q) /\ ~NobodyLeft'
      BY <2>1, <3>1
    <3>3. \A m \in Models : /\ device[m] # "cpu" => device'[m] # "cpu"
                           /\ device[m] = "cuda" => device'[m] = "cuda"
      BY <2>1
    <3>4. thread'[q] = thread[q]
      BY <2>1, <2>3
    <3>5. QED BY <2>1, <3>2, <3>3, <3>4
  <2>4. QED BY <2>2, <2>3
<1>18. ASSUME NEW r \in Requests, StageOk(r) PROVE DevicePhase(q)'
  <2>1. PICK t \in {"ready", "ended"} : thread' = [thread EXCEPT ![r] = t]
    BY <1>18 DEF StageOk, ThreadEnd
  <2>2. stage' = stage \/ (Kind[r] # "lyrics" /\ stage' = [stage EXCEPT ![r] = @ + 1])
    BY <1>18 DEF StageOk
  <2>3. QED BY <1>0, <1>18, <2>1, <2>2 DEF StageOk
<1>19. ASSUME NEW r \in Requests, StageFail(r) PROVE DevicePhase(q)'
  <2>1. thread' = [thread EXCEPT ![r] = "ended"]
    BY <1>19 DEF StageFail, ThreadEnd
  <2>2. QED BY <1>0, <1>19, <2>1 DEF StageFail
<1>20. ASSUME NEW r \in Requests, CancelPipeline(r) PROVE DevicePhase(q)'
  BY <1>20 DEF CancelPipeline, CloseStream, Release
<1>21. ASSUME NEW r \in Requests, CancelQueuedPipeline(r) PROVE DevicePhase(q)'
  BY <1>21 DEF CancelQueuedPipeline, Leave, Release
<1>22. ASSUME NEW r \in Requests, CancelSerial(r) PROVE DevicePhase(q)'
  BY <1>22 DEF CancelSerial
<1>23. ASSUME NEW r \in Requests, ExitPipeline(r) PROVE DevicePhase(q)'
  BY <1>23 DEF ExitPipeline, CloseStream, Release
<1>24. ASSUME NEW r \in Requests, StrandPipeline(r) PROVE DevicePhase(q)'
  BY <1>24 DEF StrandPipeline
<1>25. CASE UNCHANGED vars
  BY <1>25 DEF vars
<1>26. QED
  BY <1>1, <1>2, <1>3, <1>4, <1>5, <1>7, <1>8, <1>9, <1>10, <1>11, <1>12, <1>13, <1>14,
     <1>15, <1>16, <1>17, <1>18, <1>19, <1>20, <1>21, <1>22, <1>23, <1>24, <1>25
     DEF Next, LoopStep, ThreadStep, CancelStep

-----------------------------------------------------------------------------
(***************************************************************************)
(* Theorems.                                                               *)
(***************************************************************************)
\* The strengthening holds in every reachable state.
THEOREM StreamInvariance == Spec => []StreamInv
<1>1. Init => IInv
  BY KindAssumption, NoRequestAssumption
     DEF Init, IInv, Safe, TypeOK, MutualExclusion, ThreadInv, DisturbedInv,
         AttachedUndisturbed, Attached, PCs, Critical, Early, Models
<1>2. Init => Threads /\ Answers /\ Devices /\ OnlyModulesPark
  BY ProgramFacts DEF Init, Threads, ThreadPhase, Answers, QueuePhase, AnswerPhase, NoAnswer,
         AnswerLast, Devices, DevicePhase, OnlyModulesPark, Early
<1>3. StreamInv /\ [Next]_vars => StreamInv'
  <2>1. StreamInv => TypeOK /\ IInv
    BY DEF StreamInv, IInv
  <2>2. QED BY <2>1, TypeStep, SafeStep, ThreadsStep, AnswersStep, DevicesStep, ParksStep
           DEF StreamInv, IInv
<1>4. QED BY <1>1, <1>2, <1>3, PTL DEF Spec, StreamInv

\* A live stream's stage finds its model on CUDA, whichever requests ran before
\* it and wherever they left the models.
THEOREM StagesFindModels == Spec => []ResidentWhenUsed
<1>1. StreamInv => ResidentWhenUsed
  BY DEF StreamInv, Devices, DevicePhase, ResidentWhenUsed
<1>2. QED BY <1>1, StreamInvariance, PTL

\* With no abandoned thread about, the aligner shares the GPU with no model but
\* the sessions of an ONNX build's separators.
THEOREM AlignerAlone == Spec => []AlignerHasGpu
<1>1. StreamInv => AlignerHasGpu
  <2> SUFFICES ASSUME StreamInv, NEW r \in Requests, Attached(r), thread[r] = "stage",
                      Uses(r) = "ctc", NobodyLeft
               PROVE  \A m \in Models \ {"ctc"} : OffCuda(m)
    BY DEF AlignerHasGpu, AlignerRuns, NobodyLeft, OffCuda
  <2>1. stage[r] \in 1..Len(Program(r)) /\ stage[r] \in Nat
    BY DEF StreamInv, Threads, ThreadPhase, IInv, TypeOK
  <2>2. Kind[r] = "lyrics"
    BY <2>1, ProgramFacts DEF Uses, NoModel
  <2>3. stage[r] = 2
    <3>1. stage[r] \in 1..2 /\ Program(r)[1] = "sw"
      BY <2>1, <2>2, ProgramFacts DEF Serial
    <3>2. QED BY <3>1 DEF Uses
  <2>4. \A m \in {"sw", "drum", "beat", "adtof"} : OffCuda(m)
    BY <2>2, <2>3 DEF StreamInv, Devices, DevicePhase
  <2>5. QED BY <2>4 DEF Models
<1>2. QED BY <1>1, StreamInvariance, PTL

\* A client that stays gets one terminal envelope, and nothing after it.
THEOREM AnswersOnce == Spec => []OneTerminalLast
<1>1. StreamInv => OneTerminalLast
  BY DEF StreamInv, Answers, AnswerPhase, Answered, AnswerLast, OneTerminalLast
<1>2. QED BY <1>1, StreamInvariance, PTL

\* A stream whose client stayed to the end leaves no work dir.
THEOREM WorkDirGone == Spec => []WorkDirRemoved
<1>1. StreamInv => WorkDirRemoved
  BY DEF StreamInv, Answers, AnswerPhase, WorkDirRemoved
<1>2. QED BY <1>1, StreamInvariance, PTL

-----------------------------------------------------------------------------
(***************************************************************************)
(* The streams take only steps of SerialService.                           *)
(***************************************************************************)
\* A stream that moves changes its phase for its clients, and no other's.
LEMMA GotoPhase ==
    ASSUME TypeOK, NEW r \in Requests, NEW l \in PCs, Goto(r, l)
    PROVE  [q \in Requests |-> PhaseAt(pc[q])]' =
               [[q \in Requests |-> PhaseAt(pc[q])] EXCEPT ![r] = PhaseAt(l)]
BY DEF TypeOK, Goto

\* What an envelope adds to the streams that have their answer.
LEMMA SendAnswer ==
    ASSUME TypeOK, NEW r \in Requests, NEW e \in Envelopes, Send(r, e)
    PROVE  Answerers' = IF e \in Terminal THEN Answerers \cup {r} ELSE Answerers
<1>1. sent[r] \in Seq(Envelopes) /\ sent' = [sent EXCEPT ![r] = Append(sent[r], e)]
  BY DEF TypeOK, Send
<1>2. sent'[r] = Append(sent[r], e) /\ \A q \in Requests : q # r => sent'[q] = sent[q]
  BY <1>1 DEF TypeOK
<1>3. /\ Len(sent[r]) \in Nat /\ Len(sent'[r]) = Len(sent[r]) + 1
      /\ sent'[r][Len(sent[r]) + 1] = e
      /\ \A i \in 1..Len(sent[r]) : sent'[r][i] = sent[r][i]
  BY <1>1, <1>2, AppendProperties
<1>4. (\E i \in 1..Len(sent'[r]) : sent'[r][i] \in Terminal) <=>
      (e \in Terminal \/ \E i \in 1..Len(sent[r]) : sent[r][i] \in Terminal)
  <2> DEFINE n == Len(sent[r])
             s == sent[r]
             t == sent'[r]
  <2>1. /\ n \in Nat /\ Len(t) = n + 1 /\ t[n + 1] = e
        /\ \A i \in 1..n : t[i] = s[i]
    BY <1>3
  <2> HIDE DEF n, s, t
  <2>2. n + 1 \in 1..Len(t) /\ 1..n \subseteq 1..Len(t)
    BY <2>1
  <2>3. \A i \in 1..Len(t) : i \in 1..n \/ i = n + 1
    BY <2>1
  <2>4. (\E i \in 1..Len(t) : t[i] \in Terminal) <=>
        (e \in Terminal \/ \E i \in 1..n : s[i] \in Terminal)
    BY <2>1, <2>2, <2>3
  <2>5. QED BY <2>4 DEF n, s, t
<1>5. QED BY <1>2, <1>4 DEF Answerers

\* Every step of the streams is a step of the serial service, or none.
LEMMA ServiceStep == StreamInv /\ [Next]_vars => [Service!Step]_(Service!svars)
<1> SUFFICES ASSUME StreamInv, [Next]_vars PROVE [Service!Step]_(Service!svars)
  OBVIOUS
<1> DEFINE ph == [q \in Requests |-> PhaseAt(pc[q])]
           Stutter == holder' = holder /\ ph' = ph /\ Answerers' = Answerers
           Takes(r) == Service!Submit(r) \/ Service!Grant(r) \/ Service!Answer(r)
                          \/ Service!Finish(r) \/ Service!Lose(r) \/ Service!Withdraw(r)
<1>0. /\ TypeOK
      /\ \A r \in Requests : /\ pc[r] \in Critical <=> holder = r
                             /\ QueuePhase(r) /\ AnswerPhase(r) /\ ThreadPhase(r)
                             /\ NoAnswer(r) <=> r \notin Answerers
  BY DEF StreamInv, IInv, Safe, MutualExclusion, Answers, Threads, NoAnswer, Answerers
<1>a. sent' = sent => Answerers' = Answerers
  BY DEF Answerers
<1>b. pc' = pc => ph' = ph
  OBVIOUS
<1>c. ASSUME NEW r \in Requests, NEW l \in PCs, Goto(r, l)
      PROVE  /\ ph' = [ph EXCEPT ![r] = PhaseAt(l)] /\ ph[r] = PhaseAt(pc[r])
             /\ PhaseAt(l) = PhaseAt(pc[r]) => ph' = ph
  <2>1. ph' = [ph EXCEPT ![r] = PhaseAt(l)] /\ ph[r] = PhaseAt(pc[r])
    BY <1>0, <1>c, GotoPhase
  <2>2. PhaseAt(l) = ph[r] => [ph EXCEPT ![r] = PhaseAt(l)] = ph
    OBVIOUS
  <2>3. QED BY <2>1, <2>2
<1>d. /\ PhaseAt("idle") = "absent" /\ PhaseAt("closed") = "gone"
      /\ \A l \in {"arrived", "queued", "waiting"} : PhaseAt(l) = "pending"
      /\ \A l \in Critical \ {"stranded"} : PhaseAt(l) = "served"
      /\ PhaseAt("stranded") = "lost"
  BY DEF PhaseAt, Critical
<1>e. {"arrived", "queued", "waiting", "closed"} \cup Critical \subseteq PCs
  BY DEF PCs
<1> HIDE DEF ph
<1> USE DEF Service!Submit, Service!Grant, Service!Answer, Service!Finish, Service!Lose,
        Service!Withdraw
<1>1. ASSUME NEW r \in Requests, Arrive(r) PROVE Service!Submit(r)
  BY <1>1, <1>0, <1>a, <1>c, <1>d, <1>e DEF Arrive, lockVars, ph
<1>2. ASSUME NEW r \in Requests, CachedAnswer(r) PROVE Service!Withdraw(r)
  <2>1. Answerers' = Answerers \cup {r}
    BY <1>0, <1>2, SendAnswer DEF CachedAnswer, Envelopes, Terminal
  <2>2. QED BY <1>2, <1>c, <1>d, <1>e, <2>1 DEF CachedAnswer, lockVars, ph
<1>3. ASSUME NEW r \in Requests, Disconnect(r) \/ WatchDisconnect(r) \/ ThreadStep(r)
                                  \/ JobAlign(r)
      PROVE  Stutter
  BY <1>3, <1>a, <1>b DEF Disconnect, WatchDisconnect, ThreadStep, StageSkip, StageStart,
                          StageOk, StageFail, JobAlign, lockVars
<1>4. ASSUME NEW r \in Requests, AnnounceQueued(r) PROVE Stutter
  <2>1. Answerers' = Answerers
    BY <1>0, <1>4, SendAnswer DEF AnnounceQueued, Envelopes, Terminal
  <2>2. QED BY <1>4, <1>c, <1>d, <1>e, <2>1 DEF AnnounceQueued, lockVars
<1>5. ASSUME NEW r \in Requests, Enter(r), holder = NoRequest,
             pc[r] \in {"arrived", "queued", "waiting"}
      PROVE  Service!Grant(r)
  <2>1. Answerers' = Answerers
    BY <1>0, <1>5, <1>a, SendAnswer DEF Enter, Envelopes, Terminal
  <2>2. \E l \in {"pump", "granted"} : Goto(r, l)
    BY <1>5 DEF Enter
  <2>3. ph' = [ph EXCEPT ![r] = "served"] /\ ph[r] = "pending"
    BY <1>5, <1>c, <1>d, <1>e, <2>2 DEF Critical
  <2>4. QED BY <1>5, <2>1, <2>3 DEF Enter, ph
<1>6. ASSUME NEW r \in Requests, Acquire(r) PROVE Service!Grant(r) \/ Stutter
  <2>1. CASE LockFree /\ Enter(r)
    BY <1>5, <1>6, <2>1 DEF Acquire, LockFree
  <2>2. CASE Wait(r)
    BY <1>6, <1>a, <1>c, <1>d, <1>e, <2>2 DEF Acquire, Wait
  <2>3. QED BY <1>6, <2>1, <2>2 DEF Acquire
<1>7. ASSUME NEW r \in Requests, Wake(r) PROVE Service!Grant(r)
  BY <1>5, <1>7 DEF Wake
<1>8. ASSUME NEW r \in Requests, Pump(r) PROVE Service!Answer(r) \/ Stutter
  <2>0. ph[r] = "served"
    BY <1>8, <1>d DEF Pump, Critical, ph
  <2>1. pc[r] = "pump" /\ holder = r /\ UNCHANGED <<pc, holder>>
    BY <1>0, <1>8 DEF Pump, Critical, lockVars
  <2>2. ph' = ph
    BY <1>b, <2>1
  <2>3. CASE Head(queue[r]) = "error"
    <3>1. Send(r, "error")
      BY <1>8, <2>3 DEF Pump, Forwarded, Send
    <3>2. r \notin Answerers
      BY <1>0, <1>8, <2>3, ErrorIsFirst
    <3>3. Answerers' = Answerers \cup {r}
      BY <1>0, <3>1, SendAnswer DEF Envelopes, Terminal
    <3>4. QED BY <2>0, <2>1, <2>2, <3>2, <3>3 DEF ph
  <2>4. CASE Head(queue[r]) = "stage"
    <3>1. Send(r, "stage")
      BY <1>8, <2>4 DEF Pump, Forwarded, Send
    <3>2. Answerers' = Answerers
      BY <1>0, <3>1, SendAnswer DEF Envelopes, Terminal
    <3>3. QED BY <2>1, <2>2, <3>2
  <2>5. CASE Head(queue[r]) \notin {"error", "stage"}
    BY <1>8, <1>a, <2>1, <2>2, <2>5 DEF Pump, Forwarded
  <2>6. QED BY <2>3, <2>4, <2>5
<1>9. ASSUME NEW r \in Requests, pc[r] \in Critical \ {"stranded"},
             CloseStream(r) \/ UnwindSerial(r)
      PROVE  /\ holder = r /\ holder' = NoRequest
             /\ ph[r] = "served" /\ ph' = [ph EXCEPT ![r] = "gone"]
  BY <1>0, <1>9, <1>c, <1>d, <1>e DEF CloseStream, UnwindSerial, Leave, Release
<1>10. ASSUME NEW r \in Requests, PumpEnd(r) PROVE Service!Finish(r)
  <2>1. /\ holder = r /\ holder' = NoRequest
        /\ ph[r] = "served" /\ ph' = [ph EXCEPT ![r] = "gone"]
    BY <1>9, <1>10 DEF PumpEnd, Critical
  <2>2. CASE seen[r] = "ok"
    <3>1. r \notin Answerers
      BY <1>0, <1>10, <2>2, PumpEndAnswers DEF ReportTaken
    <3>2. PICK e \in {"result", "error"} : Send(r, e)
      BY <1>10, <2>2 DEF PumpEnd
    <3>3. Answerers' = Answerers \cup {r}
      BY <1>0, <3>2, SendAnswer DEF Envelopes, Terminal
    <3>4. QED BY <2>1, <3>1, <3>3 DEF ph
  <2>3. CASE seen[r] # "ok"
    BY <1>10, <1>a, <2>1, <2>3 DEF PumpEnd, ph
  <2>4. QED BY <2>2, <2>3
<1>11. ASSUME NEW r \in Requests, JobStart(r) PROVE Stutter
  BY <1>11, <1>a, <1>c, <1>d, <1>e DEF JobStart, lockVars, Critical
<1>12. ASSUME NEW r \in Requests, JobAnswer(r) PROVE Service!Answer(r)
  <2>1. holder = r /\ r \notin Answerers /\ ph[r] = "served"
    BY <1>0, <1>12, <1>d DEF JobAnswer, Critical, AnswerPhase, ph
  <2>2. PICK e \in {"result", "error"} : Send(r, e)
    BY <1>12 DEF JobAnswer
  <2>3. Answerers' = Answerers \cup {r}
    BY <1>0, <2>2, SendAnswer DEF Envelopes, Terminal
  <2>4. ph' = ph /\ UNCHANGED holder
    BY <1>12, <1>c, <1>d, <1>e DEF JobAnswer, lockVars, Critical
  <2>5. QED BY <2>1, <2>3, <2>4 DEF ph
<1>13. ASSUME NEW r \in Requests, JobClose(r) \/ UnwindSerial(r) \/ CancelPipeline(r)
                                   \/ ExitPipeline(r)
       PROVE  Service!Finish(r)
  <2>1. /\ pc[r] \in Critical \ {"stranded"} /\ sent' = sent
        /\ CloseStream(r) \/ UnwindSerial(r)
    BY <1>13 DEF JobClose, UnwindSerial, CancelPipeline, ExitPipeline, Critical
  <2>2. QED BY <1>9, <1>a, <2>1 DEF ph
<1>14. ASSUME NEW r \in Requests, CancelQueuedPipeline(r) PROVE Service!Withdraw(r)
  <2>1. holder' = holder
    BY <1>0, <1>14 DEF CancelQueuedPipeline, Leave, Release, Critical
  <2>2. QED BY <1>14, <1>a, <1>c, <1>d, <1>e, <2>1 DEF CancelQueuedPipeline, ph
<1>15. ASSUME NEW r \in Requests, CancelSerial(r) PROVE Service!Withdraw(r) \/ Stutter
  <2>1. CASE holder = r
    <3>1. /\ pc[r] \in Critical \ {"stranded"} /\ Goto(r, "closing")
          /\ UNCHANGED <<holder, sent>>
      BY <1>0, <1>15, <2>1 DEF CancelSerial
    <3>2. QED BY <1>a, <1>c, <1>d, <1>e, <3>1 DEF Critical
  <2>2. CASE holder # r
    <3>1. /\ pc[r] \in {"queued", "waiting"} /\ Goto(r, "closed")
          /\ UNCHANGED <<holder, sent>>
      BY <1>0, <1>15, <2>2 DEF CancelSerial, Critical
    <3>2. QED BY <1>a, <1>c, <1>d, <1>e, <3>1 DEF ph
  <2>3. QED BY <2>1, <2>2
<1>16. ASSUME NEW r \in Requests, StrandPipeline(r) PROVE Service!Lose(r)
  <2>1. holder = r /\ ph[r] = "served" /\ UNCHANGED <<holder, sent>>
    BY <1>0, <1>16, <1>d DEF StrandPipeline, lockVars, Critical, ph
  <2>2. ph' = [ph EXCEPT ![r] = "lost"]
    BY <1>16, <1>c, <1>d, <1>e DEF StrandPipeline, Critical
  <2>3. QED BY <1>a, <2>1, <2>2 DEF ph
<1>17. CASE UNCHANGED vars
  BY <1>17, <1>a, <1>b DEF vars, lockVars, Service!svars, ph
<1>18. ASSUME NEW r \in Requests, \/ Arrive(r) \/ CachedAnswer(r) \/ Disconnect(r)
                                  \/ WatchDisconnect(r) \/ LoopStep(r) \/ ThreadStep(r)
                                  \/ CancelStep(r)
       PROVE  [Service!Step]_(Service!svars)
  <2>1. Takes(r) \/ Stutter
    BY <1>1, <1>2, <1>3, <1>4, <1>6, <1>7, <1>8, <1>10, <1>11, <1>12, <1>13, <1>14, <1>15,
       <1>16, <1>18 DEF LoopStep, CancelStep
  <2>2. QED BY <2>1 DEF Service!Step, Service!svars, ph
<1>19. QED BY <1>17, <1>18 DEF Next

\* Whatever the clients and the threads do, the streams serve one client at a
\* time and answer it at most once, from inside or from the cache.
THEOREM StreamsServe == Spec => ImplementsService
<1>1. Init => Service!Start
  <2> SUFFICES ASSUME Init PROVE Service!Start
    OBVIOUS
  <2>1. [r \in Requests |-> PhaseAt(pc[r])] = [r \in Requests |-> "absent"]
    <3>1. PhaseAt("idle") = "absent"
      BY DEF PhaseAt, Critical
    <3>2. \A r \in Requests : pc[r] = "idle"
      BY DEF Init
    <3>3. QED BY <3>1, <3>2
  <2>2. \A r \in Requests : ~\E i \in 1..Len(sent[r]) : sent[r][i] \in Terminal
    BY DEF Init
  <2>3. Answerers = {}
    BY <2>2 DEF Answerers
  <2>4. QED BY <2>1, <2>3 DEF Init, Service!Start
<1>2. QED BY <1>1, ServiceStep, StreamInvariance, PTL DEF Spec, ImplementsService, Service!ServiceSpec
=============================================================================
