---------------------- MODULE CapabilityInstall_proofs ----------------------
(***************************************************************************)
(* For every set of capabilities and every prerequisite relation on them,  *)
(* any number of callers and installs: installs exclude each other, what   *)
(* is recorded is complete, and the gate answers as the disk says.         *)
(***************************************************************************)
EXTENDS CapabilityInstall, SequenceTheorems, TLAPS

(***************************************************************************)
(* The strengthening: what an install under way has reached, and that      *)
(* nothing the webview holds is ahead of the disk.                         *)
(***************************************************************************)
Running(i) == chain[i].phase \in {"sync", "provision", "persist"}

\* An install under way knows what it lacks, and nothing lacks more than that.
Progress(i) ==
    Running(i) =>
        /\ MyTurn(i)
        /\ chain[i].left \subseteq chain[i].fresh
        /\ chain[i].fresh \subseteq chain[i].groups
        /\ \A c \in chain[i].fresh : Requires[c] \subseteq chain[i].fresh \cup disk
        /\ chain[i].fresh \ chain[i].left \subseteq disk
        /\ chain[i].phase = "persist" => chain[i].groups \subseteq weights

\* ... and, while the store is in step, keeps everything recorded.
Keeps(i) ==
    ~torn /\ Running(i) =>
        /\ boot = "landed"
        /\ disk \subseteq chain[i].groups
        /\ disk \subseteq Ready \cup (chain[i].fresh \ chain[i].left)
        /\ chain[i].phase # "sync" => chain[i].groups \subseteq venv

Progresses == \A i \in DOMAIN chain : Progress(i)
Keeping == \A i \in DOMAIN chain : Keeps(i)

\* Everything the webview takes for installed is recorded.
Behind == /\ Ready \subseteq disk /\ snapshot \subseteq disk
          /\ \A w \in Waiters : read[w] \subseteq disk

\* In step: an idle store knows of everything recorded.
InStep == ~torn =>
    /\ boot = "read" => disk \subseteq snapshot
    /\ boot = "landed" /\ (\A i \in DOMAIN chain : ~Running(i)) => disk \subseteq Ready

IInv == /\ TypeOK /\ Progresses /\ Keeping /\ Behind /\ InStep
        /\ RecordedHasWeights /\ RecordedIsClosed
        /\ GrantedIsRecorded /\ NoWaiterForgotten /\ VenvKeepsInstalledInStep

-----------------------------------------------------------------------------
(***************************************************************************)
(* Prerequisites, and the queue of installs.                               *)
(***************************************************************************)
\* The closure has what it is asked for, and every prerequisite of its own.
LEMMA ClosureFacts ==
    ASSUME NEW ids \in SUBSET Capabilities
    PROVE  closure(ids) \subseteq Capabilities /\ Closed(closure(ids))
<1>1. closure(ids) \subseteq Capabilities
  BY DEF closure
<1>2. ASSUME NEW c \in closure(ids), NEW d \in Requires[c]
      PROVE  d \in closure(ids)
  <2>1. c \in Capabilities /\ d \in Capabilities
    BY <1>1, <1>2, RequiresAssumption
  <2>2. ASSUME NEW T \in SUBSET Capabilities, ids \subseteq T, Closed(T)
        PROVE  d \in T
    <3>1. c \in T
      BY <1>2, <2>2 DEF closure
    <3>2. QED BY <3>1, <1>2, <2>2 DEF Closed
  <2>3. QED BY <2>1, <2>2 DEF closure
<1>3. QED BY <1>1, <1>2 DEF Closed

\* Replacing one install leaves the others, and the queue's length, alone.
LEMMA ChainUpdate ==
    ASSUME chain \in Seq(Installs), NEW i \in DOMAIN chain, NEW x \in Installs,
           chain' = [chain EXCEPT ![i] = x]
    PROVE  /\ chain' \in Seq(Installs) /\ Len(chain') = Len(chain)
           /\ DOMAIN chain' = DOMAIN chain /\ chain'[i] = x
           /\ \A k \in DOMAIN chain : k # i => chain'[k] = chain[k]
<1>1. chain' \in [1..Len(chain) -> Installs] /\ Len(chain) \in Nat
  OBVIOUS
<1>2. QED BY <1>1

\* An install that has ended takes nobody else's turn.
LEMMA EndedType ==
    \A w \in Waiters \cup {NoWaiter}, ids \in SUBSET Capabilities :
        /\ Install({}, NoWaiter, "done") \in Installs
        /\ Install(ids, w, "queued") \in Installs
BY DEF Install, Installs, Phases

\* At most one install is under way, and those before it are done.
LEMMA OneRuns ==
    ASSUME IInv, NEW i \in DOMAIN chain, Running(i) \/ MyTurn(i)
    PROVE  /\ \A k \in 1..i - 1 : chain[k].phase = "done"
           /\ \A k \in DOMAIN chain : Running(k) /\ Running(i) => k = i
           /\ chain[i].phase # "done" => \A k \in DOMAIN chain : k # i => ~Running(k)
<1>1. \A k \in DOMAIN chain : Running(k) => MyTurn(k)
  BY DEF IInv, Progresses, Progress
<1>2. chain \in Seq(Installs) /\ DOMAIN chain = 1..Len(chain) /\ Len(chain) \in Nat
  BY DEF IInv, TypeOK
<1>3. MyTurn(i)
  BY <1>1
<1>4. ASSUME NEW k \in DOMAIN chain, k # i, chain[i].phase # "done" PROVE ~Running(k)
  <2>1. CASE k < i
    BY <1>2, <1>3, <2>1 DEF MyTurn, Running
  <2>2. CASE k > i
    BY <1>1, <1>2, <1>4, <2>2 DEF MyTurn
  <2>3. QED BY <1>2, <1>4, <2>1, <2>2
<1>5. QED BY <1>3, <1>4 DEF MyTurn, Running

-----------------------------------------------------------------------------
(***************************************************************************)
(* Type correctness: one step per action of Next.                          *)
(***************************************************************************)
LEMMA MarkType ==
    ASSUME TypeOK, NEW S, NEW s \in {"not-installed", "installing", "ready", "error"}
    PROVE  Mark(S, s) \in [Capabilities -> {"not-installed", "installing", "ready", "error"}]
BY DEF TypeOK, Mark

\* Every step keeps the types: one case per action of Next.
LEMMA TypeStep == TypeOK /\ [Next]_vars => TypeOK'
<1> SUFFICES ASSUME TypeOK, [Next]_vars PROVE TypeOK'
  OBVIOUS
<1> USE BoundsAssumption, NoneAssumption DEF TypeOK, Answers, gateVars, bootVars, hostVars
<1>1. CASE RefreshStep
  BY <1>1, MarkType DEF RefreshStep, RefreshReads, RefreshFails, RefreshLands
<1>2. ASSUME NEW w \in Waiters, NEW c \in Gated, Request(w, c) PROVE TypeOK'
  BY <1>2, GatedAssumption DEF Request
<1>3. ASSUME NEW w \in Waiters, RequestStep(w) PROVE TypeOK'
  <2>1. CASE SyncReads(w)
    BY <2>1 DEF SyncReads
  <2>2. CASE SyncInstalledFromDisk(w)
    BY <2>2, MarkType DEF SyncInstalledFromDisk
  <2>3. CASE SyncRejects(w)
    BY <2>3 DEF SyncRejects
  <2>4. CASE OpenGate(w)
    BY <2>4 DEF OpenGate
  <2>5. CASE ConfirmResumes(w)
    <3>1. /\ waiter' \in [Waiters -> {"idle", "checking", "checked", "space", "prompting",
                                      "confirmed", "installed"} \cup Answers]
          /\ pendingGate' \in Capabilities \cup {NoCapability}
          /\ gateResolve' \in Waiters \cup {NoWaiter}
      BY <2>5 DEF ConfirmResumes, Granted, Rearmed
    <3>2. QED BY <2>5, <3>1 DEF ConfirmResumes
  <2>6. QED BY <1>3, <2>1, <2>2, <2>3, <2>4, <2>5 DEF RequestStep
<1>4. ASSUME NEW ids \in SUBSET Capabilities, NEW w \in Waiters \cup {NoWaiter}, Enqueue(ids, w)
      PROVE  chain' \in Seq(Installs) /\ Len(chain') <= MaxInstalls
  <2>1. Install(ids, w, "queued") \in Installs
    BY EndedType
  <2>2. QED BY <1>4, <2>1, AppendProperties DEF Enqueue
<1>5. CASE ConfirmGate
  <2>1. gateResolve \in Waiters /\ pendingGate \in Capabilities
    BY <1>5 DEF ConfirmGate, PromptEnabled
  <2>2. chain' \in Seq(Installs) /\ Len(chain') <= MaxInstalls
    BY <1>4, <1>5, <2>1 DEF ConfirmGate
  <2>3. QED BY <1>5, <2>1, <2>2 DEF ConfirmGate
<1>6. CASE CancelGate
  BY <1>6 DEF CancelGate
<1>7. ASSUME NEW ids \in Selections, InstallAll(ids) PROVE TypeOK'
  <2>1. chain' \in Seq(Installs) /\ Len(chain') <= MaxInstalls
    BY <1>4, <1>7, SelectionsAssumption DEF InstallAll
  <2>2. QED BY <1>7, <2>1 DEF InstallAll
<1>8. ASSUME NEW i \in DOMAIN chain, InstallStep(i) PROVE TypeOK'
  <2>1. chain[i] \in Installs
    OBVIOUS
  <2>2. ASSUME NEW x \in Installs, chain' = [chain EXCEPT ![i] = x]
        PROVE  chain' \in Seq(Installs) /\ Len(chain') <= MaxInstalls
    BY <2>2, ChainUpdate
  <2>3. ASSUME chain' = Ended(i) PROVE chain' \in Seq(Installs) /\ Len(chain') <= MaxInstalls
    BY <2>2, <2>3, EndedType DEF Ended
  <2>4. ASSUME waiter' = Notified(i)
        PROVE  waiter' \in [Waiters -> {"idle", "checking", "checked", "space", "prompting",
                                        "confirmed", "installed"} \cup Answers]
    BY <2>4 DEF Notified
  <2>5. CASE StartInstall(i)
    <3> DEFINE fresh == closure(chain[i].ids) \ Ready
    <3>1. CASE fresh = {}
      BY <2>3, <2>4, <2>5, <3>1 DEF StartInstall
    <3>2. CASE fresh # {}
      <4> DEFINE x == [chain[i] EXCEPT !.phase = "sync", !.fresh = fresh, !.left = fresh,
                                       !.groups = installGroups(chain[i].ids)]
      <4>1. /\ chain' = [chain EXCEPT ![i] = x]
            /\ statuses' = Mark(fresh, "installing") /\ torn' = (torn \/ boot # "landed")
            /\ UNCHANGED <<waiter, pendingGate, gateResolve, asked, read, bootVars,
                           hostVars, restarts>>
        BY <2>5, <3>2 DEF StartInstall
      <4>2. fresh \in SUBSET Capabilities /\ installGroups(chain[i].ids) \in SUBSET Capabilities
        BY DEF installGroups, closure, Ready
      <4>3. x \in Installs
        BY <2>1, <4>2 DEF Installs, Phases
      <4>4. chain' \in Seq(Installs) /\ Len(chain') <= MaxInstalls
        BY <2>2, <4>1, <4>3
      <4> HIDE DEF x, fresh
      <4>5. QED BY <4>1, <4>4, MarkType
    <3>3. QED BY <3>1, <3>2
  <2>6. ASSUME NEW to \in Phases, NEW from, NextPhase(i, from, to)
        PROVE  chain' \in Seq(Installs) /\ Len(chain') <= MaxInstalls
    <3>1. [chain[i] EXCEPT !.phase = to] \in Installs
      BY <2>1 DEF Installs
    <3>2. chain' = [chain EXCEPT ![i] = [chain[i] EXCEPT !.phase = to]]
      BY <2>6 DEF NextPhase
    <3>3. QED BY <2>2, <3>1, <3>2
  <2>7. CASE UvSync(i)
    BY <2>1, <2>6, <2>7 DEF UvSync, Installs, Phases
  <2>8. CASE ProvisionModels(i)
    BY <2>1, <2>6, <2>8 DEF ProvisionModels, Installs, Phases
  <2>9. ASSUME NEW c \in Capabilities, SetCapabilityInstalled(i, c) PROVE TypeOK'
    <3>1. [chain[i] EXCEPT !.left = @ \ {c}] \in Installs
      BY <2>1 DEF Installs
    <3>2. chain' = [chain EXCEPT ![i] = [chain[i] EXCEPT !.left = @ \ {c}]]
      BY <2>9 DEF SetCapabilityInstalled
    <3>3. chain' \in Seq(Installs) /\ Len(chain') <= MaxInstalls
      BY <2>2, <3>1, <3>2
    <3>4. QED BY <2>9, <3>3 DEF SetCapabilityInstalled
  <2>10. CASE InstallSucceeds(i)
    BY <2>3, <2>4, <2>10, MarkType DEF InstallSucceeds
  <2>11. CASE InstallFails(i)
    BY <2>3, <2>4, <2>11, MarkType DEF InstallFails
  <2>12. QED BY <1>8, <2>5, <2>7, <2>8, <2>9, <2>10, <2>11 DEF InstallStep
<1>9. CASE Restart
  <2>1. venv' \subseteq Capabilities
    <3>1. ASSUME NEW i \in DOMAIN chain PROVE chain[i].groups \subseteq Capabilities
      <4>1. chain[i] \in Installs
        OBVIOUS
      <4>2. QED BY <4>1 DEF Installs
    <3>2. QED BY <1>9, <3>1 DEF Restart
  <2>2. QED BY <1>9, <2>1 DEF Restart, NewSession
<1>10. CASE UNCHANGED vars
  BY <1>10 DEF vars
<1>11. QED
  BY <1>1, <1>2, <1>3, <1>5, <1>6, <1>7, <1>8, <1>9, <1>10 DEF Next

-----------------------------------------------------------------------------
(***************************************************************************)
(* What each kind of step does to the queue.                               *)
(***************************************************************************)
\* The steps of the gate, the picker and the boot refresh only lengthen it.
WebviewStep ==
    \/ RefreshStep
    \/ \E w \in Waiters : RequestStep(w) \/ \E c \in Gated : Request(w, c)
    \/ ConfirmGate \/ CancelGate
    \/ \E ids \in Selections : InstallAll(ids)

\* The webview's steps queue installs, and change none that is queued.
LEMMA WebviewFacts ==
    ASSUME TypeOK, WebviewStep
    PROVE  /\ DOMAIN chain \subseteq DOMAIN chain'
           /\ \A k \in DOMAIN chain : chain'[k] = chain[k]
           /\ \A k \in DOMAIN chain' : k \notin DOMAIN chain => chain'[k].phase = "queued"
           /\ UNCHANGED <<disk, venv, weights, torn, restarts>>
<1>1. ASSUME NEW ids, NEW w, Enqueue(ids, w)
      PROVE  /\ DOMAIN chain \subseteq DOMAIN chain'
             /\ \A k \in DOMAIN chain : chain'[k] = chain[k]
             /\ \A k \in DOMAIN chain' : k \notin DOMAIN chain => chain'[k].phase = "queued"
  <2>1. chain' = Append(chain, Install(ids, w, "queued")) /\ chain \in Seq(Installs)
    BY <1>1 DEF Enqueue, TypeOK
  <2>2. /\ DOMAIN chain = 1..Len(chain) /\ DOMAIN chain' = 1..Len(chain) + 1
        /\ Len(chain) \in Nat
        /\ chain'[Len(chain) + 1] = Install(ids, w, "queued")
        /\ \A k \in 1..Len(chain) : chain'[k] = chain[k]
    BY <2>1
  <2>3. Install(ids, w, "queued").phase = "queued"
    BY DEF Install
  <2>4. QED BY <2>2, <2>3
<1> USE DEF hostVars
<1>2. CASE RefreshStep
  BY <1>2 DEF RefreshStep, RefreshReads, RefreshFails, RefreshLands
<1>3. ASSUME NEW w \in Waiters, RequestStep(w) \/ \E c \in Gated : Request(w, c)
      PROVE  UNCHANGED <<chain, disk, venv, weights, torn, restarts>>
  BY <1>3 DEF RequestStep, SyncReads, SyncInstalledFromDisk, SyncRejects, OpenGate,
              ConfirmResumes, Request
<1>4. CASE ConfirmGate
  BY <1>1, <1>4 DEF ConfirmGate
<1>5. CASE CancelGate
  BY <1>5 DEF CancelGate
<1>6. ASSUME NEW ids \in Selections, InstallAll(ids)
      PROVE  Enqueue(ids, NoWaiter) /\ UNCHANGED <<disk, venv, weights, torn, restarts>>
  BY <1>6 DEF InstallAll
<1>7. QED BY <1>1, <1>2, <1>3, <1>4, <1>5, <1>6 DEF WebviewStep

\* The steps of an install, as what they do to its record.
Others(i) == /\ DOMAIN chain' = DOMAIN chain
             /\ \A k \in DOMAIN chain : k # i => chain'[k] = chain[k]

Starts(i) ==
    LET fresh == closure(chain[i].ids) \ Ready IN
    /\ chain[i].phase = "queued" /\ MyTurn(i) /\ chain'[i].phase = "sync"
    /\ chain'[i].fresh = fresh /\ chain'[i].left = fresh
    /\ chain'[i].groups = installGroups(chain[i].ids)
    /\ statuses' = Mark(fresh, "installing")
    /\ torn' = (torn \/ boot # "landed")
    /\ UNCHANGED <<waiter, disk, venv, weights>>

Advances(i) ==
    /\ \/ /\ chain[i].phase = "sync" /\ chain'[i].phase = "provision"
          /\ venv' = chain[i].groups /\ UNCHANGED weights
       \/ /\ chain[i].phase = "provision" /\ chain'[i].phase = "persist"
          /\ weights' = weights \cup chain[i].groups /\ UNCHANGED venv
    /\ chain'[i].fresh = chain[i].fresh /\ chain'[i].left = chain[i].left
    /\ chain'[i].groups = chain[i].groups
    /\ UNCHANGED <<statuses, waiter, disk, torn>>

Records(i, c) ==
    /\ chain[i].phase = "persist" /\ chain'[i].phase = "persist"
    /\ c \in chain[i].left /\ PrerequisitesRecorded(i, c)
    /\ chain'[i].fresh = chain[i].fresh /\ chain'[i].left = chain[i].left \ {c}
    /\ chain'[i].groups = chain[i].groups
    /\ disk' = disk \cup {c}
    /\ UNCHANGED <<statuses, waiter, venv, weights, torn>>

Ends(i) ==
    /\ chain'[i].phase = "done" /\ waiter' = Notified(i)
    /\ \/ chain[i].phase = "queued" /\ MyTurn(i) /\ UNCHANGED <<statuses, torn>>
       \/ /\ chain[i].phase = "persist" /\ chain[i].left = {}
          /\ statuses' = Mark(chain[i].fresh, "ready") /\ UNCHANGED torn
       \/ /\ Running(i) /\ statuses' = Mark(chain[i].fresh, "error")
          /\ torn' = (torn \/ ~(disk \subseteq Ready \ chain[i].fresh))
    /\ UNCHANGED <<disk, venv, weights>>

\* An install starts, advances, records one capability or ends, alone.
LEMMA InstallFacts ==
    ASSUME TypeOK, NEW i \in DOMAIN chain, InstallStep(i)
    PROVE  /\ Others(i)
           /\ Starts(i) \/ Advances(i) \/ (\E c \in Capabilities : Records(i, c)) \/ Ends(i)
           /\ UNCHANGED <<pendingGate, gateResolve, asked, read, boot, snapshot, restarts>>
<1> USE DEF gateVars, bootVars, hostVars
<1>1. chain[i] \in Installs /\ chain \in Seq(Installs)
  BY DEF TypeOK
<1>2. ASSUME NEW x \in Installs, chain' = [chain EXCEPT ![i] = x]
      PROVE  Others(i) /\ chain'[i] = x
  BY <1>1, <1>2, ChainUpdate DEF Others
<1>3. ASSUME chain' = Ended(i) PROVE Others(i) /\ chain'[i].phase = "done"
  <2>1. Install({}, NoWaiter, "done").phase = "done"
    BY DEF Install
  <2>2. QED BY <1>2, <1>3, <2>1, EndedType DEF Ended
<1>4. CASE StartInstall(i)
  <2> DEFINE fresh == closure(chain[i].ids) \ Ready
  <2>1. CASE fresh = {}
    BY <1>3, <1>4, <2>1 DEF StartInstall, Ends
  <2>2. CASE fresh # {}
    <3> DEFINE x == [chain[i] EXCEPT !.phase = "sync", !.fresh = fresh, !.left = fresh,
                                     !.groups = installGroups(chain[i].ids)]
    <3>1. /\ chain' = [chain EXCEPT ![i] = x]
          /\ chain[i].phase = "queued" /\ MyTurn(i)
          /\ statuses' = Mark(fresh, "installing") /\ torn' = (torn \/ boot # "landed")
          /\ UNCHANGED <<waiter, pendingGate, gateResolve, asked, read, bootVars,
                         hostVars, restarts>>
      BY <1>4, <2>2 DEF StartInstall
    <3>2. fresh \in SUBSET Capabilities /\ installGroups(chain[i].ids) \in SUBSET Capabilities
      BY DEF installGroups, closure, Ready
    <3>3. /\ x \in Installs /\ x.phase = "sync" /\ x.fresh = fresh /\ x.left = fresh
          /\ x.groups = installGroups(chain[i].ids)
      BY <1>1, <3>2 DEF Installs, Phases
    <3>4. Others(i) /\ chain'[i] = x
      BY <1>2, <3>1, <3>3
    <3>5. Starts(i)
      BY <3>1, <3>3, <3>4 DEF Starts
    <3>6. QED BY <3>1, <3>4, <3>5
  <2>3. QED BY <2>1, <2>2
<1>5. ASSUME NEW from, NEW to \in Phases, NextPhase(i, from, to)
      PROVE  /\ Others(i) /\ chain[i].phase = from /\ chain'[i].phase = to
             /\ chain'[i].fresh = chain[i].fresh /\ chain'[i].left = chain[i].left
             /\ chain'[i].groups = chain[i].groups
  <2> DEFINE x == [chain[i] EXCEPT !.phase = to]
  <2>1. /\ x \in Installs /\ x.phase = to /\ x.fresh = chain[i].fresh
        /\ x.left = chain[i].left /\ x.groups = chain[i].groups
    BY <1>1 DEF Installs
  <2>2. chain' = [chain EXCEPT ![i] = x] /\ chain[i].phase = from
    BY <1>5 DEF NextPhase
  <2> HIDE DEF x
  <2>3. QED BY <1>2, <2>1, <2>2
<1>6. CASE UvSync(i) \/ ProvisionModels(i)
  BY <1>5, <1>6 DEF UvSync, ProvisionModels, Phases, Advances
<1>7. ASSUME NEW c \in Capabilities, SetCapabilityInstalled(i, c)
      PROVE  /\ Others(i) /\ Records(i, c)
             /\ UNCHANGED <<pendingGate, gateResolve, asked, read, boot, snapshot, restarts>>
  <2> DEFINE x == [chain[i] EXCEPT !.left = @ \ {c}]
  <2>1. /\ x \in Installs /\ x.phase = chain[i].phase /\ x.fresh = chain[i].fresh
        /\ x.left = chain[i].left \ {c} /\ x.groups = chain[i].groups
    BY <1>1 DEF Installs
  <2>2. chain' = [chain EXCEPT ![i] = x]
    BY <1>7 DEF SetCapabilityInstalled
  <2> HIDE DEF x
  <2>3. Others(i) /\ chain'[i] = x
    BY <1>2, <2>1, <2>2
  <2>4. QED BY <1>7, <2>1, <2>3 DEF SetCapabilityInstalled, Records
<1>8. CASE InstallSucceeds(i) \/ InstallFails(i)
  BY <1>3, <1>8 DEF InstallSucceeds, InstallFails, Ends, Running
<1>9. QED BY <1>4, <1>6, <1>7, <1>8 DEF InstallStep

-----------------------------------------------------------------------------
(***************************************************************************)
(* Installs under way.                                                     *)
(***************************************************************************)
\* An install that no step touches, on a disk that only grows.
LEMMA ProgressKept ==
    ASSUME IInv, NEW k \in DOMAIN chain, chain'[k] = chain[k],
           \A j \in DOMAIN chain : chain[j].phase = "done" => chain'[j].phase = "done",
           disk \subseteq disk', weights \subseteq weights'
    PROVE  Progress(k)'
<1>1. Progress(k) /\ chain \in Seq(Installs) /\ Len(chain) \in Nat /\ DOMAIN chain = 1..Len(chain)
  BY DEF IInv, Progresses, TypeOK
<1>2. MyTurn(k) => MyTurn(k)'
  BY <1>1 DEF MyTurn
<1>3. QED BY <1>1, <1>2 DEF Progress, Running

\* Every install's progress is kept: by its own steps and by those of others.
LEMMA ProgressStep == IInv /\ [Next]_vars => Progresses'
<1> SUFFICES ASSUME IInv, [Next]_vars PROVE Progresses'
  OBVIOUS
<1>0. /\ TypeOK /\ \A k \in DOMAIN chain : Progress(k)
      /\ chain \in Seq(Installs) /\ Len(chain) \in Nat /\ DOMAIN chain = 1..Len(chain)
  BY DEF IInv, Progresses, TypeOK
<1>1. CASE WebviewStep
  <2>1. ASSUME NEW k \in DOMAIN chain' PROVE Progress(k)'
    <3>1. CASE k \in DOMAIN chain
      BY <1>0, <1>1, <3>1, WebviewFacts, ProgressKept
    <3>2. CASE k \notin DOMAIN chain
      BY <1>0, <1>1, <3>2, WebviewFacts DEF Progress, Running
    <3>3. QED BY <3>1, <3>2
  <2>2. QED BY <2>1 DEF Progresses
<1>2. ASSUME NEW i \in DOMAIN chain, InstallStep(i) PROVE Progresses'
  <2>1. /\ Others(i)
        /\ Starts(i) \/ Advances(i) \/ (\E c \in Capabilities : Records(i, c)) \/ Ends(i)
    BY <1>0, <1>2, InstallFacts
  <2>2. disk \subseteq disk' /\ weights \subseteq weights'
    BY <2>1 DEF Starts, Advances, Records, Ends
  <2>3. \A j \in DOMAIN chain : chain[j].phase = "done" => chain'[j].phase = "done"
    BY <2>1 DEF Others, Starts, Advances, Records, Ends
  <2>4. MyTurn(i) => MyTurn(i)'
    BY <1>0, <2>3 DEF MyTurn
  <2>5. ASSUME NEW k \in DOMAIN chain, k # i PROVE Progress(k)'
    BY <2>1, <2>2, <2>3, <2>5, ProgressKept DEF Others
  <2>6. ASSUME Starts(i) PROVE Progress(i)'
    <3>1. /\ chain[i].ids \in SUBSET Capabilities
          /\ Requires \in [Capabilities -> SUBSET Capabilities]
      <4>1. chain[i] \in Installs
        BY <1>0
      <4>2. QED BY <4>1, RequiresAssumption DEF Installs
    <3>2. /\ closure(chain[i].ids) \subseteq Capabilities
          /\ \A c \in closure(chain[i].ids) : Requires[c] \subseteq closure(chain[i].ids)
      BY <3>1, ClosureFacts DEF Closed
    <3>3. Ready \subseteq disk
      BY DEF IInv, Behind
    <3>4. QED BY <2>4, <2>6, <3>2, <3>3 DEF Starts, Progress, Running, installGroups
  <2>7. ASSUME Advances(i) PROVE Progress(i)'
    BY <1>0, <2>4, <2>7 DEF Advances, Progress, Running
  <2>8. ASSUME NEW c \in Capabilities, Records(i, c) PROVE Progress(i)'
    <3>1. /\ Progress(i) /\ Running(i) /\ chain'[i].phase = "persist" /\ disk' = disk \cup {c}
          /\ chain'[i].fresh = chain[i].fresh /\ chain'[i].left = chain[i].left \ {c}
          /\ chain'[i].groups = chain[i].groups /\ weights' = weights
          /\ chain[i].phase = "persist"
      BY <1>0, <2>8 DEF Records, Running
    <3>2. QED BY <2>4, <3>1 DEF Progress
  <2>9. ASSUME Ends(i) PROVE Progress(i)'
    BY <2>9 DEF Ends, Progress, Running
  <2>10. QED BY <2>1, <2>5, <2>6, <2>7, <2>8, <2>9 DEF Others, Progresses
<1>3. CASE Restart
  BY <1>3 DEF Restart, Progresses
<1>4. CASE UNCHANGED vars
  BY <1>0, <1>4, ProgressKept DEF vars, hostVars, Progresses
<1>5. QED BY <1>1, <1>2, <1>3, <1>4 DEF Next, WebviewStep

-----------------------------------------------------------------------------
(***************************************************************************)
(* What is recorded, and what the webview takes for recorded.              *)
(***************************************************************************)
LEMMA ReadyMark ==
    ASSUME TypeOK, NEW S \in SUBSET Capabilities, NEW s, statuses' = Mark(S, s)
    PROVE  Ready' = IF s = "ready" THEN Ready \cup S ELSE Ready \ S
BY DEF TypeOK, Mark, Ready

\* What the webview learns comes from the disk, and it takes nothing back.
LEMMA WebviewReady ==
    ASSUME TypeOK, WebviewStep
    PROVE  /\ Ready \subseteq Ready'
           /\ \A c \in Ready' : c \in Ready \cup snapshot \/ \E w \in Waiters : c \in read[w]
           /\ snapshot' \subseteq snapshot \cup disk
           /\ \A w \in Waiters : read'[w] \subseteq read[w] \cup disk
           /\ boot = "landed" => boot' = "landed"
           /\ boot' = "read" => (boot = "read" /\ snapshot' = snapshot) \/ snapshot' = disk
           /\ boot' = "landed" => boot = "landed" \/ (boot = "read" /\ snapshot \subseteq Ready')
<1> USE DEF gateVars, bootVars, hostVars
<1>0. statuses' = statuses => Ready' = Ready
  BY DEF Ready
<1>1. CASE RefreshReads \/ RefreshFails
  BY <1>0, <1>1 DEF RefreshReads, RefreshFails
<1>2. CASE RefreshLands
  <2>1. Ready' = Ready \cup snapshot
    BY <1>2, ReadyMark DEF RefreshLands, TypeOK
  <2>2. QED BY <1>2, <2>1 DEF RefreshLands
<1>3. ASSUME NEW w \in Waiters, SyncInstalledFromDisk(w)
      PROVE  /\ Ready' = Ready \cup read[w] /\ UNCHANGED <<boot, snapshot>>
             /\ \A v \in Waiters : read'[v] \subseteq read[v]
  <2>1. Ready' = Ready \cup read[w]
    BY <1>3, ReadyMark DEF SyncInstalledFromDisk, TypeOK
  <2>2. QED BY <1>3, <2>1 DEF SyncInstalledFromDisk, TypeOK
<1>4. ASSUME NEW w \in Waiters, SyncReads(w)
      PROVE  /\ UNCHANGED <<statuses, boot, snapshot>>
             /\ \A v \in Waiters : read'[v] \subseteq read[v] \cup disk
  BY <1>4 DEF SyncReads, TypeOK
<1>5. ASSUME NEW w \in Waiters,
             \/ SyncRejects(w) \/ OpenGate(w) \/ ConfirmResumes(w)
             \/ \E c \in Gated : Request(w, c)
      PROVE  UNCHANGED <<statuses, boot, snapshot, read>>
  BY <1>5 DEF SyncRejects, OpenGate, ConfirmResumes, Request
<1>6. CASE ConfirmGate \/ CancelGate \/ \E ids \in Selections : InstallAll(ids)
  BY <1>0, <1>6 DEF ConfirmGate, CancelGate, InstallAll
<1>7. CASE \E w \in Waiters : RequestStep(w) \/ \E c \in Gated : Request(w, c)
  <2> PICK w \in Waiters : RequestStep(w) \/ \E c \in Gated : Request(w, c)
    BY <1>7
  <2>1. CASE SyncInstalledFromDisk(w)
    BY <1>3, <2>1
  <2>2. CASE ~SyncInstalledFromDisk(w)
    BY <1>0, <1>4, <1>5, <2>2 DEF RequestStep
  <2>3. QED BY <2>1, <2>2
<1>8. QED BY <1>1, <1>2, <1>6, <1>7 DEF WebviewStep, RefreshStep

\* Sets of capabilities stay so in every record of the queue.
LEMMA RecordTypes ==
    ASSUME TypeOK, NEW i \in DOMAIN chain
    PROVE  /\ chain[i].ids \subseteq Capabilities /\ chain[i].fresh \subseteq Capabilities
           /\ chain[i].left \subseteq Capabilities /\ chain[i].groups \subseteq Capabilities
           /\ closure(chain[i].ids) \ Ready \in SUBSET Capabilities
<1>1. chain[i] \in Installs
  BY DEF TypeOK
<1>2. QED BY <1>1 DEF Installs, closure

\* What is recorded has its weights and prerequisites after every step, too.
LEMMA RecordStep ==
    IInv /\ [Next]_vars => RecordedHasWeights' /\ RecordedIsClosed' /\ Behind'
<1> SUFFICES ASSUME IInv, [Next]_vars
             PROVE  RecordedHasWeights' /\ RecordedIsClosed' /\ Behind'
  OBVIOUS
<1> USE DEF RecordedHasWeights, RecordedIsClosed, Closed, Behind
<1>0. /\ TypeOK /\ RecordedHasWeights /\ RecordedIsClosed /\ Behind
      /\ \A k \in DOMAIN chain : Progress(k)
  BY DEF IInv, Progresses
<1>1. CASE WebviewStep
  BY <1>0, <1>1, WebviewFacts, WebviewReady
<1>2. ASSUME NEW i \in DOMAIN chain, InstallStep(i)
      PROVE  RecordedHasWeights' /\ RecordedIsClosed' /\ Behind'
  <2>1. /\ Starts(i) \/ Advances(i) \/ (\E c \in Capabilities : Records(i, c)) \/ Ends(i)
        /\ UNCHANGED <<read, snapshot>>
    BY <1>0, <1>2, InstallFacts
  <2>2. CASE Starts(i)
    <3>1. Ready' \subseteq Ready
      BY <1>0, <2>2, RecordTypes, ReadyMark DEF Starts
    <3>2. QED BY <1>0, <2>1, <2>2, <3>1 DEF Starts
  <2>3. CASE Advances(i)
    BY <1>0, <2>1, <2>3 DEF Advances, Ready
  <2>4. ASSUME NEW c \in Capabilities, Records(i, c)
        PROVE  RecordedHasWeights' /\ RecordedIsClosed' /\ Behind'
    <3>1. /\ chain[i].phase = "persist" /\ c \in chain[i].left
          /\ Requires[c] \cap chain[i].left = {}
          /\ disk' = disk \cup {c} /\ UNCHANGED <<statuses, weights>>
      BY <2>4 DEF Records, PrerequisitesRecorded
    <3>2. c \in weights /\ Requires[c] \subseteq disk
      BY <1>0, <3>1 DEF Progress, Running
    <3>3. Ready' = Ready
      BY <3>1 DEF Ready
    <3>4. QED BY <1>0, <2>1, <3>1, <3>2, <3>3
  <2>5. CASE Ends(i)
    <3>1. Ready' \subseteq disk
      <4>1. CASE UNCHANGED statuses
        BY <1>0, <4>1 DEF Ready
      <4>2. CASE statuses' = Mark(chain[i].fresh, "error")
        BY <1>0, <4>2, RecordTypes, ReadyMark
      <4>3. CASE chain[i].phase = "persist" /\ chain[i].left = {}
                 /\ statuses' = Mark(chain[i].fresh, "ready")
        <5>1. chain[i].fresh \subseteq disk
          BY <1>0, <4>3 DEF Progress, Running
        <5>2. QED BY <1>0, <4>3, <5>1, RecordTypes, ReadyMark
      <4>4. QED BY <2>5, <4>1, <4>2, <4>3 DEF Ends
    <3>2. QED BY <1>0, <2>1, <2>5, <3>1 DEF Ends
  <2>6. QED BY <2>1, <2>2, <2>3, <2>4, <2>5
<1>3. CASE Restart
  BY <1>0, <1>3 DEF Restart, NewSession, Ready
<1>4. CASE UNCHANGED vars
  BY <1>0, <1>4 DEF vars, gateVars, bootVars, hostVars, Ready
<1>5. QED BY <1>1, <1>2, <1>3, <1>4 DEF Next, WebviewStep

-----------------------------------------------------------------------------
(***************************************************************************)
(* The gate.                                                               *)
(***************************************************************************)
LEMMA GateStep == IInv /\ [Next]_vars => GrantedIsRecorded' /\ NoWaiterForgotten'
<1> SUFFICES ASSUME IInv, [Next]_vars PROVE GrantedIsRecorded' /\ NoWaiterForgotten'
  OBVIOUS
<1> USE DEF GrantedIsRecorded, NoWaiterForgotten, gateVars, bootVars, hostVars
<1>0. TypeOK /\ GrantedIsRecorded /\ NoWaiterForgotten /\ Behind
  BY DEF IInv
<1>1. CASE RefreshStep
  BY <1>0, <1>1 DEF RefreshStep, RefreshReads, RefreshFails, RefreshLands
<1>2. ASSUME NEW w \in Waiters, NEW c \in Gated, Request(w, c)
      PROVE  GrantedIsRecorded' /\ NoWaiterForgotten'
  BY <1>0, <1>2 DEF Request, At, TypeOK, Behind
<1>3. ASSUME NEW w \in Waiters, RequestStep(w)
      PROVE  GrantedIsRecorded' /\ NoWaiterForgotten'
  <2>1. CASE SyncReads(w) \/ SyncRejects(w)
    BY <1>0, <2>1 DEF SyncReads, SyncRejects, TypeOK
  <2>2. CASE SyncInstalledFromDisk(w)
    BY <1>0, <2>2 DEF SyncInstalledFromDisk, TypeOK, Behind
  <2>3. CASE OpenGate(w)
    BY <1>0, <2>3 DEF OpenGate, TypeOK
  <2>4. CASE ConfirmResumes(w)
    <3>1. CASE Granted(w)
      BY <1>0, <2>4, <3>1 DEF ConfirmResumes, Granted, TypeOK, Behind
    <3>2. CASE Rearmed(w)
      BY <1>0, <2>4, <3>2, NoneAssumption DEF ConfirmResumes, Rearmed, TypeOK
    <3>3. QED BY <2>4, <3>1, <3>2 DEF ConfirmResumes
  <2>5. QED BY <1>3, <2>1, <2>2, <2>3, <2>4 DEF RequestStep
<1>4. CASE ConfirmGate
  BY <1>0, <1>4, NoneAssumption DEF ConfirmGate, TypeOK
<1>5. CASE CancelGate
  BY <1>0, <1>5 DEF CancelGate, TypeOK
<1>6. CASE \E ids \in Selections : InstallAll(ids)
  BY <1>0, <1>6 DEF InstallAll
<1>7. ASSUME NEW i \in DOMAIN chain, InstallStep(i)
      PROVE  GrantedIsRecorded' /\ NoWaiterForgotten'
  <2>1. /\ waiter' = waiter \/ waiter' = Notified(i)
        /\ disk \subseteq disk' /\ UNCHANGED <<asked, gateResolve>>
    BY <1>0, <1>7, InstallFacts DEF Starts, Advances, Records, Ends
  <2>2. QED BY <1>0, <2>1 DEF Notified, TypeOK
<1>8. CASE Restart
  BY <1>8 DEF Restart, NewSession
<1>9. CASE UNCHANGED vars
  BY <1>0, <1>9 DEF vars
<1>10. QED
  BY <1>1, <1>2, <1>3, <1>4, <1>5, <1>6, <1>7, <1>8, <1>9 DEF Next

-----------------------------------------------------------------------------
(***************************************************************************)
(* The venv keeps what is recorded, while the store is in step.            *)
(***************************************************************************)
LEMMA KeepStep == IInv /\ [Next]_vars => Keeping' /\ InStep' /\ VenvKeepsInstalledInStep'
<1> SUFFICES ASSUME IInv, [Next]_vars PROVE Keeping' /\ InStep' /\ VenvKeepsInstalledInStep'
  OBVIOUS
<1> USE DEF VenvKeepsInstalledInStep
<1>0. /\ TypeOK /\ InStep /\ VenvKeepsInstalledInStep
      /\ \A k \in DOMAIN chain : Progress(k) /\ Keeps(k)
  BY DEF IInv, Progresses, Keeping
<1>1. CASE WebviewStep
  <2>1. /\ DOMAIN chain \subseteq DOMAIN chain' /\ \A k \in DOMAIN chain : chain'[k] = chain[k]
        /\ \A k \in DOMAIN chain' : k \notin DOMAIN chain => chain'[k].phase = "queued"
        /\ UNCHANGED <<disk, venv, torn>>
    BY <1>0, <1>1, WebviewFacts
  <2>2. /\ Ready \subseteq Ready' /\ (boot = "landed" => boot' = "landed")
        /\ boot' = "read" => (boot = "read" /\ snapshot' = snapshot) \/ snapshot' = disk
        /\ boot' = "landed" => boot = "landed" \/ (boot = "read" /\ snapshot \subseteq Ready')
    BY <1>0, <1>1, WebviewReady
  <2>3. ASSUME NEW k \in DOMAIN chain' PROVE Keeps(k)'
    BY <1>0, <2>1, <2>2 DEF Keeps, Running
  <2>4. InStep'
    <3>1. (\A k \in DOMAIN chain' : ~Running(k)') => \A k \in DOMAIN chain : ~Running(k)
      BY <2>1 DEF Running
    <3>2. QED BY <1>0, <2>1, <2>2, <3>1 DEF InStep
  <2>5. QED BY <1>0, <2>1, <2>3, <2>4 DEF Keeping
<1>2. ASSUME NEW i \in DOMAIN chain, InstallStep(i)
      PROVE  Keeping' /\ InStep' /\ VenvKeepsInstalledInStep'
  <2>1. /\ Others(i)
        /\ Starts(i) \/ Advances(i) \/ (\E c \in Capabilities : Records(i, c)) \/ Ends(i)
        /\ UNCHANGED <<boot, snapshot>>
    BY <1>0, <1>2, InstallFacts
  <2>2. chain[i].phase # "done" /\ (Running(i) \/ MyTurn(i))
    BY <2>1 DEF Starts, Advances, Records, Ends, Running
  <2>3. \A k \in DOMAIN chain : k # i => ~Running(k)
    BY <2>2, OneRuns
  <2>4. \A k \in DOMAIN chain : k # i => ~Running(k)'
    BY <2>1, <2>3 DEF Others, Running
  <2>5. Keeps(i)' => Keeping'
    BY <2>1, <2>4 DEF Others, Keeping, Keeps
  <2>6. CASE Starts(i)
    <3>1. Ready' = Ready /\ Running(i)'
      <4> DEFINE fresh == closure(chain[i].ids) \ Ready
      <4>1. fresh \in SUBSET Capabilities /\ fresh \cap Ready = {}
        BY <1>0, RecordTypes
      <4>2. statuses' = Mark(fresh, "installing") /\ Running(i)'
        BY <2>6 DEF Starts, Running
      <4> HIDE DEF fresh
      <4>3. Ready' = Ready \ fresh
        BY <1>0, <4>1, <4>2, ReadyMark
      <4>4. QED BY <4>1, <4>2, <4>3
    <3>2. ~Running(i)
      BY <2>6 DEF Starts, Running
    <3>3. ~torn' => ~torn /\ boot = "landed" /\ disk \subseteq Ready
      BY <1>0, <2>3, <2>6, <3>2 DEF Starts, InStep
    <3>4. Keeps(i)'
      BY <2>1, <2>6, <3>1, <3>3 DEF Starts, Keeps, installGroups
    <3>5. InStep'
      BY <2>1, <3>1, <3>3 DEF Others, InStep
    <3>6. QED BY <1>0, <2>5, <2>6, <3>3, <3>4, <3>5 DEF Starts
  <2>7. CASE Advances(i)
    <3>1. Running(i) /\ Running(i)' /\ Ready' = Ready
      BY <2>7 DEF Advances, Running, Ready
    <3>2. Keeps(i)'
      BY <1>0, <2>1, <2>7, <3>1 DEF Advances, Keeps
    <3>3. InStep'
      BY <1>0, <2>1, <2>7, <3>1 DEF Advances, Others, InStep, Keeps
    <3>4. VenvKeepsInstalledInStep'
      BY <1>0, <2>7, <3>1 DEF Advances, Keeps
    <3>5. QED BY <2>5, <3>2, <3>3, <3>4
  <2>8. ASSUME NEW c \in Capabilities, Records(i, c)
        PROVE  Keeping' /\ InStep' /\ VenvKeepsInstalledInStep'
    <3>1. Running(i) /\ Running(i)' /\ Ready' = Ready
      BY <2>8 DEF Records, Running, Ready
    <3>2. c \in chain[i].groups /\ c \in chain[i].fresh
      BY <1>0, <2>8, <3>1 DEF Records, Progress
    <3>3. Keeps(i)'
      BY <1>0, <2>1, <2>8, <3>1, <3>2 DEF Records, Keeps
    <3>4. InStep'
      BY <1>0, <2>1, <2>8, <3>1 DEF Records, Others, InStep, Keeps
    <3>5. VenvKeepsInstalledInStep'
      BY <1>0, <2>8, <3>1, <3>2 DEF Records, Keeps
    <3>6. QED BY <2>5, <3>3, <3>4, <3>5
  <2>9. CASE Ends(i)
    <3>1. ~Running(i)' /\ UNCHANGED <<disk, venv>> /\ (~torn' => ~torn)
      <4>1. ~Running(i)' /\ UNCHANGED <<disk, venv>>
        BY <2>9 DEF Ends, Running
      <4>2. torn' = torn \/ torn' = (torn \/ ~(disk \subseteq Ready \ chain[i].fresh))
        BY <2>9 DEF Ends
      <4>3. QED BY <1>0, <4>1, <4>2 DEF TypeOK
    <3>2. ~torn' /\ boot = "landed" => disk \subseteq Ready'
      <4>1. CASE chain[i].phase = "queued" /\ UNCHANGED <<statuses, torn>>
        <5>1. ~Running(i) /\ Ready' = Ready
          BY <4>1 DEF Running, Ready
        <5>2. QED BY <1>0, <2>3, <4>1, <5>1 DEF InStep
      <4>2. CASE /\ chain[i].phase = "persist" /\ chain[i].left = {}
                 /\ statuses' = Mark(chain[i].fresh, "ready") /\ UNCHANGED torn
        <5>1. Running(i) /\ Ready' = Ready \cup chain[i].fresh
          BY <1>0, <4>2, RecordTypes, ReadyMark DEF Running
        <5>2. QED BY <1>0, <4>2, <5>1 DEF Keeps
      <4>3. CASE /\ statuses' = Mark(chain[i].fresh, "error")
                 /\ torn' = (torn \/ ~(disk \subseteq Ready \ chain[i].fresh))
        BY <1>0, <4>3, RecordTypes, ReadyMark
      <4>4. QED BY <2>9, <4>1, <4>2, <4>3 DEF Ends
    <3>3. ~torn' /\ boot = "read" => disk \subseteq snapshot
      BY <1>0, <3>1 DEF InStep
    <3>4. InStep'
      BY <2>1, <3>1, <3>2, <3>3 DEF InStep
    <3>5. QED BY <1>0, <2>5, <3>1, <3>4 DEF Keeps
  <2>10. QED BY <2>1, <2>6, <2>7, <2>8, <2>9
<1>3. CASE Restart
  <2>1. \A k \in DOMAIN chain : ~torn /\ chain[k].phase = "sync" => disk \subseteq chain[k].groups
    BY <1>0 DEF Keeps, Running
  <2>2. chain' = <<>> /\ boot' = "reading" /\ UNCHANGED <<disk, torn>>
    BY <1>3 DEF Restart
  <2>3. VenvKeepsInstalledInStep'
    BY <1>0, <1>3, <2>1, <2>2 DEF Restart
  <2>4. QED BY <2>2, <2>3 DEF Keeping, InStep
<1>4. CASE UNCHANGED vars
  BY <1>0, <1>4 DEF vars, gateVars, bootVars, hostVars, Keeping, Keeps, InStep, Running, Ready
<1>5. QED BY <1>1, <1>2, <1>3, <1>4 DEF Next, WebviewStep

-----------------------------------------------------------------------------
(***************************************************************************)
(* Theorems.                                                               *)
(***************************************************************************)
\* The strengthening holds in every reachable state, across any number of
\* restarts.
THEOREM Invariance == Spec => []IInv
<1>1. Init => IInv
  <2> SUFFICES ASSUME Init PROVE IInv
    OBVIOUS
  <2>1. /\ statuses = [c \in Capabilities |-> "not-installed"]
        /\ waiter = [w \in Waiters |-> "idle"]
        /\ asked = [w \in Waiters |-> NoCapability]
        /\ read = [w \in Waiters |-> {}]
    BY DEF Init, NewSession
  <2>2. chain \in Seq(Installs) /\ Len(chain) = 0 /\ DOMAIN chain = {}
    BY DEF Init
  <2>3. TypeOK
    <3>1. /\ pendingGate = NoCapability /\ gateResolve = NoWaiter
          /\ boot = "reading" /\ snapshot = {}
          /\ disk = {} /\ venv = {} /\ weights = {} /\ torn = FALSE /\ restarts = 0
      BY DEF Init
    <3>2. /\ restarts \in 0..MaxRestarts /\ Len(chain) <= MaxInstalls
      BY <2>2, <3>1, BoundsAssumption
    <3>3. /\ statuses \in [Capabilities -> {"not-installed", "installing", "ready", "error"}]
          /\ waiter \in [Waiters -> {"idle", "checking", "checked", "space", "prompting",
                                     "confirmed", "installed"} \cup Answers]
          /\ asked \in [Waiters -> Capabilities \cup {NoCapability}]
          /\ read \in [Waiters -> SUBSET Capabilities]
      BY <2>1
    <3>4. QED BY <2>2, <3>1, <3>2, <3>3 DEF TypeOK
  <2>4. Progresses /\ Keeping
    BY <2>2 DEF Progresses, Keeping
  <2>5. Ready = {}
    BY <2>1 DEF Ready
  <2>6. Behind /\ InStep
    BY <2>1, <2>5 DEF Init, Behind, InStep
  <2>7. GrantedIsRecorded /\ NoWaiterForgotten
    BY <2>1 DEF GrantedIsRecorded, NoWaiterForgotten
  <2>8. RecordedHasWeights /\ RecordedIsClosed /\ VenvKeepsInstalledInStep
    BY DEF Init, RecordedHasWeights, RecordedIsClosed, Closed, VenvKeepsInstalledInStep
  <2>9. QED BY <2>3, <2>4, <2>6, <2>7, <2>8 DEF IInv
<1>2. IInv /\ [Next]_vars => IInv'
  <2>1. IInv => TypeOK
    BY DEF IInv
  <2>2. QED BY <2>1, TypeStep, ProgressStep, RecordStep, GateStep, KeepStep DEF IInv
<1>3. QED BY <1>1, <1>2, PTL DEF Spec

\* The store, the gate and the install queue have the shapes the code gives them.
THEOREM TypeCorrect == Spec => []TypeOK
<1>1. IInv => TypeOK
  BY DEF IInv
<1>2. QED BY <1>1, Invariance, PTL

\* Two uv syncs, or two rewrites of capabilities.json, never overlap.
THEOREM OneInstallRuns == Spec => []InstallsExclusive
<1>1. IInv => InstallsExclusive
  <2> SUFFICES ASSUME IInv, NEW i \in DOMAIN chain, NEW k \in DOMAIN chain,
                      Running(i), Running(k)
               PROVE  i = k
    BY DEF InstallsExclusive, Running
  <2>1. QED BY OneRuns
<1>2. QED BY <1>1, Invariance, PTL

\* A recorded capability has its weights, whatever failed or was killed.
THEOREM RecordedComplete == Spec => []RecordedHasWeights
<1>1. IInv => RecordedHasWeights
  BY DEF IInv
<1>2. QED BY <1>1, Invariance, PTL

\* A recorded capability has its prerequisites recorded before it.
THEOREM RecordedInOrder == Spec => []RecordedIsClosed
<1>1. IInv => RecordedIsClosed
  BY DEF IInv
<1>2. QED BY <1>1, Invariance, PTL

\* The gate lets a caller through only for a capability on disk.
THEOREM GrantsAreRecorded == Spec => []GrantedIsRecorded
<1>1. IInv => GrantedIsRecorded
  BY DEF IInv
<1>2. QED BY <1>1, Invariance, PTL

\* No waiting caller is overwritten by another one.
THEOREM PromptAnswersItsWaiter == Spec => []NoWaiterForgotten
<1>1. IInv => NoWaiterForgotten
  BY DEF IInv
<1>2. QED BY <1>1, Invariance, PTL

\* While every install began in step with the disk, the venv keeps everything.
THEOREM VenvKeepsRecorded == Spec => []VenvKeepsInstalledInStep
<1>1. IInv => VenvKeepsInstalledInStep
  BY DEF IInv
<1>2. QED BY <1>1, Invariance, PTL

\* The boot refresh takes no capability back.
THEOREM RefreshOnlyAdds == Spec => RefreshNeverDowngrades
<1> DEFINE Adds == \A c \in Capabilities :
               statuses[c] \in {"ready", "installing"} /\ statuses'[c] = "not-installed"
                   => restarts' # restarts
<1>1. TypeOK /\ [Next]_vars => [Adds]_vars
  <2> SUFFICES ASSUME TypeOK, Next, NEW c \in Capabilities,
                      statuses[c] \in {"ready", "installing"}, statuses'[c] = "not-installed"
               PROVE  restarts' # restarts
    BY DEF vars
  <2>1. \A S : \A s \in {"ready", "installing", "error"} : Mark(S, s)[c] # "not-installed"
    BY DEF Mark
  <2>2. statuses' # statuses
    OBVIOUS
  <2>3. ~RefreshStep
    BY <2>1, <2>2 DEF RefreshStep, RefreshReads, RefreshFails, RefreshLands
  <2>4. ~\E w \in Waiters : RequestStep(w) \/ \E d \in Gated : Request(w, d)
    BY <2>1, <2>2 DEF RequestStep, SyncReads, SyncInstalledFromDisk, SyncRejects, OpenGate,
                      ConfirmResumes, Request
  <2>5. ~(ConfirmGate \/ CancelGate \/ \E ids \in Selections : InstallAll(ids))
    BY <2>2 DEF ConfirmGate, CancelGate, InstallAll
  <2>6. ~\E i \in DOMAIN chain : InstallStep(i)
    BY <2>1, <2>2, InstallFacts DEF Starts, Advances, Records, Ends
  <2>7. Restart
    BY <2>3, <2>4, <2>5, <2>6 DEF Next
  <2>8. QED BY <2>7 DEF Restart, TypeOK
<1>2. QED BY <1>1, TypeCorrect, PTL DEF Spec, RefreshNeverDowngrades
=============================================================================
