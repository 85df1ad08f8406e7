-------------------------- MODULE CapabilityInstall --------------------------
(***************************************************************************)
(* Installing the desktop app's optional capabilities: the point-of-use    *)
(* gate, the install queue and the boot refresh of CapabilityPresenter     *)
(* (frontend/src/desktop/capability_presenter.ts), the buttons that drive  *)
(* it (capability_gate.tsx, capability_install.tsx) and the Rust commands  *)
(* behind it (src-tauri/src/capability.rs), which sync one shared venv and *)
(* keep one capabilities.json.                                             *)
(*                                                                         *)
(* The webview is single-threaded: an action runs from one await to the    *)
(* next.  The app may be killed and restarted between any two of them.     *)
(* Only capabilities of kind "deps" are modelled: no button installs or    *)
(* requests any other.                                                     *)
(***************************************************************************)
EXTENDS Naturals, Sequences

CONSTANTS
    Capabilities,   \* CAPABILITIES of kind "deps"
    Requires,       \* the prerequisites of each
    Waiters,        \* callers of requestCapability
    Gated,          \* the capabilities they ask for
    Selections,     \* the picks the capability picker may install
    MaxInstalls,    \* bound: installs queued in one session
    MaxRestarts,    \* bound: times the app is restarted
    NoCapability, NoWaiter

ASSUME RequiresAssumption == Requires \in [Capabilities -> SUBSET Capabilities]
ASSUME GatedAssumption == Gated \subseteq Capabilities
ASSUME SelectionsAssumption == Selections \subseteq (SUBSET Capabilities) \ {{}}
ASSUME BoundsAssumption == MaxInstalls \in Nat /\ MaxRestarts \in Nat
ASSUME NoneAssumption == NoCapability \notin Capabilities /\ NoWaiter \notin Waiters

VARIABLES
    statuses,     \* store.statuses
    pendingGate,  \* store.pendingGate: the capability the prompt is about
    gateResolve,  \* the waiter the prompt would answer
    waiter,       \* where each requestCapability call is, or its answer
    asked,        \* the capability it asked for
    read,         \* the capability states its syncInstalledFromDisk read
    chain,        \* installChain: every installAll of the session, in order
    boot,         \* where the boot refresh is
    snapshot,     \* the capability states it read
    disk,         \* capabilities.json: the capabilities recorded installed
    venv,         \* the capabilities whose groups the venv holds
    weights,      \* the capabilities whose models were downloaded
    torn,         \* an install began, or failed, with the store behind the disk
    restarts

gateVars == <<pendingGate, gateResolve, waiter, asked, read>>
bootVars == <<boot, snapshot>>
hostVars == <<disk, venv, weights>>
vars == <<statuses, gateVars, chain, bootVars, hostVars, torn, restarts>>

Answers == {"true", "false", "rejected"}
Phases == {"queued", "sync", "provision", "persist", "done"}

Installs == [ids : SUBSET Capabilities, by : Waiters \cup {NoWaiter}, phase : Phases,
             fresh : SUBSET Capabilities, groups : SUBSET Capabilities,
             left : SUBSET Capabilities]

TypeOK ==
    /\ statuses \in [Capabilities -> {"not-installed", "installing", "ready", "error"}]
    /\ pendingGate \in Capabilities \cup {NoCapability}
    /\ gateResolve \in Waiters \cup {NoWaiter}
    /\ waiter \in [Waiters -> {"idle", "checking", "checked", "space",
                               "prompting", "confirmed", "installed"} \cup Answers]
    /\ asked \in [Waiters -> Capabilities \cup {NoCapability}]
    /\ read \in [Waiters -> SUBSET Capabilities]
    /\ chain \in Seq(Installs) /\ Len(chain) <= MaxInstalls
    /\ boot \in {"reading", "read", "landed", "failed"}
    /\ snapshot \subseteq Capabilities
    /\ disk \subseteq Capabilities /\ venv \subseteq Capabilities
    /\ weights \subseteq Capabilities
    /\ torn \in BOOLEAN
    /\ restarts \in 0..MaxRestarts

Ready == {c \in Capabilities : statuses[c] = "ready"}

\* The prerequisite closure of ids: the least set that has them and is closed.
Closed(T) == \A c \in T : Requires[c] \subseteq T
closure(ids) ==
    {c \in Capabilities : \A T \in SUBSET Capabilities : ids \subseteq T /\ Closed(T) => c \in T}

\* Bug: the store keeps only the entries it has just set.
MutMark(S, status) == [c \in S |-> status]

Mark(S, status) == [c \in Capabilities |-> IF c \in S THEN status ELSE statuses[c]]

\* What desktopCapabilities() builds at every start of the app.
NewSession ==
    [statuses |-> [c \in Capabilities |-> "not-installed"],
     waiter   |-> [w \in Waiters |-> "idle"],
     asked    |-> [w \in Waiters |-> NoCapability],
     read     |-> [w \in Waiters |-> {}]]

Init ==
    /\ statuses = NewSession.statuses
    /\ waiter = NewSession.waiter
    /\ asked = NewSession.asked
    /\ read = NewSession.read
    /\ pendingGate = NoCapability /\ gateResolve = NoWaiter
    /\ chain = <<>>
    /\ boot = "reading" /\ snapshot = {}
    /\ disk = {} /\ venv = {} /\ weights = {}
    /\ torn = FALSE
    /\ restarts = 0

\* Bug: installs do not wait for each other.
MutMyTurn(i) == TRUE

\* next = installChain.then(...): an install starts when all before it ended.
MyTurn(i) == \A k \in 1..i - 1 : chain[k].phase = "done"

\* Promise callbacks run before the next event (a click, a reply of the host):
\* an install whose turn it is has started, a finished one has been noticed.
Settled ==
    /\ \A i \in DOMAIN chain : chain[i].phase = "queued" => ~MyTurn(i)
    /\ \A w \in Waiters : waiter[w] # "installed"

(***************************************************************************)
(* The boot refresh: capability_states is read while detectAccelerator may *)
(* still be probing, and lands in the store later.                         *)
(***************************************************************************)
RefreshReads ==
    /\ boot = "reading"
    /\ boot' = "read" /\ snapshot' = disk
    /\ UNCHANGED <<statuses, gateVars, chain, hostVars, torn, restarts>>

RefreshFails ==
    /\ Settled /\ boot \in {"reading", "read"}
    /\ boot' = "failed" /\ snapshot' = {}
    /\ UNCHANGED <<statuses, gateVars, chain, hostVars, torn, restarts>>

\* Bug: the boot snapshot is written as it is.
MutRefreshLands ==
    /\ Settled /\ boot = "read" /\ boot' = "landed" /\ snapshot' = {}
    /\ statuses' = [c \in Capabilities |->
                      IF c \in snapshot THEN "ready" ELSE "not-installed"]
    /\ UNCHANGED <<gateVars, chain, hostVars, torn, restarts>>

RefreshLands ==
    /\ Settled /\ boot = "read" /\ boot' = "landed" /\ snapshot' = {}
    /\ statuses' = Mark(snapshot, "ready")
    /\ UNCHANGED <<gateVars, chain, hostVars, torn, restarts>>

(***************************************************************************)
(* The gate                                                                *)
(***************************************************************************)
At(w, here) == waiter[w] = here

Request(w, c) ==
    /\ Settled /\ At(w, "idle")
    /\ asked' = [asked EXCEPT ![w] = c]
    /\ waiter' = [waiter EXCEPT ![w] = IF c \in Ready THEN "true" ELSE "checking"]
    /\ UNCHANGED <<statuses, pendingGate, gateResolve, read, chain, bootVars, hostVars,
                   torn, restarts>>

\* The host reads capabilities.json; the reply lands in the webview later.
SyncReads(w) ==
    /\ At(w, "checking")
    /\ waiter' = [waiter EXCEPT ![w] = "checked"]
    /\ read' = [read EXCEPT ![w] = disk]
    /\ UNCHANGED <<statuses, pendingGate, gateResolve, asked, chain, bootVars, hostVars,
                   torn, restarts>>

SyncInstalledFromDisk(w) ==
    /\ Settled /\ At(w, "checked")
    /\ statuses' = Mark(read[w], "ready")
    /\ waiter' = [waiter EXCEPT ![w] =
                    IF asked[w] \in Ready \cup read[w] THEN "true" ELSE "space"]
    /\ read' = [read EXCEPT ![w] = {}]
    /\ UNCHANGED <<pendingGate, gateResolve, asked, chain, bootVars, hostVars, torn, restarts>>

SyncRejects(w) ==
    /\ Settled /\ At(w, "checking")
    /\ waiter' = [waiter EXCEPT ![w] = "rejected"]
    /\ UNCHANGED <<statuses, pendingGate, gateResolve, asked, read, chain, bootVars, hostVars,
                   torn, restarts>>

\* A prompt that is already open is superseded: its waiter is answered false.
OpenGate(w) ==
    /\ Settled /\ At(w, "space")
    /\ waiter' = [v \in Waiters |-> IF v = w THEN "prompting"
                                    ELSE IF v = gateResolve THEN "false" ELSE waiter[v]]
    /\ gateResolve' = w /\ pendingGate' = asked[w]
    /\ UNCHANGED <<asked, read, statuses, chain, bootVars, hostVars, torn, restarts>>

\* The prompt's buttons are disabled while its capability is installing.
PromptEnabled ==
    Settled /\ pendingGate # NoCapability /\ statuses[pendingGate] # "installing"

Install(ids, w, phase) == [ids |-> ids, by |-> w, phase |-> phase,
                           fresh |-> {}, groups |-> {}, left |-> {}]

Enqueue(ids, w) ==
    /\ Len(chain) < MaxInstalls
    /\ chain' = Append(chain, Install(ids, w, "queued"))

ConfirmGate ==
    /\ PromptEnabled /\ gateResolve # NoWaiter
    /\ Enqueue({pendingGate}, gateResolve)
    /\ waiter' = [waiter EXCEPT ![gateResolve] = "confirmed"]
    /\ gateResolve' = NoWaiter
    /\ UNCHANGED <<pendingGate, asked, read, statuses, bootVars, hostVars, torn, restarts>>

CancelGate ==
    /\ PromptEnabled
    /\ waiter' = [w \in Waiters |-> IF w = gateResolve THEN "false" ELSE waiter[w]]
    /\ gateResolve' = NoWaiter /\ pendingGate' = NoCapability
    /\ UNCHANGED <<asked, read, statuses, chain, bootVars, hostVars, torn, restarts>>

\* The install the waiter confirmed is over: the rest of confirmGate.
Granted(w) ==
    /\ asked[w] \in Ready
    /\ waiter' = [waiter EXCEPT ![w] = "true"]
    /\ pendingGate' = IF pendingGate = asked[w] THEN NoCapability ELSE pendingGate
    /\ UNCHANGED gateResolve

\* Bug: the waiter is granted although the install failed.
MutRearmed(w) ==
    /\ asked[w] \notin Ready
    /\ waiter' = [waiter EXCEPT ![w] = "true"]
    /\ UNCHANGED <<gateResolve, pendingGate>>

\* Bug: a waiter that has superseded this one is overwritten.
MutOverwrites(w) ==
    /\ asked[w] \notin Ready
    /\ waiter' = [waiter EXCEPT ![w] = "prompting"]
    /\ gateResolve' = w
    /\ UNCHANGED pendingGate

\* Install failed: the prompt's Retry answers this waiter again, unless it has
\* been superseded or dismissed meanwhile.
Rearmed(w) ==
    /\ asked[w] \notin Ready
    /\ IF pendingGate = asked[w] /\ gateResolve = NoWaiter
       THEN waiter' = [waiter EXCEPT ![w] = "prompting"] /\ gateResolve' = w
       ELSE waiter' = [waiter EXCEPT ![w] = "false"] /\ UNCHANGED gateResolve
    /\ UNCHANGED pendingGate

ConfirmResumes(w) ==
    /\ At(w, "installed")
    /\ Granted(w) \/ Rearmed(w)
    /\ UNCHANGED <<asked, read, statuses, chain, bootVars, hostVars, torn, restarts>>

(***************************************************************************)
(* The install queue                                                       *)
(***************************************************************************)
\* The picker's button: something is left to install, nothing is installing.
InstallAll(ids) ==
    /\ Settled
    /\ closure(ids) \cap Ready # closure(ids)
    /\ \A c \in closure(ids) : statuses[c] # "installing"
    /\ Enqueue(ids, NoWaiter)
    /\ UNCHANGED <<statuses, gateVars, bootVars, hostVars, torn, restarts>>

Ended(i) == [chain EXCEPT ![i] = Install({}, NoWaiter, "done")]

Notified(i) == [w \in Waiters |-> IF w = chain[i].by THEN "installed" ELSE waiter[w]]

\* Bug: only the new capability's closure is asked for.
MutInstallGroups(ids) == closure(ids)

installGroups(ids) == closure(ids) \cup Ready

StartInstall(i) ==
    LET fresh == closure(chain[i].ids) \ Ready IN
    /\ chain[i].phase = "queued" /\ MyTurn(i)
    /\ IF fresh = {}
       THEN /\ chain' = Ended(i) /\ waiter' = Notified(i)
            /\ UNCHANGED <<statuses, torn>>
       ELSE /\ chain' = [chain EXCEPT ![i] =
                            [@ EXCEPT !.phase = "sync", !.fresh = fresh, !.left = fresh,
                                      !.groups = installGroups(chain[i].ids)]]
            /\ statuses' = Mark(fresh, "installing")
            /\ torn' = (torn \/ boot # "landed")
            /\ UNCHANGED waiter
    /\ UNCHANGED <<pendingGate, gateResolve, asked, read, bootVars, hostVars, restarts>>

NextPhase(i, from, to) ==
    chain[i].phase = from /\ chain' = [chain EXCEPT ![i].phase = to]

\* uv sync replaces the environment.
UvSync(i) ==
    /\ NextPhase(i, "sync", "provision")
    /\ venv' = chain[i].groups
    /\ UNCHANGED <<statuses, gateVars, bootVars, disk, weights, torn, restarts>>

\* Bug: a failed model download does not fail the install.
MutProvisionModels(i) ==
    /\ NextPhase(i, "provision", "persist")
    /\ weights' \in {weights, weights \cup chain[i].groups}
    /\ UNCHANGED <<statuses, gateVars, bootVars, disk, venv, torn, restarts>>

ProvisionModels(i) ==
    /\ NextPhase(i, "provision", "persist")
    /\ weights' = weights \cup chain[i].groups
    /\ UNCHANGED <<statuses, gateVars, bootVars, disk, venv, torn, restarts>>

\* Bug: capabilities are recorded in any order.
MutPrerequisitesRecorded(i, c) == TRUE

PrerequisitesRecorded(i, c) == Requires[c] \cap chain[i].left = {}

SetCapabilityInstalled(i, c) ==
    /\ chain[i].phase = "persist" /\ c \in chain[i].left
    /\ PrerequisitesRecorded(i, c)
    /\ disk' = disk \cup {c}
    /\ chain' = [chain EXCEPT ![i].left = @ \ {c}]
    /\ UNCHANGED <<statuses, gateVars, bootVars, venv, weights, torn, restarts>>

InstallSucceeds(i) ==
    /\ chain[i].phase = "persist" /\ chain[i].left = {}
    /\ statuses' = Mark(chain[i].fresh, "ready")
    /\ chain' = Ended(i) /\ waiter' = Notified(i)
    /\ UNCHANGED <<pendingGate, gateResolve, asked, read, bootVars, hostVars, torn, restarts>>

\* Bug: a failed install is tried again by itself.
MutInstallFails(i) ==
    /\ \/ chain[i].phase \in {"sync", "provision"}
       \/ chain[i].phase = "persist" /\ chain[i].left # {}
    /\ statuses' = Mark(chain[i].fresh, "error")
    /\ chain' = [chain EXCEPT ![i] = Install(@.ids, @.by, "queued")]
    /\ torn' = (torn \/ ~(disk \subseteq Ready \ chain[i].fresh))
    /\ UNCHANGED <<gateVars, bootVars, hostVars, restarts>>

\* uv sync, the model download or the record fails: all of it is in error,
\* whatever has been recorded already.
InstallFails(i) ==
    /\ \/ chain[i].phase \in {"sync", "provision"}
       \/ chain[i].phase = "persist" /\ chain[i].left # {}
    /\ statuses' = Mark(chain[i].fresh, "error")
    /\ chain' = Ended(i) /\ waiter' = Notified(i)
    /\ torn' = (torn \/ ~(disk \subseteq Ready \ chain[i].fresh))
    /\ UNCHANGED <<pendingGate, gateResolve, asked, read, bootVars, hostVars, restarts>>

(***************************************************************************)
(* The app is killed and started again.  A uv sync under way has replaced  *)
(* the environment or not; capabilities.json is renamed into place.        *)
(***************************************************************************)
Restart ==
    /\ restarts < MaxRestarts
    /\ restarts' = restarts + 1
    /\ statuses' = NewSession.statuses
    /\ waiter' = NewSession.waiter
    /\ asked' = NewSession.asked
    /\ read' = NewSession.read
    /\ pendingGate' = NoCapability /\ gateResolve' = NoWaiter
    /\ chain' = <<>>
    /\ boot' = "reading" /\ snapshot' = {}
    /\ venv' \in {venv} \cup {chain[i].groups : i \in {k \in DOMAIN chain :
                                                       chain[k].phase = "sync"}}
    /\ UNCHANGED <<disk, weights, torn>>

RefreshStep == RefreshReads \/ RefreshFails \/ RefreshLands

RequestStep(w) ==
    \/ SyncReads(w) \/ SyncInstalledFromDisk(w) \/ SyncRejects(w)
    \/ OpenGate(w) \/ ConfirmResumes(w)

InstallStep(i) ==
    \/ StartInstall(i) \/ UvSync(i) \/ ProvisionModels(i)
    \/ \E c \in Capabilities : SetCapabilityInstalled(i, c)
    \/ InstallSucceeds(i) \/ InstallFails(i)

Next ==
    \/ RefreshStep
    \/ \E w \in Waiters : RequestStep(w) \/ \E c \in Gated : Request(w, c)
    \/ ConfirmGate \/ CancelGate
    \/ \E ids \in Selections : InstallAll(ids)
    \/ \E i \in DOMAIN chain : InstallStep(i)
    \/ Restart

\* Fairness: promises that have settled are resumed, and uv, the model download
\* and the file write end one way or the other.  The user need do nothing.
Installing == \E i \in DOMAIN chain : InstallStep(i)

Spec ==
    /\ Init /\ [][Next]_vars
    /\ WF_vars(RefreshStep) /\ WF_vars(Installing)
    /\ \A w \in Waiters : WF_vars(RequestStep(w))

(***************************************************************************)
(* Properties                                                              *)
(***************************************************************************)
\* Two uv syncs of the shared venv, or two rewrites of capabilities.json,
\* never overlap: installs queue up behind installChain.
InstallsExclusive == \A i, k \in DOMAIN chain :
    {chain[i].phase, chain[k].phase} \subseteq {"sync", "provision", "persist"} => i = k

\* A capability is never recorded installed while its weights are missing,
\* across failures and restarts.
RecordedHasWeights == disk \subseteq weights

\* A capability is recorded only after all its prerequisites, so that a crash
\* or a failure between two records leaves a usable set.
RecordedIsClosed == Closed(disk)

\* A caller is let through the gate only for a capability recorded on disk.
GrantedIsRecorded == \A w \in Waiters : waiter[w] = "true" => asked[w] \in disk

\* A caller whose prompt waits for the user is the one the prompt answers:
\* no waiter is overwritten and left hanging.
NoWaiterForgotten == \A w \in Waiters : waiter[w] = "prompting" => gateResolve = w

\* In a history in which every install began with the store in step with the
\* disk, everything recorded installed is in the venv.
VenvKeepsInstalledInStep == torn \/ disk \subseteq venv

\* The boot refresh, whose snapshot may be old when it lands, takes no
\* capability back from "ready" or "installing".
RefreshNeverDowngrades ==
    [][\A c \in Capabilities :
        statuses[c] \in {"ready", "installing"} /\ statuses'[c] = "not-installed"
            => restarts' # restarts]_vars

\* A confirmed prompt is answered, or offers Retry again: neither a failed
\* install nor one that was queued before it wedges the queue.
ConfirmedIsAnswered == \A w \in Waiters :
    waiter[w] = "confirmed" ~> waiter[w] \in {"prompting", "idle"} \cup Answers

(***************************************************************************)
(* What the code says of itself and does not keep                          *)
(***************************************************************************)
\* uv sync keeps prior capabilities present: installGroups' comment.
VenvKeepsInstalled == disk \subseteq venv

\* A prompt that was dismissed abandons the gated action: with a single
\* caller, it is let through only while its prompt is open.
CancelAbandons ==
    [][\A w \in Waiters :
        waiter[w] = "installed" /\ waiter'[w] = "true" => pendingGate = asked[w]]_vars

=============================================================================
