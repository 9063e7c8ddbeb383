------------------------------- MODULE Reload -------------------------------
(***************************************************************************)
(* The configuration transaction over the live instance set, together with *)
(* the two other owners of that set: the supervisor's startup and its      *)
(* shutdown drain.                                                         *)
(*                                                                         *)
(*   src/crates/ethernet-ip-adapter/src/reload.rs      plan, prepare,      *)
(*                                                     commit, rollback    *)
(*   src/crates/ethernet-ip-adapter/src/lifecycle.rs   DeviceRegistry,     *)
(*                                                     stop_*, shutdown_all*)
(*   src/crates/ethernet-ip-adapter/src/supervisor.rs  App, RuntimeLauncher*)
(*                                                                         *)
(* Three kinds of process interleave: App::run (startup, then shutdown),   *)
(* the configuration transaction that the library core drives under its    *)
(* apply lock, and one device task per launched runtime.  The device task  *)
(* is reduced here to what the other two can see of it: its session, its   *)
(* `device-unreachable` alarm, and when it ends.                           *)
(***************************************************************************)
EXTENDS Naturals, Sequences

CONSTANTS
    Ids,          \* instance ids
    NoId,         \* an instances[] entry without an `id`
    Raws,         \* raw component.instances[] subtrees
    NoRaw,
    Views,        \* documents with component.instances removed
    NoView,
    Malformed,    \* subtrees DeviceConfig::from_value refuses
    UnknownTok,   \* subtrees whose `adapter` token no backend implements
    PushMode,     \* subtrees that select mode: push
    BadViews,     \* views whose component.global does not parse
    Docs,         \* configuration documents: [view, insts]
    Slots,        \* names for runtimes (one per launched instance)
    MaxReloads,   \* bound: configuration applies per behaviour
    MaxFaults     \* bound: launches that fail for another reason than the adapter token

Entry == [id : Ids, raw : Raws]

ASSUME DocsAssumption ==
    \A d \in Docs : d.view \in Views /\ d.insts \in Seq([id : Ids \cup {NoId}, raw : Raws])

ASSUME NoneAssumption == NoId \notin Ids /\ NoRaw \notin Raws /\ NoView \notin Views

ASSUME BoundsAssumption == MaxReloads \in Nat /\ MaxFaults \in Nat

VARIABLES
    \* --- App (supervisor.rs)
    main,       \* where App::run is
    started,    \* the reload gate
    root,       \* the app root token is cancelled
    boot,       \* startup: parsed instances still to launch
    fresh,      \* startup: launched runtimes not yet registered
    drained,    \* shutdown: runtimes the current drain pass is stopping
    \* --- the live set
    rt,         \* Slots -> runtime
    registry,   \* runtimes in DeviceRegistry.devices
    global,     \* DeviceRegistry.global, as the view it was parsed from
    prior,      \* ReloadCoordinator.prior: the generation's snapshot
    repoll,     \* `repoll` is advertised as unsupported (all push)
    \* --- the transaction
    pc,         \* where prepare / commit / rollback is
    cand,       \* the candidate snapshot
    plan,       \* the ReloadPlan
    todo,       \* ids still to detach
    starts,     \* entries still to launch
    stopping,   \* detached runtimes being stopped
    inserting,  \* the runtime launch() returned, until registry.insert
    clearing,   \* removed ids whose alarm is still to be cleared
    stopped,    \* UndoState.stopped
    launched,   \* UndoState.launched
    verdict,    \* what the last apply answered
    \* --- outside
    alarm,      \* ids whose device-unreachable alarm is latched on the bus
    applies,    \* configuration applies so far
    faults,     \* broken launches so far
    \* --- history, read by properties only
    lost,       \* ids the last rollbacks could not relaunch
    excused,    \* ids with an aborted task, or whose alarm clear did not go out
    cleared,    \* ids whose latched alarm this transaction cleared
    muted       \* ids restored by a rollback after their latched alarm was cleared

appVars == <<main, started, root, boot, fresh, drained>>
setVars == <<global, prior, repoll>>
txnVars == <<pc, cand, plan, todo, starts, stopping, inserting, clearing, stopped, launched, verdict, cleared>>
envVars == <<applies, faults>>
hisVars == <<lost, muted>>
vars == <<appVars, rt, registry, setVars, txnVars, alarm, envVars, hisVars, excused>>

-----------------------------------------------------------------------------
(* The pure diff *)

\* Entries in declaration order: without an id is invisible, a duplicate id
\* resolves to the first declaration.
FirstOf(doc, k) ==
    /\ doc.insts[k].id # NoId
    /\ \A j \in DOMAIN doc.insts : j < k => doc.insts[j].id # doc.insts[k].id

candidate_instances(doc) == {doc.insts[k] : k \in {i \in DOMAIN doc.insts : FirstOf(doc, i)}}

parse_instances(doc) == {e \in candidate_instances(doc) : e.raw \notin Malformed}

IdsOf(entries) == {e.id : e \in entries}

\* The next entry of S in declaration order.
IsNext(doc, S, e) ==
    /\ e \in S
    /\ \E k \in DOMAIN doc.insts :
          /\ doc.insts[k] = e
          /\ \A j \in DOMAIN doc.insts : (j < k /\ FirstOf(doc, j)) => doc.insts[j] \notin S

\* Variant: a change outside component.instances restarts nothing.
MakePlan_viewIgnored(running, view, doc) ==
    LET valid == parse_instances(doc)
        kept  == running \cap valid
        removed == IdsOf(running) \ IdsOf(valid)
    IN [ keep |-> IdsOf(kept), stop |-> IdsOf(running) \ IdsOf(kept), start |-> valid \ kept, removed |-> removed ]

\* Variant: an instance the document no longer declares is not stopped.
MakePlan_removedKept(running, view, doc) ==
    LET valid == parse_instances(doc)
        kept  == IF doc.view # view THEN {} ELSE running \cap valid
    IN [ keep |-> IdsOf(kept), stop |-> IdsOf(valid \ kept) \cap IdsOf(running), start |-> valid \ kept, removed |-> {} ]

\* ReloadPlan for the running entries and the running generation's view.
MakePlan(running, view, doc) ==
    LET valid      == parse_instances(doc)
        restartAll == doc.view # view
        kept       == IF restartAll THEN {} ELSE running \cap valid
        removed    == IdsOf(running) \ IdsOf(valid)
    IN [ keep    |-> IdsOf(kept),
         stop    |-> removed \cup {e.id : e \in {v \in valid \ kept : v.id \in IdsOf(running)}},
         start   |-> valid \ kept,
         removed |-> removed ]

NoPlan == [keep |-> {}, stop |-> {}, start |-> {}, removed |-> {}]

-----------------------------------------------------------------------------
(* Runtimes *)

Links == {"none", "connecting", "online", "lost", "failed"}

Free == [task |-> "free", id |-> NoId, raw |-> NoRaw, view |-> NoView,
         link |-> "none", cancelled |-> FALSE, aborted |-> FALSE]

Occupied == [task : {"live", "ended"}, id : Ids, raw : Raws, view : Views,
             link : Links, cancelled : BOOLEAN, aborted : BOOLEAN]

Runtime == {Free} \cup Occupied

Spawned(e, view) == [task |-> "live", id |-> e.id, raw |-> e.raw, view |-> view,
                     link |-> "connecting", cancelled |-> FALSE, aborted |-> FALSE]

\* An instance token is a child of the root.
Cancelled(r) == root \/ rt[r].cancelled

Session(r) == rt[r].task = "live" /\ rt[r].link = "online"

Running(R) == {[id |-> rt[r].id, raw |-> rt[r].raw] : r \in R}

AllPush(R) == R # {} /\ \A r \in R : rt[r].raw \in PushMode

\* The launcher's verdicts: a runtime, the typed refusal, or anything else.
LaunchOk(e, view, r) ==
    /\ e.raw \notin UnknownTok
    /\ rt[r].task = "free"
    /\ rt' = [rt EXCEPT ![r] = Spawned(e, view)]
    /\ UNCHANGED faults

LaunchUnknown(e) == e.raw \in UnknownTok /\ UNCHANGED <<rt, faults>>

LaunchBroken == faults < MaxFaults /\ faults' = faults + 1 /\ UNCHANGED rt

\* stop_runtimes: cancel every token, ...
CancelAll(S) == [r \in Slots |-> IF r \in S THEN [rt[r] EXCEPT !.cancelled = TRUE] ELSE rt[r]]

\* ... then join every task under one deadline and abort the ones still
\* running when it passes.  abort() is not awaited.
Reaped(S) == [r \in Slots |->
    IF r \notin S THEN rt[r]
    ELSE IF rt[r].task = "ended" THEN Free
    ELSE [rt[r] EXCEPT !.aborted = TRUE]]

Stragglers(S) == {rt[r].id : r \in {s \in S : rt[s].task = "live"}}

-----------------------------------------------------------------------------
(* App::new and App::run *)

Init ==
    /\ \E d \in Docs :
          /\ d.view \notin BadViews
          /\ parse_instances(d) # {}
          /\ prior = d
          /\ global = d.view
          /\ boot = parse_instances(d)
    /\ main = "boot"
    /\ started = FALSE
    /\ root = FALSE
    /\ fresh = {}
    /\ drained = {}
    /\ rt = [r \in Slots |-> Free]
    /\ registry = {}
    /\ repoll = FALSE
    /\ pc = "idle"
    /\ cand = prior
    /\ plan = NoPlan
    /\ todo = {} /\ starts = {} /\ stopping = {} /\ inserting = {} /\ clearing = {}
    /\ stopped = {} /\ launched = {}
    /\ verdict = "none"
    /\ alarm = {}
    /\ applies = 0
    /\ faults = 0
    /\ lost = {} /\ excused = {} /\ cleared = {} /\ muted = {}

\* launch_startup_set, one instance: launched, or skipped.
BootLaunch(e) ==
    /\ main = "boot"
    /\ IsNext(prior, boot, e)
    /\ boot' = boot \ {e}
    /\ \/ \E r \in Slots : LaunchOk(e, prior.view, r) /\ fresh' = fresh \cup {r}
       \/ LaunchUnknown(e) /\ UNCHANGED fresh
    /\ UNCHANGED <<main, started, root, drained, registry, setVars, txnVars, alarm, applies, hisVars, excused>>

\* Variant: the fatal path drops what did start.
BootFail_dropsStarted ==
    /\ main = "boot"
    /\ \/ boot # {} /\ LaunchBroken
       \/ boot = {} /\ UNCHANGED <<rt, faults>>
    /\ root' = TRUE
    /\ main' = "drain"
    /\ boot' = {} /\ fresh' = {}
    /\ UNCHANGED <<started, drained, registry, setVars, txnVars, alarm, applies, hisVars, excused>>

\* A construction failure is fatal; so are launching nothing and a refused
\* command registration.  What did start is registered first, then
\* stop_on_startup_error cancels the root.
BootFail ==
    /\ main = "boot"
    /\ \/ boot # {} /\ LaunchBroken
       \/ boot = {} /\ UNCHANGED <<rt, faults>>
    /\ registry' = fresh
    /\ root' = TRUE
    /\ main' = "drain"
    /\ boot' = {} /\ fresh' = {}
    /\ UNCHANGED <<started, drained, setVars, txnVars, alarm, applies, hisVars, excused>>

\* Every surface is published and the reload gate opens.
BootDone ==
    /\ main = "boot"
    /\ boot = {}
    /\ fresh # {}
    /\ registry' = fresh
    /\ fresh' = {}
    /\ repoll' = AllPush(fresh)
    /\ started' = TRUE
    /\ main' = "run"
    /\ UNCHANGED <<root, boot, drained, rt, global, prior, txnVars, alarm, envVars, hisVars, excused>>

ShutdownSignal ==
    /\ main = "run"
    /\ root' = TRUE
    /\ main' = "drain"
    /\ UNCHANGED <<started, boot, fresh, drained, rt, registry, setVars, txnVars, alarm, envVars, hisVars, excused>>

\* One pass of shutdown_all: take everything, or return on an empty registry.
Drain ==
    /\ main = "drain"
    /\ drained' = registry
    /\ registry' = {}
    /\ rt' = CancelAll(registry)
    /\ main' = IF registry = {} THEN "exited" ELSE "join"
    /\ UNCHANGED <<started, root, boot, fresh, setVars, txnVars, alarm, envVars, hisVars, excused>>

\* The pass ends when every task was joined, or at the deadline.
DrainStopped ==
    /\ main = "join"
    /\ rt' = Reaped(drained)
    /\ excused' = excused \cup Stragglers(drained)
    /\ drained' = {}
    /\ main' = "drain"
    /\ UNCHANGED <<started, root, boot, fresh, registry, setVars, txnVars, alarm, envVars, hisVars>>

App == (\E e \in Entry : BootLaunch(e)) \/ BootFail \/ BootDone \/ ShutdownSignal \/ Drain \/ DrainStopped

-----------------------------------------------------------------------------
(* prepare_configuration_apply and commit *)

Reject(code) ==
    /\ verdict' = code
    /\ UNCHANGED <<pc, cand, plan, starts, todo>>

\* Stage the transaction; no live state changes.
Prepare(doc) ==
    /\ pc = "idle"
    /\ applies < MaxReloads
    /\ applies' = applies + 1
    /\ LET p == MakePlan(Running(registry), prior.view, doc) IN
       \/ ~started /\ Reject("STARTING")
       \/ started /\ root /\ Reject("SHUTTING_DOWN")
       \/ started /\ ~root /\ doc.view \in BadViews /\ Reject("INVALID_GLOBAL")
       \/ /\ started /\ ~root /\ doc.view \notin BadViews
          /\ p.keep = {} /\ p.start = {}
          /\ Reject("NO_VALID_INSTANCES")
       \/ /\ started /\ ~root /\ doc.view \notin BadViews
          /\ p.keep # {} \/ p.start # {}
          /\ pc' = "prepared"
          /\ cand' = doc
          /\ plan' = p
          /\ todo' = p.stop
          /\ starts' = p.start
          /\ verdict' = "none"
    /\ UNCHANGED <<appVars, rt, registry, setVars, stopping, inserting, clearing, stopped, launched, cleared, alarm, faults, hisVars, excused>>

CommitRefused ==
    /\ pc = "prepared"
    /\ root
    /\ pc' = "undo"
    /\ verdict' = "SHUTTING_DOWN"
    /\ UNCHANGED <<appVars, rt, registry, setVars, cand, plan, todo, starts, stopping, inserting, clearing, stopped, launched, cleared, alarm, envVars, hisVars, excused>>

CommitBegin ==
    /\ pc = "prepared"
    /\ ~root
    /\ pc' = "detach"
    /\ UNCHANGED <<appVars, rt, registry, setVars, cand, plan, todo, starts, stopping, inserting, clearing, stopped, launched, verdict, cleared, alarm, envVars, hisVars, excused>>

\* Stage 1: out of the registry first, recording what it was running.  A
\* drain pass may have taken it already.
Detach(id) ==
    /\ pc = "detach"
    /\ id \in todo
    /\ todo' = todo \ {id}
    /\ \/ \E r \in registry :
             /\ rt[r].id = id
             /\ registry' = registry \ {r}
             /\ stopping' = stopping \cup {r}
             /\ stopped' = stopped \cup Running({r})
       \/ /\ \A r \in registry : rt[r].id # id
          /\ UNCHANGED <<registry, stopping, stopped>>
    /\ UNCHANGED <<appVars, rt, setVars, pc, cand, plan, starts, inserting, clearing, launched, verdict, cleared, alarm, envVars, hisVars, excused>>

\* Stages 2 and 3: remember the sinks of the removed, cancel the rest.
StopBegin ==
    /\ pc = "detach"
    /\ todo = {}
    /\ pc' = "stop"
    /\ clearing' = plan.removed \cap IdsOf(stopped)
    /\ rt' = CancelAll(stopping)
    /\ UNCHANGED <<appVars, registry, setVars, cand, plan, todo, starts, stopping, inserting, stopped, launched, verdict, cleared, alarm, envVars, hisVars, excused>>

\* Variant: stop_runtimes without a deadline.
Stopped_noDeadline(next) ==
    /\ \A r \in stopping : rt[r].task = "ended"
    /\ rt' = Reaped(stopping)
    /\ stopping' = {}
    /\ pc' = next
    /\ UNCHANGED excused

Stopped(next) ==
    /\ rt' = Reaped(stopping)
    /\ excused' = excused \cup Stragglers(stopping)
    /\ stopping' = {}
    /\ pc' = next

\* Variant: the commit goes on without awaiting the stop.
StopEnd_notAwaited ==
    /\ pc = "stop"
    /\ pc' = "clear"
    /\ UNCHANGED <<appVars, rt, registry, setVars, cand, plan, todo, starts, stopping, inserting, clearing, stopped, launched, verdict, cleared, alarm, envVars, hisVars, excused>>

StopEnd ==
    /\ pc = "stop"
    /\ Stopped("clear")
    /\ UNCHANGED <<appVars, registry, setVars, cand, plan, todo, starts, inserting, clearing, stopped, launched, verdict, cleared, alarm, envVars, hisVars>>

\* Variant: the alarm is cleared while the task is still being stopped.
ClearAlarm_beforeStop(id) ==
    /\ pc \in {"stop", "clear"}
    /\ id \in clearing
    /\ clearing' = clearing \ {id}
    /\ alarm' = alarm \ {id} /\ cleared' = cleared \cup (alarm \cap {id}) /\ UNCHANGED excused
    /\ UNCHANGED <<appVars, rt, registry, setVars, pc, cand, plan, todo, starts, stopping, inserting, stopped, launched, verdict, envVars, hisVars>>

\* Stage 4: the alarm clear of one removed instance, best effort under NOTIFY_BUDGET.
ClearAlarm(id) ==
    /\ pc = "clear"
    /\ id \in clearing
    /\ clearing' = clearing \ {id}
    /\ \/ alarm' = alarm \ {id} /\ cleared' = cleared \cup (alarm \cap {id}) /\ UNCHANGED excused
       \/ excused' = excused \cup {id} /\ UNCHANGED <<alarm, cleared>>
    /\ UNCHANGED <<appVars, rt, registry, setVars, pc, cand, plan, todo, starts, stopping, inserting, stopped, launched, verdict, envVars, hisVars>>

\* Stage 5.
SetGlobal ==
    /\ pc = "clear"
    /\ clearing = {}
    /\ global' = cand.view
    /\ pc' = "launch"
    /\ UNCHANGED <<appVars, rt, registry, prior, repoll, cand, plan, todo, starts, stopping, inserting, clearing, stopped, launched, verdict, cleared, alarm, envVars, hisVars, excused>>

\* Stage 6, one start: launched, or skipped.
Launch(e) ==
    /\ pc = "launch"
    /\ inserting = {}
    /\ IsNext(cand, starts, e)
    /\ starts' = starts \ {e}
    /\ \/ \E r \in Slots : /\ LaunchOk(e, cand.view, r)
                           /\ inserting' = {r}
                           /\ launched' = launched \cup {e.id}
       \/ LaunchUnknown(e) /\ UNCHANGED <<inserting, launched>>
    /\ UNCHANGED <<appVars, registry, setVars, pc, cand, plan, todo, stopping, clearing, stopped, verdict, cleared, alarm, applies, hisVars, excused>>

\* The launched runtime enters the registry, in commit and in rollback.
Insert ==
    /\ inserting # {}
    /\ registry' = registry \cup inserting
    /\ inserting' = {}
    /\ UNCHANGED <<appVars, rt, setVars, pc, cand, plan, todo, starts, stopping, clearing, stopped, launched, verdict, cleared, alarm, envVars, hisVars, excused>>

\* A broken runtime, or an empty registry after the pass, fails the commit.
LaunchFailed ==
    /\ pc = "launch"
    /\ inserting = {}
    /\ \/ starts # {} /\ LaunchBroken /\ verdict' = "LAUNCH_FAILED"
       \/ starts = {} /\ registry = {} /\ verdict' = "NO_RUNNING_INSTANCES" /\ UNCHANGED <<rt, faults>>
    /\ pc' = "undo"
    /\ UNCHANGED <<appVars, registry, setVars, cand, plan, todo, starts, stopping, inserting, clearing, stopped, launched, cleared, alarm, applies, hisVars, excused>>

Finished(code) ==
    /\ verdict' = code
    /\ pc' = "idle"
    /\ plan' = NoPlan
    /\ todo' = {} /\ starts' = {} /\ clearing' = {}
    /\ stopped' = {} /\ launched' = {} /\ cleared' = {}

\* Stages 7 and 8: the surfaces of the new generation, then the generation.
CommitOk ==
    /\ pc = "launch"
    /\ starts = {}
    /\ inserting = {}
    /\ registry # {}
    /\ repoll' = AllPush(registry)
    /\ prior' = cand
    /\ lost' = {}
    /\ Finished("OK")
    /\ UNCHANGED <<appVars, rt, registry, global, cand, stopping, inserting, alarm, envVars, muted, excused>>

-----------------------------------------------------------------------------
(* rollback: core awaits it after every commit Err *)

\* Variant: rollback takes everything that is registered.
UndoLaunched_takesAll ==
    /\ pc = "undo"
    /\ registry' = {}
    /\ stopping' = registry
    /\ rt' = CancelAll(registry)
    /\ launched' = {}
    /\ pc' = "undostop"
    /\ UNCHANGED <<appVars, setVars, cand, plan, todo, starts, inserting, clearing, stopped, verdict, cleared, alarm, envVars, hisVars, excused>>

UndoLaunched ==
    /\ pc = "undo"
    /\ LET mine == {r \in registry : rt[r].id \in launched} IN
          /\ registry' = registry \ mine
          /\ stopping' = mine
          /\ rt' = CancelAll(mine)
    /\ launched' = {}
    /\ pc' = "undostop"
    /\ UNCHANGED <<appVars, setVars, cand, plan, todo, starts, inserting, clearing, stopped, verdict, cleared, alarm, envVars, hisVars, excused>>

UndoStopped ==
    /\ pc = "undostop"
    /\ Stopped("relaunch")
    /\ global' = prior.view
    /\ UNCHANGED <<appVars, registry, prior, repoll, cand, plan, todo, starts, inserting, clearing, stopped, launched, verdict, cleared, alarm, envVars, hisVars>>

\* Relaunch one stopped instance against the prior snapshot; a failure is
\* collected and the loop goes on.  (Its adapter token resolved before.)
Relaunch(e) ==
    /\ pc = "relaunch"
    /\ inserting = {}
    /\ e \in stopped
    /\ stopped' = stopped \ {e}
    /\ \/ \E r \in Slots : /\ LaunchOk(e, prior.view, r)
                           /\ inserting' = {r}
                           /\ muted' = muted \cup (cleared \cap {e.id})
                           /\ UNCHANGED <<lost, verdict>>
       \/ /\ LaunchBroken
          /\ lost' = lost \cup {e.id}
          /\ verdict' = "ROLLBACK_RELAUNCH_FAILED"
          /\ UNCHANGED <<inserting, muted>>
    /\ UNCHANGED <<appVars, registry, setVars, pc, cand, plan, todo, starts, stopping, clearing, launched, cleared, alarm, applies, excused>>

RollbackDone ==
    /\ pc = "relaunch"
    /\ stopped = {}
    /\ inserting = {}
    /\ Finished(verdict)
    /\ UNCHANGED <<appVars, rt, registry, setVars, cand, stopping, inserting, alarm, envVars, hisVars, excused>>

Commit ==
    \/ CommitRefused \/ CommitBegin \/ StopBegin \/ StopEnd \/ SetGlobal \/ LaunchFailed \/ CommitOk \/ Insert
    \/ \E id \in Ids : Detach(id) \/ ClearAlarm(id)
    \/ \E e \in Entry : Launch(e)

Rollback == UndoLaunched \/ UndoStopped \/ RollbackDone \/ \E e \in Entry : Relaunch(e)

-----------------------------------------------------------------------------
(* Device tasks, as far as the set's owners see them (reconnect.rs) *)

SetLink(r, l) == rt' = [rt EXCEPT ![r].link = l]

devUnchanged == <<appVars, registry, setVars, txnVars, envVars, lost, excused>>

\* A connect under the deadline, the cancel polled first.  Success clears
\* the alarm; failure raises none.
Connect(r) ==
    /\ rt[r].task = "live" /\ rt[r].link \in {"connecting", "lost", "failed"}
    /\ ~Cancelled(r) /\ ~rt[r].aborted
    /\ \/ SetLink(r, "online") /\ alarm' = alarm \ {rt[r].id} /\ muted' = muted \ {rt[r].id}
       \/ SetLink(r, "failed") /\ UNCHANGED <<alarm, muted>>
    /\ UNCHANGED devUnchanged

\* A request fails: close, back off, raise the alarm.  The request may have
\* been in flight when the token was cancelled or the task aborted.
LinkLost(r) ==
    /\ Session(r)
    /\ SetLink(r, "lost")
    /\ alarm' = alarm \cup {rt[r].id}
    /\ UNCHANGED <<devUnchanged, muted>>

\* The stop is observed: the session is closed and the task returns.  An
\* aborted task is dropped instead, and nobody holds its handle any more.
TaskEnd(r) ==
    /\ rt[r].task = "live"
    /\ Cancelled(r) \/ rt[r].aborted
    /\ rt' = IF rt[r].aborted THEN [rt EXCEPT ![r] = Free]
             ELSE [rt EXCEPT ![r].task = "ended", ![r].link = "none"]
    /\ UNCHANGED <<devUnchanged, alarm, muted>>

Device(r) == Connect(r) \/ LinkLost(r) \/ TaskEnd(r)

-----------------------------------------------------------------------------

Terminated == main = "exited" /\ pc = "idle" /\ UNCHANGED vars

Next ==
    \/ App
    \/ \E d \in Docs : Prepare(d)
    \/ Commit
    \/ Rollback
    \/ \E r \in Slots : Device(r)
    \/ Terminated

\* The transaction and the supervisor keep going once begun: every wait of
\* theirs is bounded by a timer (stop_budget, NOTIFY_BUDGET).  Nothing is
\* assumed of the device tasks: a driver may hang inside a request.
Fairness ==
    /\ WF_vars(Commit) /\ WF_vars(Rollback)
    /\ WF_vars(Drain) /\ WF_vars(DrainStopped)
    /\ WF_vars((\E e \in Entry : BootLaunch(e)) \/ BootDone \/ BootFail)

Spec == Init /\ [][Next]_vars
FairSpec == Spec /\ Fairness
-----------------------------------------------------------------------------
(* Properties *)

Pcs == {"idle", "prepared", "detach", "stop", "clear", "launch", "undo", "undostop", "relaunch"}

\* Every variable of the supervisor, the registry and the transaction has its type.
TypeOK ==
    /\ main \in {"boot", "run", "drain", "join", "exited"}
    /\ started \in BOOLEAN /\ root \in BOOLEAN
    /\ boot \subseteq Entry /\ fresh \subseteq Slots /\ drained \subseteq Slots
    /\ rt \in [Slots -> Runtime]
    /\ registry \subseteq Slots
    /\ global \in Views /\ prior \in Docs /\ repoll \in BOOLEAN
    /\ pc \in Pcs /\ cand \in Docs
    /\ plan \in [keep : SUBSET Ids, stop : SUBSET Ids, start : SUBSET Entry, removed : SUBSET Ids]
    /\ todo \subseteq Ids /\ starts \subseteq Entry /\ stopping \subseteq Slots
    /\ inserting \subseteq Slots /\ clearing \subseteq Ids
    /\ stopped \subseteq Entry /\ launched \subseteq Ids
    /\ verdict \in {"none", "OK", "STARTING", "SHUTTING_DOWN", "INVALID_GLOBAL", "NO_VALID_INSTANCES",
                    "LAUNCH_FAILED", "NO_RUNNING_INSTANCES", "ROLLBACK_RELAUNCH_FAILED"}
    /\ alarm \subseteq Ids /\ applies \in Nat /\ faults \in Nat
    /\ lost \subseteq Ids /\ excused \subseteq Ids /\ cleared \subseteq Ids /\ muted \subseteq Ids

Owned == registry \cup fresh \cup stopping \cup drained \cup inserting

\* A task that was not aborted is always held by someone who will join it: no
\* runtime keeps polling behind a dropped handle (startup's fatal path, the
\* detach of a commit, the undo of a partial launch, the shutdown drain).
LiveIsOwned == \A r \in Slots : rt[r].task = "live" /\ ~rt[r].aborted => r \in Owned

\* Two runtimes of one instance never both hold a device session, unless the
\* older one's task overran its stop budget and was aborted: commit and
\* rollback stop the old generation before they launch the new.
OneSession ==
    \A r, s \in Slots :
        (r # s /\ Session(r) /\ Session(s) /\ rt[r].id = rt[s].id) => rt[r].aborted \/ rt[s].aborted

\* No apply is in progress and the component is neither starting nor stopping.
Settled == started /\ ~root /\ pc = "idle"

\* Between applies, everything that runs is bound to the generation the next
\* reload is measured against: no instance was kept across a change outside
\* component.instances, and the registry's global is that generation's.
BoundToGeneration ==
    Settled => /\ global = prior.view
               /\ \A r \in registry : rt[r].view = prior.view

\* Between applies the running set is exactly what the generation's document
\* declares and a backend implements, each instance once, whether the last
\* apply committed, was rejected, or was rolled back half way; only an
\* instance that a rollback reported as not relaunched may be missing.  The
\* advertised availability of `repoll`, recomputed on a commit only, follows.
SetIsGeneration ==
    Settled => /\ Running(registry) = {e \in parse_instances(prior) : e.raw \notin UnknownTok /\ e.id \notin lost}
               /\ \A r, s \in registry : rt[r].id = rt[s].id => r = s
               /\ lost = {} => repoll = AllPush(registry)

\* Once a commit has sent the alarm clear of a removed instance, nothing raises
\* the alarm behind it: the task that could was stopped first (stage 4 after 3).
RemovedAlarmCleared ==
    pc \in {"clear", "launch", "undo", "undostop"} =>
        \A id \in (plan.removed \cap IdsOf(stopped)) \ clearing : id \in alarm => id \in excused

\* A reload never disturbs an instance it keeps: the runtime stays in the
\* registry with its token uncancelled until the transaction ends, whatever
\* its outcome, unless the component shuts down.
KeptUndisturbed ==
    [][ \A r \in Slots :
          (pc # "idle" /\ ~root /\ r \in registry /\ rt[r].id \in plan.keep)
             => root' \/ (r \in registry' /\ ~rt'[r].cancelled) ]_vars

\* Every apply that was prepared comes to an end, committed or rolled back,
\* although core never cancels it.
ApplyEnds == (pc # "idle") ~> (pc = "idle")

\* Once the root token is cancelled, App::run returns, whatever a concurrent
\* commit keeps inserting.
ShutdownEnds == root ~> (main = "exited")

-----------------------------------------------------------------------------
(* What the documentation says and the code does not do *)

\* reload.rs:618 "an instance that is going away for good must not leave a
\* latched `device-unreachable` on the bus": between applies an alarm is
\* latched only for an instance that still runs and can clear it.
NoLatchedAlarm ==
    Settled => \A id \in alarm : \/ id \in IdsOf(Running(registry))
                                 \/ id \in excused \cup lost

\* DESIGN.md 10.4: rollback relaunches the removed instances "and a genuinely
\* unreachable device re-raises its own alarm on the next connect attempt".
RestoredAlarmRaised ==
    \A r \in registry : (rt[r].link = "failed" /\ rt[r].id \in muted) => rt[r].id \in alarm

\* DESIGN.md 10.3: on the shutdown signal every task, registered with its
\* JoinHandle, is joined or aborted before the process ends.
ExitJoinsSessions == main = "exited" => \A r \in Slots : Session(r) => rt[r].aborted
=============================================================================
