# A TLA+ verification project for the EtherNet/IP adapter

The repository holds a component that keeps a set of EtherNet/IP (and simulated)
devices connected, polls them or consumes their implicit I/O, and publishes what it
reads on a message bus (`crates/ethernet-ip-adapter`), and the protocol library it is
built on (`crates/enip`). This project models the parts of it whose correctness depends
on the order in which concurrent steps happen, checks them with TLC on small
instances, and proves the most important results with TLAPS for every instance.

Line numbers below and in `PROJECT.json` are those of the sources at this commit;
`A/` stands for `src/crates/ethernet-ip-adapter/src/` and `E/` for `src/crates/enip/src/`.

## 1. Inventory

| component | source | state it keeps | operations | what makes it correct |
|---|---|---|---|---|
| Supervisor | `A/supervisor.rs` | root token, reload gate, registry | `new`, `run`, `start_instances`, `launch` | startup either publishes every surface or stops what it started; shutdown reaps everything |
| Lifecycle | `A/lifecycle.rs` | `DeviceRegistry` (devices, globals) | `insert`, `remove`, `take_all`, `stop_tasks`, `shutdown_all` | every task is joined or aborted; no task outlives its owner; bounded stops |
| Configuration transaction | `A/reload.rs` | `prior` generation, `UndoState` | `plan`, `prepare`, `commit`, `rollback` | the live set is the declared one after every outcome; kept instances are undisturbed |
| Connection loop | `A/reconnect.rs` | link state, backoff, pending reconnect reply | connect, back off, run the driver, raise/clear the alarm, end | a reconnect request is answered once; cancel always ends the task; backoff is bounded |
| Poll driver | `A/poll_driver.rs`, `A/poll.rs` | group deadlines, pause flag, publish engine | poll, flush, control, health, cancel | nothing is published while paused; a control reply is never lost |
| Push driver | `A/push_driver.rs`, `A/push.rs` | input snapshot, sequence, pause flag, engine | consume, flush, control, resume | a resume does not replay what was captured while paused |
| Publish engine | `A/publish.rs` | per signal: committed/pending baseline, last good read, eligibility floor; batch buffers | gate, buffer, settle, discard, rebase, staleness | the on-change baseline is what was published; nothing captured before a pause is published after it |
| Control and health | `A/app.rs`, `A/device.rs` | link, identity, security, pause, health counters | `apply_pause`, `serve_control_disconnected`, `Backoff` | replies and pause survive a reconnect |
| Command surface | `A/commands.rs` | none of its own | `sb/*` verbs | a write is permitted by the generation that serves it; the reply says what landed; walks are complete |
| Certificate lifecycle | `A/security_lifecycle.rs`, `A/eip/{rotation,est,identity}.rs` | expiry edges, rotation generation | re-read, warn, enroll, write back, reconnect | a session does not outlive the material it was built from; an expiry is told once; an identity recovers |
| EtherNet/IP backend | `A/eip/{mod,live,session,types,push}.rs` | sessions, push channels (16 updates, 8 controls) | connect, read, write, `set_output`, close | a write reported failed does not take effect later |
| Metrics | `A/metrics.rs` | interval and total counters | record, drain, define, emit, rebase | nothing is counted twice or lost across intervals and links |
| enip I/O manager | `E/io.rs`, `E/cm.rs`, `E/client/io_service.rs` | I/O connections, production/timeout timers | forward open/close, produce, consume, watchdog | stale sequence numbers are dropped; a silent peer is timed out |
| enip client session | `E/client/*.rs` | session handle, sender contexts, connected sequence | register, request, keepalive, close | a reply is matched to its request; one failure kills the session for all waiters |
| enip codecs | `E/{wire,cpf,assembly,logix,discovery}.rs`, `E/cip/*`, `E/encap/*` | none | encode, decode | round trip; every length checked |
| Configuration parsing | `A/config.rs` | none | parse, validate, effective settings | what is accepted can be opened, and means what it says |
| TLS configuration | `A/eip/tls.rs`, `E/client/tls.rs` | none | validate, read the vault, build the client configuration | an accepted configuration connects with the material and the checks it names |
| Simulator | `A/sim.rs` | deterministic generator | | outside the model |

How they interact. `App::run` starts one device task per instance and registers it;
from then on three owners race on the registry: the supervisor (shutdown), the library
core that drives a configuration transaction under its apply lock, and the command
handlers (read only). A device task owns its session; commands reach it through a
control channel and get their answer on a one-shot channel. The driver under the task
owns the publish engine and hands batches to the bus. Certificate renewal reaches the
device task by asking it to reconnect.

What is hard: the registry has two concurrent writers; stops are bounded by a deadline
after which a task is aborted but not awaited; a commit may fail half way; a control
request may arrive while the link is down, during a connect or during a read; a batch
may fail to publish after its baseline moved; a pause may fall between a capture and its
flush; a late reply meets the next request on the same stream; datagrams are lost, repeated
and reordered while 16-bit sequence numbers wrap; an enrollment is two vault writes with a
crash between them; a device is reprogrammed between two fragments of a read. `PROJECT.json` lists each hazard at its line.

## 2. Plan

Ordered by how much of the program's behaviour hangs on it.

| | modules | what they model | status |
|---|---|---|---|
| 1 | `Reload`, `ReloadInv`, `ReloadProofs` | startup, configuration transaction, shutdown over the runtime set | checked, proved |
| 2 | `PublishEngine`, `Batches`, `PollDriver`, `PushDriver`, `DriverProofs` | gate, batches, baselines, pause and staleness in both drivers | checked, proved |
| 3 | `PushSession`, `PushSessionProofs` | session handle, translator and I/O manager of a class-1 session, over their four queues | checked, proved |
| 4 | `DeviceTask`, `DeviceTaskProofs` | connect, back off, control channel of one device task | checked, proved |
| 5 | `IoManager`, `IoManagerProofs`, `QueueTheorems`, `EventQueue` | class-1 connections on one socket, and the queue to their consumer | checked, proved |
| 6 | `Rpc`, `EnipSession`, `EnipSessionProofs`, `Keepalive`, `Connect`, `Framing` | the explicit-messaging session, what it promises, its keepalive, a connect attempt, the framed reader | checked; the refinement of `Rpc` checked, its steps proved; all but `Framing` proved |
| 7 | `CertLifecycle`, `SecurityConfig` | rotation, expiry, enrollment; what a security block stands for | checked, `CertLifecycle` proved |
| 8 | `Commands`, `Metrics`, `PollSession`, `AdapterProofs` | the services around a device task, and the tag session under it | checked, proved |
| | `Device`, `Enip`, `Adapter` | the components of one layer side by side | |
| 9 | `Values`, `Layout`, `PushConfig`, `DeviceConfig`, `EPath`, `Messages` | the pure code, against reference definitions | checked |

`PollDriver` and `PushDriver` use `PublishEngine`'s operators; `EnipSession` instantiates `Rpc` with a refinement mapping;
`DeviceConfig` extends `PushConfig` and that `Layout`; `Messages` extends `EPath`. `Device`,
`Enip` and `Adapter` instantiate the components that belong to one layer side by side, with a
variable `part` that says which of them a behaviour is one of; the variables of the others do not
change. The runs check these specifications, under the settings of their `MC…` module and
configuration, and the theorems are about the same ones.

What could follow: an abstract atomic apply that `Reload` implements between applies, and a
telemetry channel that both drivers implement, are worth stating as specifications.

## 3. The modules and the code

### Reload

| state | code |
|---|---|
| `main`, `started`, `root`, `boot`, `fresh`, `drained` | `App::run`'s position, the reload gate, the root token, and the local vectors of startup and of a drain pass |
| `rt`, `registry`, `global` | the runtimes (a slot is one launched `DeviceRuntime`), `DeviceRegistry.devices` and `.global` |
| `prior`, `repoll` | the generation's snapshot in `ReloadCoordinator`, the advertised `repoll` |
| `pc`, `cand`, `plan`, `todo`, `starts`, `stopping`, `inserting`, `clearing`, `stopped`, `launched` | the position and the locals of `prepare`, `commit` and `rollback`; `stopped` and `launched` are `UndoState` |
| `alarm` | latched `device-unreachable` alarms on the bus |
| `lost`, `excused`, `cleared`, `muted` | history only |

Three owners of the set interleave. `App`: `BootLaunch`, `BootDone`, `BootFail`,
`ShutdownSignal`, `Drain`, `DrainStopped`. The transaction, stage by stage as `commit`
numbers them: `Prepare`/`Reject`, `CommitBegin`, `Detach`, `StopBegin`, `StopEnd`,
`ClearAlarm`, `SetGlobal`, `Launch`, `Insert`, `CommitOk`, or `LaunchFailed` followed by
`UndoLaunched`, `UndoStopped`, `Relaunch`, `RollbackDone`. One device task per slot:
`Connect`, `LinkLost`, `TaskEnd`. A document is a view (all that is not
`component.instances`) and a sequence of entries; an entry is an id and a raw subtree, and
of a subtree only what decides about it is kept (it parses or not, its adapter is known or
not, it is poll or push). A stop is in time or overruns its budget; overrunning tasks are
aborted and not awaited, as in `stop_tasks`.

### PublishEngine, PollDriver, PushDriver

`PublishEngine` has the operators of `publish.rs`: `gate_passes` with the three deadbands,
`Admit` and `Buffer` (the pending half of the baseline and the open window), `settle`,
`discard_open_batches`, `rebase_stale`, `rebase_from`, `is_stale`; `Batches` names the last GOOD
sample of a batch, which is what its publish leaves downstream. The engine keeps one
independent `SignalState` per signal id, so one signal is modelled. Time is in ticks, ages
saturate where they no longer matter.

`PollDriver` is the loop of `poll_until_disconnected` around it: `Open` and `Leave` (a new
engine per session, the pause flag surviving it), `Poll`, `Repoll`, `Flush`, `Emit`,
`Pause`, `Resume`. Every publish may fail. `PushDriver` is `consume_push` behind the
bounded update channel: `EmitData` is the translator's (snapshot first, then a send that
waits for room, `parked`), `Consume` the loop's, with the sample floor of `process_frame`.
`bus`, `sent`, `ref`, `quiet`, `awake`, `gap`, `early`, `rebased` and the provenance marks
of a sample are history.

### PushSession

| state | code |
|---|---|
| `drv`, `cur`, `outbuf`, `ans`, `late`, `closeLate`, `ack` | the driver inside `set_output` or `close_with_cap`, the candidate image, `out_buf`, what each write was answered, the deadlines, the one-shot reply |
| `control`, `updates` | the two channels between the session handle and the translator |
| `tr`, `job`, `todo`, `next`, `closeAck`, `aborted` | the translator: its position, the command in hand, the updates it is sending |
| `mgr`, `conn`, `up`, `events`, `mq`, `mack`, `producer` | the I/O manager: its command queue, the connection, the event queue with latest-wins eviction, the producer buffer |

The driver: `SetOutput`, `Handoff`, `AwaitVerdict`, `TakeUpdate`, `Leave`, `CloseSend`,
`CloseAwait`, `Join`, `Drop`. The translator: `TakeEvent`, `SendUpdate`, `TakeControl`,
`Stage`, `Verdict` (with `Consult`), `CloseConnection`, `TearDown`, `AbortLands`. The
manager: `Command`, `CommandsEnd`, `Frame`, `Lose`. A deadline is a flag that rises at any
time (`Expire`, `CloseExpire`). What a task does between two awaits is one action in which
the clock stands still. `close_with_cap` that runs out of time aborts the translator and waits for it
only so long (`ABORT_JOIN_GRACE`), so `Join` may return with the aborted task not yet ended, although
`live.rs` says that on return it has. The runtime is multi-threaded, so in the program the manager's look
at the deadline and its acknowledgement are a few instructions apart; a translator whose
timer fires exactly between them is outside the model.

### DeviceTask

`pc`, `call`, `attempt`, `wait`, `pending` are the locals of `run_device`/`run_push`;
`cancel` and `closed` the two ways to be told to stop; `link`, `paused`, `alarm`,
`tlsFailing` the shared health and the alarm; `queue`, `kind`, `status` the control channel
and what became of each request; `before` is history. Connecting: `ConnectOk`,
`ConnectFail`, `ConnectCancelled`; `ConnectOk` (poll) and `PushUp` report ONLINE, and only after
further awaits come `ClearAlarm` and `Greeted`, the answer to the reconnect. Disconnected (`serve_control_disconnected`):
`WaitElapsed`, `WaitStopped`, `WaitControl`, `WaitTick`. Connected: `SessionControl`,
`StartCycle`, `CallOk`, `CallFail`, `PushUp`, `PushLost`, `SessionStopped`. The end of a session
is its close, awaited whatever the token says (`StopClosed`, `RejoinClosed`, `LossClosed`), and
after a loss the alarm (`RaiseAlarm`), which a cancel in between does not stop. The biased
selects are the guards: cancel before control before everything else. A CIP call is not
interrupted, so it is a state. Both ladders, poll and push, are in the module (`mode`); a
poll instance is taken to run over TLS, which only adds the handshake event.

### IoManager, EventQueue

`IoManager` is `E/io.rs`: what a scanner decides about a ForwardOpen reply (whether it repeats
the request's identifiers, whether its packet interval is plausible, whether a redirect of the
output stream is followed), the calls (`forward_open` step by step, with a success reply that
cannot be decoded as an end of its own, `Unreadable`; `close`; cancellation at each await and the
drop of an open handle, `Cancel`), the socket task
(`manager_task`: commands, receive, tick) and its registry of connections, the event stream of
each, and a network that loses, repeats and reorders frames. A connection keeps how far its
last accepted frame is behind the newest one: the window rule looks only at the difference of
two sequence numbers, modulo `Modulus` (2^16). `owed` and `groups` are what has to be given
back: the target's connection and the multicast membership.

`EventQueue` separates what the mutex and the `Notify` separate: look, register, sleep on one
side, change and wake on the other.

### Rpc, EnipSession, Keepalive, Connect, Framing

`Rpc` is the promise of `EipClient::transaction`: a call ends once; with "ok" only for the
target's answer to that very call and only while the session lives; verdicts that mean
"reconnect" come from a session that has ended. `EnipSession` is how the code keeps it:
`connect` under one budget (dial, RegisterSession, class-3 open, and their undoing), callers
with their backstop timer, the bounded command channel, the actor (`Take`, `Write`, `Read…`,
`match_reply` over context, handle and status), consecutive-timeout streak, `close` and the
last handle's drop. The target answers late, twice or wrongly, stops reading or hangs up.
`ImplementsRpc` is `Rpc!Spec` under the mapping of the module's end: safety and the liveness
that every call begun ends.

`Keepalive` has the idle clock of a class-3 connection on both sides; `SilenceMeasured` says
that the target's watchdog is fed while the peer answers at all, and that the actor's streak
counts silence and not its own backlog. `Connect` is one attempt of `eip/live.rs` with the
budget it shares and the diagnostics after it; the peer is asked for its name after every error that
is not an i/o error, a time-out or a status of the class-3 open, so also when a registered peer hangs
up in that open. `Framing` is `EncapCodec` under a reader that
is given the bytes in any pieces.

### CertLifecycle, SecurityConfig

`CertLifecycle`: `cfg` is the instance's security block, `vault` the certificate, key and
trust store with the validity left, `pc`, `since`, `last` the driver loop of
`security_lifecycle.rs` and its timers, `exp`, `owed`, `alarm` the `CertWatcher`, `fresh` an
answer of the EST server being written back, `session` the material the live session was built
from. Actions are the loop's awaits: `Tick`, `Issued`/`ExchangeFails`, `Put`, `PutKey` (two
writes, with an abort and a restart between any two), `Watch`/`WatchFails`, `SendReconnect`,
`Connect`, `Reconnect`, and the operator's rotations. `SecurityConfig` has what validation
accepts, where the identity and the trust anchors are read from, and what verifier and server name
the client configuration gets. What validation leaves to the connect (a bundle without a
`caPem` under peer verification, an unsupported suite, a `serverName` that is no name) is named by
`LeftToConnect`. In `CertLifecycle` the trust store is a source of its own, which an enrollment does
not write; that the bundle written back has no `caPem` is `SecurityConfig`'s `write_enrolled`.

### Commands, Metrics, PollSession

`Commands`: a handler resolves an instance to a handle of one generation and keeps it over its
awaits, while the registry is changed under it; batches of reads and writes entry by entry
with the allow-list, `sb/signals` and `sb/browse` page by page, the control verbs. `Metrics`:
counters as pairs of total and interval, the connected-time gauge, the stack's cumulative
counters and their baselines per link, and the emission, which drains a family under the lock
and then defines and emits row after row with awaits on a store all devices share; an emission may
fail, and the drained interval with it (`unsent`). A frame that does not reach the task was lost or
evicted from the latest-wins queue; both count as gaps. The hierarchical browse asks for pages of
several symbols and follows any cursor past the previous start, one inside the page it had included.
`PollSession`: one tag of a device, read, written and listed request by request; the device's
storage, its denomination of counts and its symbols may change between them, and a page may be empty
although more follow, which ends the list.

### The pure modules

`Values` (`eip/types.rs`): decoding with scale and offset, and encoding of a write with its
range, exactness and rounding rules. f64 and f32 are scaled down to significands of 3 and 2 bits and
keep their form, round-to-nearest-even after each operation and overflow to what is not finite, so
that every rounding is reached. `Layout` (`assembly.rs`), `PushConfig` and `DeviceConfig` (`config.rs`, `io_spec`,
`build_class1_open`): what is accepted and which connection it opens. `EPath` and `Messages`
(`epath.rs`, `message.rs`, `cpf.rs`, `cm.rs`): encodings with bytes of base 4, so that every
change of width is reached, each against the way a message router reads them.

## 4. Runs

| run | question | bounds |
|---|---|---|
| `reload` | startup, applies, broken launches, link losses, shutdown at any point: is every task owned, is there one session per instance, does the set (and the advertised `repoll`) end as the generation declares, are kept instances left alone? | scope `one`: two ids, six documents (every disposition and every rejection), one apply; scope `two`: three documents of which each pair differs, two applies; slots for both generations and one more |
| `reload_live` | do applies and shutdowns end when device tasks hang? | one instance, one change |
| `device` | task: is every request answered once and truthfully, is a stop quiet and certain? drivers: is the baseline what was published, is a pause silent, does the bus end up with the device's value? | two requests of any kind, a ladder with rungs below the ceiling, both modes; poll with three values around an absolute deadband, and arrays with a percent one; push with two values and an idle frame behind a channel of one; with and without coalescing windows |
| `push_session` | do the three tasks always come apart, is a refusal true, is the stream complete and in order? | two writes to two fields, every queue of capacity one, where each send can block |
| `io_manager` | does a stream only go forward, is what was opened given back, is the end of a connection and a silent target noticed? | two connections (one multicast), sequence numbers modulo 8, one frame reordered, queues of one |
| `enip` | does the session implement `Rpc`; is silence told from backlog and from local delay; do all tasks end; does TCP's cutting matter; are diagnostics whole and truthful? | one CIP and one discovery request beside the session's own, one fault of the target, a channel of one; the keepalive with a plausible and an implausible interval; two events; frames up to one byte beyond the cap |
| `adapter` | do rotations reach the session, are command replies true, do counters add up, are tag transfers and listings exact? | four certificates, one rotation, one fault; two instances with two generations, two commands, pages of two; one push and one poll device; six booleans in words of two, three operations, one change of the device |
| `pure` | do configurations, conversions and encodings meet their references? | every input of sets that straddle each limit of the code, 3.85 million |
| `push_session_refused`, `push_paused_drift`, `poll_session_converges`, `io_frames_negotiated` | the findings of section 7 | as above |

Several properties are conjunctions: the comment above each names the parts, which are
definitions of the component's module (`CommandsTruthful` is `WritesPermitted`,
`ReplyTruthful` and `WalksComplete` of `Commands`, and so on).

Why the bounds are enough: the interesting cases of the drivers need a committed value, a
pending one and a third reading; those of the queues need a full queue and one more
message; those of the transaction need one kept, one changed and one removed instance, one
failing launch and a second apply; a late reply needs one request to time out and one to
follow; the sequence window needs a gap of half the range; a torn transfer needs two fragments.
Ages and attempt counters saturate at the value after which the code no longer distinguishes
them.
Each property has a mutant in `PROJECT.json`, a plausible bug in the code it is about (the
definitions named after it with a suffix, marked "Variant"), under which it fails.

`CHECK_DEADLOCK FALSE` where the system may stop: in `enip` a session, a queue or an attempt
that ended, in `io_manager` a socket task that exited with nobody left to call it, in `adapter` a
client after its bounded number of commands, in `pure` an input that was applied. The task and
driver runs never stop.

## 5. Fairness

- `Reload`: the transaction and the supervisor keep going, since each of their waits has a
  timer (`stop_budget`, `NOTIFY_BUDGET`). Nothing is assumed of device tasks.
- `PollDriver`, `PushDriver`: the connect loop retries for ever, each timer that fired is
  served, time passes; for push the device also produces cyclically. `Calm` marks the moment
  from which the device, the broker and the operator rest.
- `PushSession`: the three tasks run, deadlines pass, an abort lands at the next await.
  Taking from the control channel is strongly fair: the translator's `select!` is not
  biased and polls its arms in random order. Nothing is assumed of frames or callers.
- `DeviceTask`: a connect and a call end (they have timeouts), waits elapse, a ready arm is
  polled. A wait of zero serves no request, so the jitter must not be zero for ever: it is
  random (strong fairness of a failed connect with a wait). The device may refuse for ever.
- `IoManager`: time passes and the socket task serves its tick. Nothing is assumed of the
  network, the target or the callers.
- `EnipSession`, `Keepalive`, `EventQueue`, `Connect`: time passes and a task that can step
  does; timers that elapsed fire. The target need not answer.
- `CertLifecycle`: the driver loop and the connect path run, an exchange with the EST server
  ends one way or the other; faults and rotations are bounded, so from some point on the
  server and the vault work.

In the runs that put several components side by side these conditions hold for the part the
behaviour is one of (`While(part, action)`).

## 6. Proofs

Each inductive invariant was first checked by TLC as an invariant of the component's run, except
for the typings TLC cannot evaluate (members of infinite sets, and sets of unlike members), and then proved. A proof has one lemma per action and one step per conjunct the action disturbs. The named
assumptions on the constants are evaluated by TLC for every instance the runs use.

**`ReloadProofs`**, for every set of ids, documents and slots and every bound, under the three
named assumptions of `Reload` (documents have their shape, the `No…` constants are not members,
the bounds are naturals):

- `Invariance`: `Spec => []IInv`;
- `TypeCorrect`, `EveryTaskOwned`, `SingleSession`, `GenerationBinding`: `TypeOK`,
  `LiveIsOwned`, `OneSession` and `BoundToGeneration` are invariants;
- `SetInvariant`, `RunningSetIsGeneration`: `GenInv` and `SetIsGeneration` are invariants;
- `RemovalInvariant`, `RemovedAlarmStaysCleared`: `AlarmInv` and `RemovedAlarmCleared` are;
- `KeptIsUndisturbed`: the action property `KeptUndisturbed`.

None of these is inductive. That a commit's launch cannot open a second session
needs to know that the old runtime was already stopped, hence what the plan still has to
launch does not run (`StartsApart`), nor what the undo record would relaunch unless the
commit replaced it (`UndoApart`), nor what startup has still to launch (`BootApart`); that
in turn needs to know which owner holds which runtime in which phase (`Phases`, `Stages`,
`Ownership`). Shutdown breaks the rule: a commit may launch a second runtime while the
drain still holds the first. It is harmless because one of the two was born under a
cancelled root and never leaves its first select (`Twins`). `Bound` follows the generation
through the stages: a launched instance belongs to the candidate, every other one to the
prior, and a plan that keeps anything has an unchanged view.

`SetIsGeneration` speaks only of the moments between applies; `GenInv` extends it to every
stage: what runs, what is still to be launched and what the undo record would bring back make
up the candidate's and the prior's document at each point of a commit or a rollback. `AlarmInv`
keeps the ids of the plan apart (kept, removed, restarted) and says that a removed instance that
was stopped has no owned task left to raise its alarm; `KeptUndisturbed` follows from the same
partition.

**`DeviceTaskProofs`**, for any set of requests, any reconnect window and any channel
capacity, in both ladders, from `TaskAssumption` (the attempt bound is a
natural; the window's ends and the capacity are positive; `None` is not a request), `ShiftAssumption` (2^0 to 2^20 are
positive naturals, which the provers do not compute) and `KindsAssumption` (`None` is not a
verb):

- `TaskInvariance`: `Spec => []TaskInv`;
- `TaskTypeCorrect`, `RepliesKept`, `OnlineTruthful`: `TypeOK`, `NoReplyLost` and
  `OnlineIsTrue` are invariants;
- `ReconnectsFresh`, `StopsQuietly`: the action properties `ReconnectIsFresh` and `StopIsQuiet`.

`NoReplyLost` is not inductive: taking the head of the channel would lose a second copy of
it or overwrite a reply already held, hence `QueuedOnce` (a request is in the channel once)
and `Holders` (the call in flight and the pending reconnect exclude each other and exist
only in the state that answers them). `Holders` also says that a pending reconnect precedes
the attempt under way, which is all `ReconnectsFresh` needs; `NewIsNew` separates a request
being made from one already accepted.

**`DriverProofs`**, about `Device`, for every set of values and readings, every deadband and publish
mode, every window, floor, threshold, interval and channel depth. The assumption `DriverSettings`
says of each driver's settings that `None` is not a value, an age or a state, that durations are
naturals and that a GOOD reading carries a value.

- `DriverInvariance`: `DriverInv` is an invariant, that is `PollInv` while the poll loop runs and
  `PushInv` while the consume loop does, their types among them;
- `DriversPauseIsSilent`, `DriversBaselineIsTrue`: `PauseIsSilent` and `BaselineIsTrue`, of both loops;
- `StaleIsUnpaused`: the action property `StaleNotWhilePaused`;
- `FloorIsKept`: `FloorHolds`.

A loop is silent because its own flag agrees with the shared one exactly while a session is open,
also when the pause came with the link down (`SessionPart`). The baseline needs the newest GOOD
sample of the window to be a value (`WindowPart`), an engine that has not met the signal not to
have published it (`SessionPart`), and for push that no window is open during a pause, or a
resume would re-base under waiting samples. That a window holds no repeats rests on the pending
half being its newest GOOD value (`AppendSpaced`). Staleness: outside a pause the signal's clock
is not ahead of unpaused time (`ClockPart`). The floor: it is restarted by every admission, so it
is never older than the last GOOD one (`FloorPart`). The deadband rules stay opaque throughout:
nothing depends on them.

**`PushSessionProofs`**, for any number of writes and every queue capacity, from
`SessionAssumption` (the zero of the image is not a written value, the depths are positive):

- `StreamInvariant`, `StreamIsInOrder`, `LossIsAlwaysNamed`: `StreamInv` is an invariant; with it
  `StreamEndsInOrder`, and that a loss reaches the session before any refusal it causes;
- `AnswerInvariant`, `AnswersAreTrue`, `OutBufIsMirror`: `AnswerInv`, `AnswersTrue` and
  `OutBufMirrors` are invariants.

`StreamInv` sees the event queue, the translator's hands and the update channel as one stream in
which "up" comes first and "lost" last, over the eviction of data events. `AnswerInv` says where
each write is (channel, translator, manager's queue, acknowledgement) and what may still be said
of it, so that a refusal cannot overtake a staging.

**`IoManagerProofs`**, for every number of connections and queue depth, from `WindowAssumption`:
what may be outstanding when the watchdog looks (reordering, its multiplier, its lateness) fits into
half the sequence range, as 512 intervals do into 2^15.

- `IoInvariant`: `IoInv` is an invariant;
- `WindowIsSound`, `ResourcesAreReleased`, `EndIsAlwaysTold`: `WindowSound`, `ResourcesReleased` and
  `EndIsTold` are.

`IoInv` ties every call to what it holds (the target's connection, the membership, its place in the
registry) at each of its awaits, so that a failure there leaves an owner for it. Not among the failures are a reply that cannot be
read, and a caller or a handle that is dropped: neither sends a ForwardClose.
The window is where the assumption is used: without it a frame half the range old would be taken
for a new one.

**`EnipSessionProofs`**, for every set of callers and requests and every timeout (assumptions
`UsersAssumption`, `AsksAssumption`, `TimeoutAssumption`):

- `SessionInvariance`: `SessionInv` is an invariant;
- `SessionImplementsRpc`: `Spec => R!Init /\ [][R!Next]_(R!vars)`, the safety half of
  `ImplementsRpc`;
- `TornIsSilent`: the action property `TornStreamIsSilent`;
- `StreakMeasuresSilence`: `StreakIsSilence`, the session's part of `SilenceMeasured`;
- `ClientInvariance`, about `Enip`: `ClientInv` is an invariant, that is `SessionInv` and, while they
  run, `KeepInv`, `ConnectInv` and `QueueInv`;
- `SilenceIsMeasured`: `SilenceMeasured`, for every packet interval the target may answer, from
  `KeepaliveMargin`: a quarter of the connection's window holds the deadlines of the probes that may
  be lost and of the requests ahead of them, which is how the documentation of `class3_rpi` asks it
  to be set;
- `DiagnosticsAreHonest`: `DiagnosticsHonest`, from `ShownAreRead` (the status shows only attributes
  that are read);
- `NoEventIsLost`: events are received in order and once, and a receiver never sleeps on something to
  receive unless its wake-up was given or is owed. This is the safety behind `TasksProgress`, for any
  number of events and of cancelled `recv` calls.

`SessionInv` is `SessionTypes`, `Opening` (what each stage of `connect` has and has not yet),
`Issued` (contexts in flight were issued, to one request each), `Correlated` (a frame with the
current context is for the request in hand) and `StreamEnds`. The simulation has one lemma per
action; most steps are stutters, and the ones that are not are one `Rpc` step each. `Opening` is
needed because a failed connect gives up the calls that wait for it in one step.

`KeepInv` bounds the target's clock in each state of the probe by what is still ahead of it: the time
to the next probe, the request on the line and the losses so far; the window itself is only reached
through that sum. `ConnectInv` says that the posture is read object by object in order, so what is
held is exactly what lies before the cursor, and that an error keeps its class over the probe that
asks for the peer's name. `QueueInv` has the race of `recv`: between the look and the sleep the
future is already registered.

**`AdapterProofs`**, about `Adapter`, for every set of certificates, validity, renewal window and
rotation; for any instances, generations, layouts, allow-lists and batches; for any devices,
budgets and sequence space; for every tag, count, word and fragment size. Assumptions:
`SequenceSpace` (more than two sequence numbers), `CommandTables` (the signals of a generation have
distinct names, as the configuration demands; batches are lists of entries; a page holds one entry
or more) and `TagSizes` (words and fragments are not empty, a configured count is 1 or more, the
instance ids are naturals with a last one).

- `AdapterInvariance`: `AdapterInv` is an invariant, that is `CertInv`, `CommandInv`, `MetricInv` or
  `TagInv` with `ListIs`, of the part that runs;
- `RotationsAreApplied`: `RotationIsApplied`;
- `CommandsAreTruthful`: `CommandsTruthful`;
- `EveryCountOnce`: `CountsAddUp`;
- `SessionsAreExact`: `SessionExact`;
- `ListingsAreExact`: `ListingExact`.

`CertInv` follows the expiry state through the moment in which a rotation has been seen and its
reconnect not yet sent: the event owed then is the new state's, and is told after it. `CommandInv`
keeps the resolved handle, the request in flight and the entry of the batch together (`RequestIs`),
so that the reply and the audit can be compared entry by entry with what landed (`WriteIs`), and
says how far a walk served by one generation has come (`WalkIs`, `TreeIs`). `MetricInv` adds up what
was sent, what failed to be sent, what a drained row still carries and what the interval holds, counter by counter
(`SumsAre`); the rows of a drained family share no counter (`RowsApart`), or sending one would send
another twice; the connected time and the baselines of a link are accounted for by its phase
(`ClockIs`, `LinkIs`). `TagInv` says of a transfer under way that each unit collected was held by the
tag since the operation began (`HeldUnits`) and that a write's fragments are those applied
(`TagWriteIs`); `Converging` says that a BAD reading leaves the session knowing how the tag is
stored, so that the next request asks for what the device answers, if it is one that answers
(`CountsAnswered`: every tag of one boolean per byte; a packed one only if it is a single word counted
in booleans, or counted in words and as many words long as booleans are configured). `ListIs` says that a walk has
every symbol below its cursor, also when a page was cut or the device started over, unless an empty page ended it; the ordering
guard looks at neighbours only, and that this orders the whole page (`NeighboursSuffice`) is what
makes the last record of a cut page a safe place to resume.

`QueueTheorems` has what these proofs share: what append, tail and eviction do to a queue, the
least member of a set of naturals, and the last GOOD sample of a batch.

Only model-checked:

- liveness, which fairness and `ENABLED` put out of the prover's reach: `OperationsEnd`,
  `TaskProgress`, `Converges`, `NobodyHangs`, `SilenceIsNoticed`, `TasksProgress`,
  `IdentityRecovers`, and the liveness half of `ImplementsRpc`;
- `FramesWhole`: the decoder's output is a recursive function of the bytes given so far, and to
  compare it with the frames sent needs induction over them;
- `ValuesExact`, `ConfigSound`, `MessagesExact`: what the folds and recursive functions of the pure
  modules return for every input needs induction over the data.

## 7. What the checks found

Four disagreements between the code and what the repository says of it have a run of
their own:

- `push_session_refused`: a write staged in time is answered as refused when its verdict
  does not travel back by the deadline. The value is in the producer buffer and rides every
  frame until the next accepted write takes it back, while `DESIGN.md:1357` says "Nothing
  was staged and nothing will be".
- `push_paused_drift`: a resume re-bases to the snapshot, but updates captured before it
  are still in the channel and are then published as changes (`DESIGN.md:1061`).
- `poll_session_converges`: a packed boolean array of a controller that counts the other way
  stays BAD, or is never read (`DESIGN.md:169`: "asking for N converges either way").
- `io_frames_negotiated`: nothing is staged when a class-1 connection opens, so its frames
  carry no application data until the first write, whatever size was negotiated
  (`docs/sample-configurations.md:198`).

More are stated in the modules, after "What the documentation says and the code does not do",
and TLC refutes each one when it is added, under the instance name its component has in the module
of the run, to the matching configuration (in `MCAdapter.cfg` with `Parts` set to that component):

| statement | what the code does |
|---|---|
| `Reload!NoLatchedAlarm` | an instance whose adapter token becomes unknown is stopped and not restarted, but is not in `plan.removed`: its alarm stays latched (`reload.rs:618`) |
| `Reload!RestoredAlarmRaised` | a rollback restores an unreachable instance whose alarm the commit had cleared; a failed connect raises none (`DESIGN.md:1492`) |
| `Reload!ExitJoinsSessions` | `App::run` may return while a commit still stops detached runtimes |
| `IoManager!EveryFailureCloses` | a ForwardOpen reply that says success and does not decode fails the open without a ForwardClose (`io.rs:1455`; `io.rs:1401`: "any failure after a successful ForwardOpen issues a best-effort ForwardClose") |
| `PollDriver!PausedSpanNotCounted` | a signal not yet read in this session counts the paused time as stale (`DESIGN.md:1335`) |
| `PushDriver!OnlyGoodIsBaseline` | a resume while the device is idle makes an UNCERTAIN value the baseline (`DESIGN.md:1077`) |
| `CertLifecycle!InterruptedEnrollmentRecovers` | certificate and key are two vault writes; after an abort between them a mismatched pair is presented to the EST server for ever (`security_lifecycle.rs:43`) |
| `CertLifecycle!ExpiredIsRefused` | days are truncated towards zero: a certificate that lapsed less than a day ago still counts as valid |
| `Metrics!OwnDimensions` | define and emit are two calls on a shared store: a row may go out under another device's dimensions (`metrics.rs:27`) |
| `Metrics!RefusalReported` | a link that ends before the next metrics interval takes its refused redirect with it (`push_driver.rs:386`) |
| `PollSession!ReplyNeverBounces` | an empty or partial element is a malformed reply and closes the session (`session.rs:6-11`) |
| `Commands!WalkOfOneLayout` | a restarted instance serves the next page of a walk from its new layout |
| `Commands!AddressedFieldOnly` | a push write that names another assembly lands on the output assembly |
| `Commands!RefusedWhole` | a batch with a malformed entry may be written in part before it is refused; the audit has what was written |
| `MCPure!TransformsExact` | under a transform only the literal is held against 2^53, the difference and the quotient round without a check: 2^53 with offset -1 lands on 2^53 (`types.rs:562`; `types.rs:22-24`: "a typed error naming it, never a silent rounding") |
| `MCPure!ConfigDocumented`, `EnrollmentKeepsConnecting`, `IdentityWritesExact` | accepted `io` blocks that open something else than `configuration.md:252` says; a renewed certificate and a trust anchor of another source (`how-to-guides.md:368`); writes through a scale of 1.0 |

Observations without a statement: an emission that fails loses its interval, which is only logged
(`metrics.rs:1247`); a `close()` that aborted the translator may return before it ended
(`live.rs:394`); the posture and identity reads share the connect budget, so
a device that leaves both unanswered runs every attempt out of time (`live.rs:96`); an output of
format `heartbeat` with a size and signals is accepted; `rpiMs` above 4294967 and sizes above
65529 fail only when the connection is opened; a signal with `arrayCount: 1` is published as a
bare value and must be written as an array of one; default group ids may collide with
configured ones; readings are keyed by tag path, so two signals on one tag share the last.

## 8. Not modelled

TLS and EST cryptography, HTTP and X.509 parsing (a certificate is an identity with a
validity); serde shapes and the wording of errors; the rendering of status documents, events
and metric names; the tables of CIP type, status and service codes; ListIdentity discovery; the
simulator backend; the message bus and its library (a publish succeeds or fails, an apply
arrives under the library's lock); wall-clock durations (in time or not, or a few ticks).
