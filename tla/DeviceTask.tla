------------------------------ MODULE DeviceTask ------------------------------
(***************************************************************************)
(* One device task (crates/ethernet-ip-adapter/src/reconnect.rs): connect, *)
(* run the driver, back off, connect again; and the control channel that   *)
(* `sb/*` verbs arrive on, served by the driver (poll_driver.rs,           *)
(* push_driver.rs) or by the disconnected wait (app.rs).                   *)
(*                                                                         *)
(* What the driver reads and publishes is PollDriver's and PushDriver's    *)
(* matter; here a cycle succeeds or breaks the link.  A CIP call is not    *)
(* interrupted: it is a state of its own ("busy"), in which requests queue *)
(* and a cancel waits.  So are the stretches between the awaits of a       *)
(* connect ("greet", "cleared") and of the end of a session ("stopping",   *)
(* "rejoining", "losing", "lost"): other actors see what is reported then. *)
(***************************************************************************)
EXTENDS Integers, Sequences, FiniteSets

CONSTANTS
    Reqs,          \* requests callers may make
    None,
    BaseMs, MaxMs, \* the reconnect window, in ticks
    MaxAttempt,    \* bound: where the attempt counter saturates
    QueueCap       \* capacity of the control channel

ASSUME TaskAssumption ==
    /\ None \notin Reqs
    /\ BaseMs \in Nat \ {0} /\ MaxMs \in Nat \ {0}
    /\ MaxAttempt \in Nat /\ QueueCap \in Nat \ {0}

\* The shift of Backoff::delay stays below 2^20 (`attempt.min(20)`).
ASSUME ShiftAssumption == \A n \in 0..20 : 2^n \in Nat \ {0}

\* "read" stands for what `sb/read` sends: ReadNow on a poll instance, where an
\* error breaks the link, Snapshot on a push one.  "write" stands for Write,
\* WriteOutput and Browse, whose error does not break it.
Kinds == {"reconnect", "pause", "resume", "repoll", "read", "write"}

ASSUME KindsAssumption == None \notin Kinds

VARIABLES
    mode,        \* poll | push
    pc,          \* connect | greet | cleared | session | busy | stopping | rejoining
                 \* | losing | lost | wait | ended
    call,        \* the request the call in flight is for, None for a cycle
    attempt, wait,
    pending,     \* pending_reconnect
    cancel,      \* the instance's token
    closed,      \* every control sender is gone
    \* --- Health and the event surface
    link, paused, alarm,
    tlsFailing,  \* Health.tls_handshake_failing
    tlsEvents,   \* `tls-handshake-failed` events since the last connect
    \* --- the control channel
    queue, kind, status,
    \* --- history, read by properties only
    before,      \* requests issued before the current connect attempt began
    atCancel     \* where the task was when it was cancelled, None until then

health == <<link, paused, alarm, tlsFailing, tlsEvents>>
reqs   == <<queue, kind, status>>
ctl    == <<mode, cancel, closed>>
hist   == <<before, atCancel>>
vars   == <<pc, call, attempt, wait, pending, ctl, health, reqs, hist>>

Init ==
    /\ mode \in {"poll", "push"}
    /\ pc = "connect" /\ call = None /\ attempt = 0 /\ wait = 0
    /\ pending = None /\ cancel = FALSE /\ closed = FALSE
    /\ link = "connecting" /\ paused = FALSE /\ alarm = FALSE
    /\ tlsFailing = FALSE /\ tlsEvents = 0
    /\ queue = <<>> /\ kind = [r \in Reqs |-> None] /\ status = [r \in Reqs |-> "new"]
    /\ before = {} /\ atCancel = None

Issued == {r \in Reqs : kind[r] # None}

-----------------------------------------------------------------------------
(* The callers and the supervisor *)

\* h.control.send(...): a full channel waits, a dropped one is DEVICE_UNAVAILABLE.
Issue(r, k) ==
    /\ kind[r] = None /\ ~closed
    /\ kind' = [kind EXCEPT ![r] = k]
    /\ \/ /\ pc = "ended"
          /\ status' = [status EXCEPT ![r] = "dropped"] /\ UNCHANGED queue
       \/ /\ pc # "ended" /\ Len(queue) < QueueCap
          /\ status' = [status EXCEPT ![r] = "queued"] /\ queue' = Append(queue, r)
    /\ UNCHANGED <<pc, call, attempt, wait, pending, ctl, health, hist>>

Cancel ==
    /\ ~cancel
    /\ cancel' = TRUE /\ atCancel' = pc
    /\ UNCHANGED <<pc, call, attempt, wait, pending, mode, closed, health, reqs, before>>

\* The registry's handle is gone and no command holds a clone of it.
CloseControl ==
    /\ ~closed
    /\ closed' = TRUE
    /\ UNCHANGED <<pc, call, attempt, wait, pending, mode, cancel, health, reqs, hist>>

-----------------------------------------------------------------------------
(* Ways on *)

Answered(s, r, result) == IF r = None THEN s ELSE [s EXCEPT ![r] = result]

\* The loop head: an attempt begins.  Push reports every attempt as
\* Connecting; poll leaves the link as the way here left it.
ToConnect(l) ==
    /\ pc' = "connect"
    /\ link' = IF mode = "push" THEN "connecting" ELSE l
    /\ before' = Issued /\ UNCHANGED atCancel

\* The task returns: what it held, and what is still queued, dies with it.
Stop(s) ==
    /\ pc' = "ended" /\ call' = None /\ pending' = None
    /\ queue' = <<>>
    /\ status' = [r \in Reqs |-> IF s[r] \in {"queued", "held"} THEN "dropped" ELSE s[r]]
    /\ UNCHANGED <<attempt, wait, ctl, health, kind, hist>>

Min2(x, y) == IF x < y THEN x ELSE y

\* The cap of one rung; the jitter takes a value below it.
RungCap(n) == Min2(BaseMs * 2^Min2(n, 20), MaxMs)

delay(n) == 0..(RungCap(n) - 1)

Climb == attempt' = Min2(attempt + 1, MaxAttempt)

-----------------------------------------------------------------------------
(* Connecting; the cancel arm comes first *)

ConnectCancelled == pc = "connect" /\ cancel /\ Stop(status)

\* Variant: the select is not biased, the connect may win.
ConnectOk_unbiased ==
    /\ pc = "connect"
    /\ attempt' = 0 /\ tlsFailing' = FALSE /\ tlsEvents' = 0
    /\ \/ /\ mode = "poll" /\ pc' = "greet" /\ link' = "online" /\ UNCHANGED <<status, pending>>
       \/ /\ mode = "push" /\ pc' = "session" /\ UNCHANGED link
          /\ status' = Answered(status, pending, "ok") /\ pending' = None
    /\ UNCHANGED <<call, wait, ctl, paused, alarm, queue, kind, hist>>

\* Poll is online at once and reports it; push answers the reconnect that asked
\* for the connection, and is online only with its first frame.
ConnectOk ==
    /\ pc = "connect" /\ ~cancel
    /\ attempt' = 0 /\ tlsFailing' = FALSE /\ tlsEvents' = 0
    /\ \/ /\ mode = "poll" /\ pc' = "greet" /\ link' = "online" /\ UNCHANGED <<status, pending>>
       \/ /\ mode = "push" /\ pc' = "session" /\ UNCHANGED link
          /\ status' = Answered(status, pending, "ok") /\ pending' = None
    /\ UNCHANGED <<call, wait, ctl, paused, alarm, queue, kind, hist>>

\* Variant: only the poll ladder clears the alarm.
ClearAlarm_pollOnly ==
    /\ pc = "greet"
    /\ pc' = "cleared" /\ alarm' = (alarm /\ mode = "push")
    /\ UNCHANGED <<call, attempt, wait, pending, ctl, link, paused, tlsFailing, tlsEvents, reqs, hist>>

\* After emit_now and `device-connected` have been awaited: clear_alarm.
ClearAlarm ==
    /\ pc = "greet"
    /\ pc' = "cleared" /\ alarm' = FALSE
    /\ UNCHANGED <<call, attempt, wait, pending, ctl, link, paused, tlsFailing, tlsEvents, reqs, hist>>

\* Variant: a reconnect that is still queued is answered by this attempt too.
Greeted_answersQueued ==
    /\ pc = "cleared"
    /\ pc' = "session" /\ pending' = None
    /\ status' = [r \in Reqs |->
                    IF r = pending \/ (status[r] = "queued" /\ kind[r] = "reconnect") THEN "ok"
                    ELSE status[r]]
    /\ queue' = SelectSeq(queue, LAMBDA r : kind[r] # "reconnect")
    /\ UNCHANGED <<call, attempt, wait, ctl, health, kind, hist>>

\* The reconnect that asked for the session is answered (a push one already
\* was) and the driver's loop runs.
Greeted ==
    /\ pc = "cleared"
    /\ pc' = "session" /\ pending' = None
    /\ status' = Answered(status, pending, "ok")
    /\ UNCHANGED <<call, attempt, wait, ctl, health, queue, kind, hist>>

\* Variant: the failed attempt does not answer the reconnect that asked for it.
ConnectFail_keepsReply(permanent) ==
    /\ pc = "connect" /\ ~cancel
    /\ pc' = "wait" /\ link' = "backoff"
    /\ wait' \in (IF permanent THEN {MaxMs} ELSE delay(attempt)) /\ Climb
    /\ tlsFailing' = (tlsFailing \/ (permanent /\ mode = "poll"))
    /\ tlsEvents' = IF tlsFailing' /\ ~tlsFailing THEN tlsEvents + 1 ELSE tlsEvents
    /\ UNCHANGED <<call, pending, ctl, paused, alarm, queue, status, kind, hist>>

\* Refused or timed out.  A permanent failure waits at the ceiling; on a TLS
\* (poll) instance it is a failing handshake, reported on the edge.
ConnectFail(permanent) ==
    /\ pc = "connect" /\ ~cancel
    /\ pc' = "wait" /\ link' = "backoff"
    /\ status' = Answered(status, pending, "err") /\ pending' = None
    /\ wait' \in (IF permanent THEN {MaxMs} ELSE delay(attempt)) /\ Climb
    /\ tlsFailing' = (tlsFailing \/ (permanent /\ mode = "poll"))
    /\ tlsEvents' = IF tlsFailing' /\ ~tlsFailing THEN tlsEvents + 1 ELSE tlsEvents
    /\ UNCHANGED <<call, ctl, paused, alarm, queue, kind, hist>>

-----------------------------------------------------------------------------
(* Disconnected: serve_control_disconnected *)

\* The remaining wait is looked at before anything else.
WaitElapsed ==
    /\ pc = "wait" /\ wait = 0
    /\ ToConnect(link)
    /\ UNCHANGED <<call, attempt, wait, pending, ctl, paused, alarm, tlsFailing, tlsEvents, reqs>>

WaitStopped ==
    /\ pc = "wait" /\ wait > 0
    /\ cancel \/ (queue = <<>> /\ closed)
    /\ Stop(status)

\* Variant: what needs the device waits in the channel for it.
WaitControl_queues ==
    /\ pc = "wait" /\ wait > 0 /\ ~cancel /\ queue # <<>>
    /\ queue' = Tail(queue)
    /\ LET r == Head(queue)
       IN \/ /\ kind[r] = "reconnect"
             /\ pending' = r /\ status' = [status EXCEPT ![r] = "held"]
             /\ wait' = 0 /\ ToConnect(link) /\ UNCHANGED paused
          \/ /\ kind[r] \in {"pause", "resume"}
             /\ paused' = (kind[r] = "pause")
             /\ status' = [status EXCEPT ![r] = "ok"]
             /\ UNCHANGED <<pc, link, wait, pending, hist>>
    /\ UNCHANGED <<call, attempt, ctl, alarm, tlsFailing, tlsEvents, kind>>

\* Reconnect cuts the wait short, pause and resume take effect, the rest is
\* told that the device is disconnected.
WaitControl ==
    /\ pc = "wait" /\ wait > 0 /\ ~cancel /\ queue # <<>>
    /\ queue' = Tail(queue)
    /\ LET r == Head(queue)
       IN \/ /\ kind[r] = "reconnect"
             /\ pending' = r /\ status' = [status EXCEPT ![r] = "held"]
             /\ wait' = 0 /\ ToConnect(link) /\ UNCHANGED paused
          \/ /\ kind[r] \in {"pause", "resume"}
             /\ paused' = (kind[r] = "pause")
             /\ status' = [status EXCEPT ![r] = "ok"]
             /\ UNCHANGED <<pc, link, wait, pending, hist>>
          \/ /\ kind[r] \in {"repoll", "read", "write"}
             /\ status' = [status EXCEPT ![r] = "err"]
             /\ UNCHANGED <<pc, link, wait, pending, paused, hist>>
    /\ UNCHANGED <<call, attempt, ctl, alarm, tlsFailing, tlsEvents, kind>>

\* The sleep is the last arm of the biased select.
WaitTick ==
    /\ pc = "wait" /\ wait > 0 /\ ~cancel /\ queue = <<>> /\ ~closed
    /\ wait' = wait - 1
    /\ UNCHANGED <<pc, call, attempt, pending, ctl, health, reqs, hist>>

-----------------------------------------------------------------------------
(* Connected: the driver's select, biased: cancel, control, the rest *)

\* The first arm of the driver's select.
Noticed == cancel

\* Variant: the select is not biased, a cycle may start after the cancel.
Idle_unbiased == queue = <<>> /\ ~closed

\* The arms below control: neither a cancel, nor a request, nor the closed channel.
Idle == ~Noticed /\ queue = <<>> /\ ~closed

\* The session is closed before the task returns; no alarm, no wait.
SessionStopped ==
    /\ pc = "session"
    /\ Noticed \/ (queue = <<>> /\ closed)
    /\ pc' = "stopping"
    /\ UNCHANGED <<call, attempt, wait, pending, ctl, health, reqs, hist>>

SessionControl ==
    /\ pc = "session" /\ ~Noticed /\ queue # <<>>
    /\ queue' = Tail(queue)
    /\ LET r == Head(queue)
       IN \/ /\ kind[r] = "reconnect"
             /\ pending' = r /\ status' = [status EXCEPT ![r] = "held"]
             /\ pc' = "rejoining" /\ UNCHANGED <<call, paused>>
          \/ /\ kind[r] \in {"pause", "resume"}
             /\ paused' = (kind[r] = "pause")
             /\ status' = [status EXCEPT ![r] = "ok"]
             /\ UNCHANGED <<pc, call, pending>>
          \/ /\ IF mode = "poll" THEN kind[r] = "repoll" /\ paused
                ELSE kind[r] \in {"repoll", "read"}
             /\ status' = [status EXCEPT ![r] = IF kind[r] = "read" THEN "ok" ELSE "err"]
             /\ UNCHANGED <<pc, call, pending, paused>>
          \/ /\ \/ kind[r] = "write"
                \/ mode = "poll" /\ (kind[r] = "read" \/ (kind[r] = "repoll" /\ ~paused))
             /\ pc' = "busy" /\ call' = r
             /\ status' = [status EXCEPT ![r] = "held"]
             /\ UNCHANGED <<pending, paused>>
    /\ UNCHANGED <<attempt, wait, ctl, link, alarm, tlsFailing, tlsEvents, kind, hist>>

\* A poll cycle, or the keepalive probe of a paused instance.
StartCycle ==
    /\ pc = "session" /\ mode = "poll" /\ Idle
    /\ pc' = "busy"
    /\ UNCHANGED <<call, attempt, wait, pending, ctl, health, reqs, hist>>

CallOk ==
    /\ pc = "busy"
    /\ pc' = "session" /\ call' = None
    /\ status' = Answered(status, call, "ok")
    /\ UNCHANGED <<attempt, wait, pending, ctl, health, queue, kind, hist>>

\* A failed write is only an answer; a failed read is answered, and the link
\* is lost.
CallFail ==
    /\ pc = "busy"
    /\ status' = Answered(status, call, "err")
    /\ pc' = (IF call # None /\ kind[call] = "write" THEN "session" ELSE "losing")
    /\ call' = None
    /\ UNCHANGED <<attempt, wait, pending, ctl, health, queue, kind, hist>>

\* The first accepted frame: reported like a poll connect.
PushUp ==
    /\ pc = "session" /\ mode = "push" /\ Idle /\ link # "online"
    /\ pc' = "greet" /\ link' = "online"
    /\ UNCHANGED <<call, attempt, wait, pending, ctl, paused, alarm, tlsFailing, tlsEvents, reqs, hist>>

PushLost ==
    /\ pc = "session" /\ mode = "push" /\ Idle
    /\ pc' = "losing"
    /\ UNCHANGED <<call, attempt, wait, pending, ctl, health, reqs, hist>>

-----------------------------------------------------------------------------
(* The session has ended: its close is awaited, whatever the token says *)

StopClosed == pc = "stopping" /\ Stop(status)

RejoinClosed ==
    /\ pc = "rejoining"
    /\ ToConnect("connecting")
    /\ UNCHANGED <<call, attempt, wait, pending, ctl, paused, alarm, tlsFailing, tlsEvents, reqs>>

LossClosed ==
    /\ pc = "losing"
    /\ pc' = "lost" /\ link' = "backoff"
    /\ UNCHANGED <<call, attempt, wait, pending, ctl, paused, alarm, tlsFailing, tlsEvents, reqs, hist>>

\* After emit_now has been awaited: raise_alarm, and the wait begins.
RaiseAlarm ==
    /\ pc = "lost"
    /\ pc' = "wait" /\ alarm' = TRUE
    /\ wait' \in delay(attempt) /\ Climb
    /\ UNCHANGED <<call, pending, ctl, link, paused, tlsFailing, tlsEvents, reqs, hist>>

-----------------------------------------------------------------------------

Connect == ConnectCancelled \/ ConnectOk \/ \E permanent \in BOOLEAN : ConnectFail(permanent)
Wait == WaitElapsed \/ WaitStopped \/ WaitControl \/ WaitTick
Greet == ClearAlarm \/ Greeted
Close == StopClosed \/ RejoinClosed \/ LossClosed \/ RaiseAlarm
Session == SessionStopped \/ SessionControl \/ StartCycle \/ CallOk \/ CallFail \/ PushUp \/ PushLost

\* The task is gone; callers may still find out.
Done == pc = "ended" /\ UNCHANGED vars

Next ==
    \/ \E r \in Reqs, k \in Kinds : Issue(r, k)
    \/ Cancel \/ CloseControl
    \/ Connect \/ Greet \/ Session \/ Close \/ Wait \/ Done

Spec == Init /\ [][Next]_vars

\* An attempt and a call are bounded by their timeouts, the wait by the clock,
\* and the select is polled when an arm of it is ready.  A wait of zero looks
\* at no request, so the jitter must not be zero for ever: it is random.
\* A close is bounded by the session's timeouts, and the awaited metric and
\* event calls are assumed to return.  Nothing is assumed of the device: it may
\* refuse for ever.
Fairness ==
    /\ SF_vars((\E permanent \in BOOLEAN : ConnectFail(permanent)) /\ wait' > 0)
    /\ WF_vars(Connect) /\ WF_vars(Wait) /\ WF_vars(Greet) /\ WF_vars(Close)
    /\ WF_vars(SessionStopped) /\ WF_vars(SessionControl) /\ WF_vars(CallOk \/ CallFail)

FairSpec == Spec /\ Fairness

-----------------------------------------------------------------------------
(* Properties *)

Places == {"connect", "greet", "cleared", "session", "busy", "stopping", "rejoining",
           "losing", "lost", "wait", "ended"}

\* Every variable has its type; no wait is longer than the ceiling.
TypeOK ==
    /\ mode \in {"poll", "push"} /\ pc \in Places
    /\ call \in Reqs \cup {None} /\ pending \in Reqs \cup {None}
    /\ attempt \in 0..MaxAttempt /\ wait \in 0..MaxMs
    /\ cancel \in BOOLEAN /\ closed \in BOOLEAN
    /\ link \in {"connecting", "online", "backoff"}
    /\ paused \in BOOLEAN /\ alarm \in BOOLEAN /\ tlsFailing \in BOOLEAN /\ tlsEvents \in Nat
    /\ queue \in Seq(Reqs) /\ Len(queue) <= QueueCap
    /\ kind \in [Reqs -> Kinds \cup {None}]
    /\ status \in [Reqs -> {"new", "queued", "held", "ok", "err", "dropped"}]
    /\ before \subseteq Reqs /\ atCancel \in Places \cup {None}

\* No reply is lost: each request the task was sent is in the channel, or in
\* the one place that will answer it, or answered; nothing held is overwritten.
NoReplyLost ==
    \A r \in Reqs :
        /\ (status[r] = "queued") <=> (\E i \in 1..Len(queue) : queue[i] = r)
        /\ (status[r] = "held") <=> (r \in {pending, call})

\* The driver has a session that is open, or whose close is not over.
Attached == {"greet", "cleared", "session", "busy", "stopping", "rejoining", "losing"}

\* An instance that reports ONLINE has a session, which may be closing.  Its
\* alarm may be latched only until the connect has cleared it, and a reconnect
\* may be unanswered only until the connect has been reported, or while the
\* session it ends is being closed: the driver's loop never runs online with
\* either.
OnlineIsTrue ==
    (link = "online" /\ pc # "ended") =>
        /\ pc \in Attached
        /\ alarm => pc = "greet"
        /\ pending # None => pc \in {"greet", "cleared", "rejoining"}

\* One `tls-handshake-failed` per outage, however often the connect fails.
HandshakeEventOnce == tlsEvents <= 1

\* A reconnect is reported successful only by an attempt that began after it
\* was asked for, never by one that was already under way.
ReconnectIsFresh ==
    [][ \A r \in Reqs :
          (kind[r] = "reconnect" /\ status[r] # "ok" /\ status'[r] = "ok") => r \in before ]_vars

\* Where a link may be found lost, or already has been.
Losing == {"busy", "losing", "lost"}

\* A stopped instance goes quietly: once cancelled it opens no session, and it
\* raises an alarm only if, when it was cancelled, a call was in flight (which
\* then failed) or the loss was already being reported.
StopIsQuiet ==
    [][ cancel => /\ pc' \in Attached => pc \in Attached
                  /\ (alarm' /\ ~alarm) => atCancel \in Losing ]_vars

\* A cancelled task ends.
StopEnds == cancel ~> (pc = "ended")

\* Every request is answered, or dropped with the task, also when the device
\* never comes back.
RequestsAnswered ==
    \A r \in Reqs : (status[r] \in {"queued", "held"}) ~> (status[r] \in {"ok", "err", "dropped"})
=============================================================================
