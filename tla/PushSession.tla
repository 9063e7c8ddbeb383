----------------------------- MODULE PushSession -----------------------------
(***************************************************************************)
(* One class-1 I/O session: the session handle its driver calls, the       *)
(* translator task behind it (crates/ethernet-ip-adapter/src/eip/live.rs)  *)
(* and the I/O manager task that owns the connection and the producer      *)
(* buffer (crates/enip/src/io.rs).                                         *)
(*                                                                         *)
(*   driver --control--> translator --mq--> manager                        *)
(*   driver <--updates-- translator <--events-- manager                    *)
(*                                                                         *)
(* All four queues are bounded, so the tasks can wait for each other; a    *)
(* deadline is what gets them apart.  A deadline is a flag that rises at   *)
(* any time.  `timeout_at` polls its future before its timer: a branch for *)
(* a passed deadline is open only while the answer is not there.  What a   *)
(* task does between two awaits is one action, and the clock stands still  *)
(* in it: the deadline the manager looks at, the buffer it sets and the    *)
(* verdict it sends are of one moment.                                     *)
(***************************************************************************)
EXTENDS Integers, Sequences, SequencesExt

CONSTANTS
    Fields,         \* fields of the output assembly
    Values,         \* what a field can be set to
    Zero,           \* its initial content
    MaxWrites,      \* bound: writes in the session
    ControlDepth,   \* CONTROL_CHANNEL_DEPTH
    UpdateDepth,    \* capacity of the update channel
    EventCap,       \* Data capacity of the connection's event queue
    CommandDepth    \* MANAGER_COMMAND_DEPTH

ASSUME SessionAssumption ==
    /\ Zero \notin Values
    /\ MaxWrites \in Nat
    /\ ControlDepth \in Nat \ {0} /\ UpdateDepth \in Nat \ {0}
    /\ EventCap \in Nat \ {0} /\ CommandDepth \in Nat \ {0}

VARIABLES
    \* --- the session handle and the driver that calls it
    drv,        \* run | handoff | await | closesend | closeack | join | ended
    cur,        \* the write being made, or the last one
    outbuf,     \* out_buf
    ans,        \* what each write was answered
    late,       \* writes whose deadline has passed
    closeLate,  \* the close deadline has passed
    ack,        \* the one-shot channel of `cur`
    control, updates,
    \* --- the translator task
    tr,         \* select | send | stage | verdict | closing(2) | cleanup(2) | ended
    job,        \* the staging command in its hands
    todo, next, \* updates it is about to send, and where it goes then
    closeAck,   \* it acknowledged the close
    aborted,    \* its JoinHandle was aborted
    \* --- the I/O manager task
    mgr, conn,  \* run | down; live | lost | removed
    up,         \* a frame was accepted
    events, mq,
    mack,       \* the one-shot channel of `job`
    producer,   \* the O->T buffer: image, and the write that staged it
    \* --- history, read by properties only
    staged,     \* writes whose image ever reached the producer buffer
    begun,      \* the driver took an update
    fclosed,    \* ForwardClose went out
    closed      \* close() returned

drvVars == <<drv, cur, outbuf, ans, late, closeLate>>
trVars  == <<tr, job, todo, next, closeAck, aborted>>
mgrVars == <<mgr, conn, up, producer, staged>>
chans   == <<ack, control, updates, events, mq, mack>>
hist    == <<begun, fclosed, closed>>
vars    == <<drvVars, trVars, mgrVars, chans, hist>>

NoAck == "none"
Writes == 1..MaxWrites
Image == [Fields -> Values \cup {Zero}]
Job == [w : Writes \cup {0}, img : Image, f : Fields]
NoJob == [w |-> 0, img |-> [f \in Fields |-> Zero], f |-> CHOOSE f \in Fields : TRUE]

\* forward_open succeeded; the buffer is all zeroes.
Init ==
    /\ drv = "run" /\ cur = NoJob /\ outbuf = NoJob.img
    /\ ans = [w \in Writes |-> "none"] /\ late = {} /\ closeLate = FALSE
    /\ ack = NoAck /\ control = <<>> /\ updates = <<>>
    /\ tr = "select" /\ job = NoJob /\ todo = <<>> /\ next = "select"
    /\ closeAck = FALSE /\ aborted = FALSE
    /\ mgr = "run" /\ conn = "live" /\ up = FALSE
    /\ events = <<>> /\ mq = <<>> /\ mack = NoAck /\ producer = NoJob
    /\ staged = {} /\ begun = FALSE /\ fclosed = FALSE /\ closed = FALSE

-----------------------------------------------------------------------------
(* set_output *)

Answer(verdict) ==
    /\ ans' = [ans EXCEPT ![cur.w] = verdict]
    /\ drv' = "run"

\* The candidate image, and the deadline over everything that follows.  A
\* value that does not encode is refused before the session is touched.
SetOutput(f, v) ==
    /\ drv = "run" /\ cur.w < MaxWrites
    /\ cur' = [w |-> cur.w + 1, img |-> [outbuf EXCEPT ![f] = v], f |-> f]
    /\ \/ drv' = "handoff" /\ UNCHANGED ans
       \/ drv' = "run" /\ ans' = [ans EXCEPT ![cur.w + 1] = "invalid"]
    /\ ack' = NoAck
    /\ UNCHANGED <<outbuf, late, closeLate, control, updates, events, mq, mack,
                   trVars, mgrVars, hist>>

\* The control send: it waits for room, until the deadline.
Handoff ==
    /\ drv = "handoff"
    /\ \/ /\ tr # "ended" /\ Len(control) < ControlDepth
          /\ control' = Append(control, [kind |-> "set", job |-> cur])
          /\ drv' = "await" /\ UNCHANGED ans
       \/ /\ tr = "ended"
          /\ Answer("closing") /\ UNCHANGED control
       \/ /\ tr # "ended" /\ Len(control) >= ControlDepth /\ cur.w \in late
          /\ Answer("nohandoff") /\ UNCHANGED control
    /\ UNCHANGED <<cur, outbuf, late, closeLate, ack, updates, events, mq, mack,
                   trVars, mgrVars, hist>>

\* Variant: the wait for the verdict has no deadline.
AwaitVerdict_unbounded ==
    /\ drv = "await"
    /\ \/ ack # NoAck /\ Answer(ack)
       \/ ack = NoAck /\ tr = "ended" /\ Answer("gone")
    /\ outbuf' = IF ack = "ok" THEN cur.img ELSE outbuf
    /\ UNCHANGED <<cur, late, closeLate, chans, trVars, mgrVars, hist>>

\* Variant: the candidate is adopted whatever the verdict.
AwaitVerdict_adopts ==
    /\ drv = "await"
    /\ \/ ack # NoAck /\ Answer(ack)
       \/ ack = NoAck /\ tr = "ended" /\ Answer("gone")
       \/ ack = NoAck /\ tr # "ended" /\ cur.w \in late /\ Answer("unconfirmed")
    /\ outbuf' = cur.img
    /\ UNCHANGED <<cur, late, closeLate, chans, trVars, mgrVars, hist>>

\* The verdict, a translator that ended without one, or the deadline.
AwaitVerdict ==
    /\ drv = "await"
    /\ \/ ack # NoAck /\ Answer(ack)
       \/ ack = NoAck /\ tr = "ended" /\ Answer("gone")
       \/ ack = NoAck /\ tr # "ended" /\ cur.w \in late /\ Answer("unconfirmed")
    /\ outbuf' = IF ack = "ok" THEN cur.img ELSE outbuf
    /\ UNCHANGED <<cur, late, closeLate, chans, trVars, mgrVars, hist>>

Expire ==
    /\ drv \in {"handoff", "await"} /\ cur.w \notin late
    /\ late' = late \cup {cur.w}
    /\ UNCHANGED <<drv, cur, outbuf, ans, closeLate, chans, trVars, mgrVars, hist>>

-----------------------------------------------------------------------------
(* The driver: updates in, and the close every exit makes *)

\* The update arm: Lost leaves the loop.  (So would the end of the stream,
\* which never comes before it: StreamInOrder.)
TakeUpdate ==
    /\ drv = "run" /\ updates # <<>>
    /\ begun' = TRUE /\ updates' = Tail(updates)
    /\ drv' = IF Head(updates) = "lost" THEN "closesend" ELSE "run"
    /\ UNCHANGED <<cur, outbuf, ans, late, closeLate, ack, control, events, mq, mack,
                   trVars, mgrVars, fclosed, closed>>

\* A cancel, a requested reconnect or a closed control channel.
Leave ==
    /\ drv = "run"
    /\ drv' = "closesend"
    /\ UNCHANGED <<cur, outbuf, ans, late, closeLate, chans, trVars, mgrVars, hist>>

\* close_with_cap: the handoff.
CloseSend ==
    /\ drv = "closesend"
    /\ \/ /\ tr # "ended" /\ Len(control) < ControlDepth
          /\ control' = Append(control, [kind |-> "close"])
          /\ drv' = "closeack" /\ UNCHANGED aborted
       \/ /\ \/ tr = "ended"
             \/ Len(control) >= ControlDepth /\ closeLate
          /\ drv' = "join" /\ aborted' = TRUE /\ UNCHANGED control
    /\ UNCHANGED <<cur, outbuf, ans, late, closeLate, ack, updates, events, mq, mack,
                   tr, job, todo, next, closeAck, mgrVars, hist>>

\* Variant: at the deadline the translator is left to itself.
CloseAwait_leaves ==
    /\ drv = "closeack"
    /\ closeAck \/ tr = "ended" \/ closeLate
    /\ drv' = "join"
    /\ UNCHANGED <<cur, outbuf, ans, late, closeLate, chans, trVars, mgrVars, hist>>

\* A dropped acknowledgement resolves the wait too; at the deadline, abort.
CloseAwait ==
    /\ drv = "closeack"
    /\ \/ (closeAck \/ tr = "ended") /\ UNCHANGED aborted
       \/ ~closeAck /\ tr # "ended" /\ closeLate /\ aborted' = TRUE
    /\ drv' = "join"
    /\ UNCHANGED <<cur, outbuf, ans, late, closeLate, chans,
                   tr, job, todo, next, closeAck, mgrVars, hist>>

\* The join: the translator has ended, or ABORT_JOIN_GRACE ran out before its
\* abort landed, and close() returns all the same.
Join ==
    /\ drv = "join"
    /\ tr = "ended" \/ tr # "ended"
    /\ drv' = "ended" /\ closed' = TRUE
    /\ UNCHANGED <<cur, outbuf, ans, late, closeLate, chans, trVars, mgrVars, begun, fclosed>>

CloseExpire ==
    /\ drv \in {"closesend", "closeack"} /\ ~closeLate
    /\ closeLate' = TRUE
    /\ UNCHANGED <<drv, cur, outbuf, ans, late, chans, trVars, mgrVars, hist>>

\* The device task is aborted at the stop budget: the handle is dropped.  The
\* translator is aborted unless a close had already taken its JoinHandle.
Drop ==
    /\ drv # "ended"
    /\ drv' = "ended"
    /\ aborted' = (aborted \/ drv \in {"run", "handoff", "await"})
    /\ UNCHANGED <<cur, outbuf, ans, late, closeLate, chans,
                   tr, job, todo, next, closeAck, mgrVars, hist>>

-----------------------------------------------------------------------------
(* The translator *)

IsData(ev) == ev = "data"

\* The event arm: consecutive samples collapse to the last one, and what
\* follows them is carried along.  (The stream never ends here without a loss:
\* StreamInOrder.)
TakeEvent ==
    /\ tr = "select" /\ events # <<>>
    /\ LET burst   == SelectInSeq(events, LAMBDA e : ~IsData(e))
           n       == IF burst = 0 THEN Len(events) ELSE burst - 1
           carried == IF burst = 0 THEN <<>> ELSE <<events[burst]>>
           sends   == (IF n > 0 THEN <<"data">> ELSE <<>>) \o carried
       IN /\ todo' = sends
          /\ next' = IF Last(sends) = "lost" THEN "cleanup" ELSE "select"
          /\ events' = SubSeq(events, n + Len(carried) + 1, Len(events))
    /\ tr' = "send"
    /\ UNCHANGED <<drvVars, job, closeAck, aborted, mgrVars, ack, control, updates, mq, mack, hist>>

\* One send on the update channel: it waits for room, or fails at once when
\* the receiver is gone.
SendUpdate ==
    /\ tr = "send"
    /\ todo' = Tail(todo)
    /\ tr' = IF todo' = <<>> THEN next ELSE "send"
    /\ \/ drv = "ended" /\ UNCHANGED updates
       \/ /\ drv # "ended" /\ Len(updates) < UpdateDepth
          /\ updates' = Append(updates, Head(todo))
    /\ UNCHANGED <<drvVars, job, next, closeAck, aborted, mgrVars, ack, control, events, mq, mack, hist>>

\* The control arm; `None` once the handle is dropped.
TakeControl ==
    /\ tr = "select"
    /\ \/ /\ control # <<>>
          /\ control' = Tail(control)
          /\ \/ /\ Head(control).kind = "set"
                /\ job' = Head(control).job /\ tr' = "stage" /\ mack' = NoAck
             \/ /\ Head(control).kind = "close"
                /\ tr' = "closing" /\ UNCHANGED <<job, mack>>
       \/ /\ control = <<>> /\ drv = "ended"
          /\ tr' = "cleanup" /\ UNCHANGED <<control, job, mack>>
    /\ UNCHANGED <<drvVars, todo, next, closeAck, aborted, mgrVars, ack, updates, events, mq, hist>>

\* The verdict goes back, unless its caller stopped waiting.
Reply(verdict) ==
    ack' = IF drv = "await" /\ job.w = cur.w THEN verdict ELSE ack

Resolved(verdict) ==
    /\ Reply(verdict)
    /\ tr' = "select" /\ UNCHANGED <<todo, next, events>>
    /\ job' = NoJob /\ mack' = NoAck

\* Variant: what the consult took off the stream is forgotten.
Consult_dropsTail ==
    LET lost == Contains(events, "lost")
    IN /\ Reply(IF lost THEN "lost" ELSE "closed")
       /\ todo' = IF lost THEN <<"lost">> ELSE <<>>
       /\ next' = IF lost THEN "cleanup" ELSE "select"
       /\ events' = <<>>
       /\ tr' = (IF todo' = <<>> THEN next' ELSE "send") /\ job' = NoJob /\ mack' = NoAck

\* Closed: the terminal stream says why; what was ahead of the loss is still
\* owed to the seam, collapsed, and then the loss itself.
Consult ==
    LET lost == Contains(events, "lost")
        OneOf(e) == IF Contains(events, e) THEN <<e>> ELSE <<>>
        tail == OneOf("up") \o OneOf("data") \o OneOf("lost")
    IN /\ Reply(IF lost THEN "lost" ELSE "closed")
       /\ todo' = tail
       /\ next' = IF lost THEN "cleanup" ELSE "select"
       /\ events' = <<>>
       /\ tr' = (IF todo' = <<>> THEN next' ELSE "send") /\ job' = NoJob /\ mack' = NoAck

\* stage_output_by: the handoff to the manager.
Stage ==
    /\ tr = "stage"
    /\ \/ /\ mgr = "run" /\ Len(mq) < CommandDepth
          /\ mq' = Append(mq, [kind |-> "set", job |-> job])
          /\ tr' = "verdict" /\ UNCHANGED <<ack, todo, next, events, job, mack>>
       \/ /\ mgr = "down"
          /\ Consult /\ UNCHANGED mq
       \/ /\ mgr = "run" /\ Len(mq) >= CommandDepth /\ job.w \in late
          /\ Resolved("expired") /\ UNCHANGED mq
    /\ UNCHANGED <<drvVars, closeAck, aborted, mgrVars, control, updates, hist>>

\* ... and the manager's verdict, by the same deadline.
Verdict ==
    /\ tr = "verdict"
    /\ \/ mack = "ok" /\ Resolved("ok")
       \/ mack = "timeout" /\ Resolved("expired")
       \/ (mack = "closed" \/ (mack = NoAck /\ mgr = "down")) /\ Consult
       \/ mack = NoAck /\ mgr = "run" /\ job.w \in late /\ Resolved("expired")
    /\ UNCHANGED <<drvVars, closeAck, aborted, mgrVars, control, updates, mq, hist>>

\* What dies with the translator: its locals, and the queued commands and
\* events nobody will take.
TaskEnds ==
    /\ tr' = "ended" /\ job' = NoJob /\ todo' = <<>> /\ next' = "select"
    /\ control' = <<>> /\ events' = <<>> /\ mack' = NoAck

\* One command to the manager; it waits for room, or fails at once.
Tell(kind) ==
    /\ mgr = "down" \/ Len(mq) < CommandDepth
    /\ mq' = IF mgr = "run" THEN Append(mq, [kind |-> kind]) ELSE mq

\* IoConnectionHandle::close: ForwardClose, then the removal.
CloseConnection ==
    /\ tr \in {"closing", "cleanup"}
    /\ Tell("remove")
    /\ fclosed' = TRUE
    /\ tr' = IF tr = "closing" THEN "closing2" ELSE "cleanup2"
    /\ UNCHANGED <<drvVars, job, todo, next, closeAck, aborted, mgrVars, ack, control, updates,
                   events, mack, begun, closed>>

\* The manager's shutdown and the TCP session's; then the acknowledgement, if
\* a close asked for it.
TearDown ==
    /\ tr \in {"closing2", "cleanup2"}
    /\ Tell("shutdown")
    /\ closeAck' = (tr = "closing2")
    /\ TaskEnds
    /\ UNCHANGED <<drvVars, aborted, mgrVars, ack, updates, hist>>

\* An abort takes effect at the translator's await.
AbortLands ==
    /\ aborted /\ tr # "ended"
    /\ TaskEnds
    /\ UNCHANGED <<drvVars, closeAck, aborted, mgrVars, ack, updates, mq, hist>>

-----------------------------------------------------------------------------
(* The I/O manager *)

\* Data at capacity evicts the oldest Data; control events always enqueue; a
\* gone receiver takes nothing.
push_latest_wins(q, ev) ==
    IF tr = "ended" THEN q
    ELSE IF IsData(ev) /\ Len(SelectSeq(q, IsData)) >= EventCap
         THEN Append(RemoveAt(q, SelectInSeq(q, IsData)), ev)
         ELSE Append(q, ev)

\* Variant: the deadline the command carries is not looked at.
Stageable_anytime(j) == conn = "live"

\* The only place that mutates the producer buffer.
Stageable(j) == conn = "live" /\ j.w \notin late

Command ==
    /\ mgr = "run" /\ mq # <<>>
    /\ LET c == Head(mq)
       IN \/ /\ c.kind = "set"
             /\ producer' = IF Stageable(c.job) THEN c.job ELSE producer
             /\ staged' = IF Stageable(c.job) THEN staged \cup {c.job.w} ELSE staged
             /\ mack' = IF tr = "verdict" /\ job.w = c.job.w
                        THEN IF Stageable(c.job) THEN "ok"
                             ELSE IF conn = "live" THEN "timeout" ELSE "closed"
                        ELSE mack
             /\ mq' = Tail(mq) /\ UNCHANGED <<mgr, conn>>
          \/ /\ c.kind = "remove"
             /\ conn' = IF conn = "live" THEN "removed" ELSE conn
             /\ mq' = Tail(mq) /\ UNCHANGED <<mgr, producer, staged, mack>>
          \/ /\ c.kind = "shutdown"
             /\ mgr' = "down" /\ mq' = <<>> /\ UNCHANGED <<conn, producer, staged, mack>>
    /\ UNCHANGED <<drvVars, trVars, up, ack, control, updates, events, hist>>

\* Every sender of the command channel is gone.
CommandsEnd ==
    /\ mgr = "run" /\ mq = <<>> /\ tr = "ended"
    /\ mgr' = "down"
    /\ conn' = IF conn = "live" THEN "removed" ELSE conn
    /\ UNCHANGED <<drvVars, trVars, up, producer, staged, chans, hist>>

\* An accepted frame: `Up` on the first.
Frame ==
    /\ mgr = "run" /\ conn = "live"
    /\ up' = TRUE
    /\ events' = push_latest_wins(IF up THEN events ELSE push_latest_wins(events, "up"), "data")
    /\ UNCHANGED <<drvVars, trVars, mgr, conn, producer, staged, ack, control, updates, mq, mack, hist>>

\* The watchdog or a dead transmit path loses the connection; a dead socket
\* loses it and ends the task.
Lose ==
    /\ mgr = "run" /\ conn = "live"
    /\ conn' = "lost"
    /\ events' = push_latest_wins(events, "lost")
    /\ \/ UNCHANGED <<mgr, mq>>
       \/ mgr' = "down" /\ mq' = <<>>
    /\ UNCHANGED <<drvVars, trVars, up, producer, staged, ack, control, updates, mack, hist>>

-----------------------------------------------------------------------------

Driver ==
    \/ \E f \in Fields, v \in Values : SetOutput(f, v)
    \/ Handoff \/ AwaitVerdict \/ Expire
    \/ TakeUpdate \/ Leave \/ CloseSend \/ CloseAwait \/ Join \/ CloseExpire \/ Drop

Translator ==
    TakeEvent \/ SendUpdate \/ TakeControl \/ Stage \/ Verdict
    \/ CloseConnection \/ TearDown \/ AbortLands

Manager == Command \/ CommandsEnd \/ Frame \/ Lose

\* The session is over.
Done == drv = "ended" /\ tr = "ended" /\ mgr = "down" /\ UNCHANGED vars

Next == Driver \/ Translator \/ Manager \/ Done

Spec == Init /\ [][Next]_vars

\* The three tasks run, deadlines pass and an abort lands.  The translator's
\* `select!` is not biased: it polls its arms in random order, so frames do not
\* starve the control arm for ever.  Nothing is assumed of the device, of the
\* callers, or of what the driver does between two calls.
Fairness ==
    /\ WF_vars(Handoff) /\ WF_vars(AwaitVerdict) /\ WF_vars(Expire)
    /\ WF_vars(CloseSend) /\ WF_vars(CloseAwait) /\ WF_vars(Join) /\ WF_vars(CloseExpire)
    /\ WF_vars(Translator) /\ SF_vars(TakeControl) /\ WF_vars(AbortLands)
    /\ WF_vars(Command \/ CommandsEnd)

FairSpec == Spec /\ Fairness

-----------------------------------------------------------------------------
(* Properties *)

Verdicts == {"ok", "expired", "lost", "closed"}
Kinds == {"up", "data", "lost"}

\* Every variable has its type, and no queue outgrows its capacity.
TypeOK ==
    /\ drv \in {"run", "handoff", "await", "closesend", "closeack", "join", "ended"}
    /\ cur \in Job /\ outbuf \in Image /\ late \subseteq Writes
    /\ ans \in [Writes -> Verdicts \cup {"none", "invalid", "closing", "nohandoff", "gone", "unconfirmed"}]
    /\ closeLate \in BOOLEAN /\ closeAck \in BOOLEAN /\ aborted \in BOOLEAN
    /\ ack \in Verdicts \cup {NoAck} /\ mack \in {NoAck, "ok", "timeout", "closed"}
    /\ Len(control) <= ControlDepth /\ Len(updates) <= UpdateDepth /\ Len(mq) <= CommandDepth
    /\ Len(events) <= EventCap + 2
    /\ tr \in {"select", "send", "stage", "verdict", "closing", "cleanup",
              "closing2", "cleanup2", "ended"}
    /\ job \in Job /\ next \in {"select", "cleanup"} /\ todo \in Seq(Kinds)
    /\ mgr \in {"run", "down"} /\ conn \in {"live", "lost", "removed"} /\ up \in BOOLEAN
    /\ producer \in Job /\ staged \subseteq Writes
    /\ begun \in BOOLEAN /\ fclosed \in BOOLEAN /\ closed \in BOOLEAN

\* Every refusal that says "output not staged" is true and stays true: an
\* abandoned command that is still queued somewhere never reaches the producer
\* buffer.  (set_output's answers, closed_verdict and expired_verdict.)
RefusedOutright ==
    \A w \in Writes :
        ans[w] \in {"invalid", "closing", "nohandoff", "gone", "expired", "lost", "closed"}
            => w \notin staged

\* out_buf mirrors what the manager holds: the two differ at most in the one
\* field of a write that was staged and not confirmed.  A refused value never
\* rides inside a later accepted write, and a confirmed one is never undone.
OutBufMirrors ==
    \A f \in Fields : producer.img[f] # outbuf[f] =>
        /\ producer.w # 0 /\ f = producer.f
        /\ ans[producer.w] \in {"none", "unconfirmed"}

\* The stream the driver reads, wherever its parts are waiting: `Up` first,
\* `Lost` last, each once, and once the connection or the
\* translator is gone the driver has the loss coming to it.
StreamInOrder ==
    LET stream == updates \o todo \o events
    IN /\ \A i \in 1..Len(stream) :
            /\ (stream[i] = "up") => (i = 1 /\ ~begun)
            /\ (stream[i] = "lost") => (i = Len(stream) /\ conn = "lost")
            /\ (i = 1 /\ ~begun /\ up /\ drv # "ended" /\ ~aborted) => stream[i] = "up"
       /\ (drv \in {"run", "handoff", "await"} /\ (conn = "lost" \/ tr = "ended"))
             => Contains(stream, "lost")

\* The manager delivers a loss before it can refuse a staging, so the consult
\* always finds it: no write is told of an orderly close.
LossIsNamed == \A w \in Writes : ans[w] # "closed"

\* When close() returns, the translator has ended and the ForwardClose went
\* out, or the translator was aborted: close() never leaves one behind that
\* nobody told to end.  (An aborted one may outlive the join's grace; that it
\* ends is SessionEnds.)
CloseMeansEnded == closed /\ ~aborted => tr = "ended" /\ fclosed

\* Every write is answered, whatever the translator and the manager wait for.
WriteAnswered == (drv \in {"handoff", "await"}) ~> (drv \notin {"handoff", "await"})

\* After a close or a drop the translator and the I/O manager end: no task is
\* left behind holding a transport.
SessionEnds == (drv \in {"closesend", "ended"}) ~> (tr = "ended" /\ mgr = "down")

\* What a caller is told of a write is what became of it, for every refusal but
\* the unconfirmed one.
AnswersTrue == RefusedOutright /\ LossIsNamed

\* The driver's stream is well formed up to its end, and a close that returned
\* without aborting the translator has ended it on both sides.
StreamEndsInOrder == StreamInOrder /\ CloseMeansEnded

\* Nobody waits for ever in set_output or close(), although the driver, the
\* translator and the manager wait on each other's bounded queues.
NobodyHangs == WriteAnswered /\ SessionEnds

-----------------------------------------------------------------------------
(* What the code says and does not do *)

\* eip/live.rs: a write does not land "on the device after `sb/write` has
\* already refused it".
RefusedNeverLands ==
    conn = "live" => (producer.w = 0 \/ ans[producer.w] \in {"none", "ok"})
=============================================================================
