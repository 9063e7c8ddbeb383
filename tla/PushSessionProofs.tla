--------------------------- MODULE PushSessionProofs ---------------------------
(***************************************************************************)
(* For any number of writes, fields and values and any depth of the four   *)
(* queues: the stream a driver reads is in order to its end, a write is    *)
(* never told of an orderly close, and a close that returned has ended the *)
(* translator; what set_output answers is true of the write and stays      *)
(* true, and the session's image differs from the producer buffer at most  *)
(* in the field of a write that was staged and not confirmed.              *)
(***************************************************************************)
EXTENDS PushSession, QueueTheorems, TLAPS

Active == drv \in {"run", "handoff", "await"}

AnyJob == Job \cup {NoJob}
ControlMsg == [kind : {"set"}, job : AnyJob] \cup [kind : {"close"}]
ManagerMsg == [kind : {"set"}, job : AnyJob] \cup [kind : {"remove", "shutdown"}]

TaskTypes ==
    /\ drv \in {"run", "handoff", "await", "closesend", "closeack", "join", "ended"}
    /\ tr \in {"select", "send", "stage", "verdict", "closing", "cleanup",
              "closing2", "cleanup2", "ended"}
    /\ next \in {"select", "cleanup"} /\ mgr \in {"run", "down"} /\ conn \in {"live", "lost", "removed"}
    /\ closeAck \in BOOLEAN /\ aborted \in BOOLEAN /\ up \in BOOLEAN
    /\ begun \in BOOLEAN /\ fclosed \in BOOLEAN /\ closed \in BOOLEAN
Answers == Verdicts \cup {"none", "invalid", "closing", "nohandoff", "gone", "unconfirmed"}
JobTypes == cur \in AnyJob /\ job \in AnyJob /\ outbuf \in Image
QueueTypes ==
    /\ ack \in Verdicts \cup {NoAck} /\ ans \in [Writes -> Answers]
    /\ updates \in Seq(Kinds) /\ todo \in Seq(Kinds) /\ events \in Seq(Kinds)
    /\ control \in Seq(ControlMsg) /\ mq \in Seq(ManagerMsg)

\* The translator holds updates to send exactly while it sends; when it will clean
\* up next, the loss is what it sends last.
Sending ==
    /\ tr = "send" <=> todo # <<>>
    /\ tr = "send" /\ next = "cleanup" => todo[Len(todo)] = "lost"

\* A loss is the end of the stream, and it is the loss of the connection.
LostLast ==
    /\ \A i \in 1..Len(updates) : updates[i] = "lost" =>
           i = Len(updates) /\ todo = <<>> /\ events = <<>> /\ conn = "lost"
    /\ \A i \in 1..Len(todo) : todo[i] = "lost" =>
           i = Len(todo) /\ events = <<>> /\ conn = "lost"
    /\ \A i \in 1..Len(events) : events[i] = "lost" => i = Len(events) /\ conn = "lost"

\* `Up` is the first thing in the stream and the first thing the driver reads.
UpFirst ==
    /\ \A i \in 1..Len(updates) : updates[i] = "up" => i = 1 /\ ~begun
    /\ \A i \in 1..Len(todo) : todo[i] = "up" => i = 1 /\ ~begun /\ updates = <<>>
    /\ \A i \in 1..Len(events) : events[i] = "up" => i = 1 /\ ~begun /\ updates = <<>> /\ todo = <<>>

\* A driver that has read nothing has `Up` ahead of it, from the first frame on.
UpAhead ==
    up /\ ~begun /\ drv # "ended" /\ ~aborted =>
        IF updates # <<>> THEN updates[1] = "up"
        ELSE IF todo # <<>> THEN todo[1] = "up"
        ELSE IF events # <<>> THEN events[1] = "up" ELSE tr = "ended"

\* Without a frame there is nothing to read but a loss.
NoFrameYet ==
    ~up => /\ begun => conn = "lost"
           /\ \A q \in {updates, todo, events} : \A i \in 1..Len(q) : q[i] = "lost"

\* A loss the translator has not taken is in its queue, so the consult finds it.
LossWaits ==
    conn = "lost" /\ (tr \in {"select", "stage", "verdict"} \/ (tr = "send" /\ next = "select"))
        => Contains(events, "lost")

\* A loss the driver has not seen is on its way.
LossComes ==
    Active => /\ conn = "lost" => Contains(updates, "lost") \/ Contains(todo, "lost") \/ Contains(events, "lost")
              /\ tr \in {"cleanup", "cleanup2", "ended"} => Contains(updates, "lost")

\* Who ends what: a close is asked for by the driver, the connection is removed
\* and the manager shut down by a translator that is past its loop.
EndsInTurn ==
    /\ tr \in {"closing", "closing2"} => ~Active
    /\ (\E i \in 1..Len(control) : control[i].kind = "close") => ~Active
    /\ aborted => drv \in {"join", "ended"}
    /\ conn = "removed" \/ (\E i \in 1..Len(mq) : mq[i].kind = "remove") =>
           tr \in {"closing2", "cleanup2", "ended"}
    /\ (\E i \in 1..Len(mq) : mq[i].kind = "shutdown") => tr = "ended"
    /\ mgr = "down" => conn = "lost" \/ tr = "ended"
    /\ mack = "closed" /\ tr \in {"stage", "verdict"} => conn # "live"
    /\ tr \in {"closing2", "cleanup2"} => fclosed
    /\ tr = "ended" => fclosed \/ aborted
    /\ closeAck => tr = "ended"
    /\ drv = "join" \/ closed => tr = "ended" \/ aborted

\* The channel of a write's verdict never carries an orderly close.
NeverClosed == ack # "closed" /\ \A w \in Writes : ans[w] # "closed"

StreamInv ==
    /\ TaskTypes /\ JobTypes /\ QueueTypes /\ Sending /\ LostLast /\ UpFirst /\ UpAhead /\ NoFrameYet
    /\ LossWaits /\ LossComes /\ EndsInTurn /\ NeverClosed

-----------------------------------------------------------------------------
(* What a step leaves alone *)

\* The stream and its order stay while the driver and the translator move on,
\* neither back into its loop nor out of a cleanup.
LEMMA StreamKept ==
    ASSUME Sending, LostLast, UpFirst, UpAhead, NoFrameYet, LossWaits, LossComes,
           UNCHANGED <<updates, todo, events, up, begun>>,
           conn' = conn \/ (conn = "live" /\ conn' = "removed"),
           (tr' = tr /\ next' = next) \/ (tr # "send" /\ tr' # "send"),
           tr' = tr \/ tr # "ended",
           tr' \in {"select", "stage", "verdict"} => tr \in {"select", "stage", "verdict"},
           Active' => Active, drv' # "ended" => drv # "ended", aborted => aborted',
           tr' \in {"cleanup", "cleanup2", "ended"} /\ Active' => tr \in {"cleanup", "cleanup2", "ended"}
    PROVE  Sending' /\ LostLast' /\ UpFirst' /\ UpAhead' /\ NoFrameYet' /\ LossWaits' /\ LossComes'
<1>1. Sending'  BY DEF Sending
<1>2. LostLast'  BY DEF LostLast
<1>3. UpFirst'  BY DEF UpFirst
<1>4. UpAhead'  BY DEF UpAhead
<1>5. NoFrameYet'  BY DEF NoFrameYet
<1>6. LossWaits'  BY DEF LossWaits
<1>7. LossComes'  BY DEF LossComes
<1>8. QED  BY <1>1, <1>2, <1>3, <1>4, <1>5, <1>6, <1>7

\* A session starts with empty queues.
LEMMA InitStream == Init => StreamInv
<1>1. SUFFICES ASSUME Init PROVE StreamInv  OBVIOUS
<1>2. /\ updates = <<>> /\ todo = <<>> /\ events = <<>> /\ control = <<>> /\ mq = <<>>
      /\ Len(<<>>) = 0 /\ \A S : <<>> \in Seq(S)
  BY <1>1, EmptySeq DEF Init
<1>3. TaskTypes  BY <1>1 DEF Init, TaskTypes
<1>4. JobTypes /\ QueueTypes
  <2>1. NoJob.img \in Image  BY DEF NoJob, Image
  <2>2. QED  BY <1>1, <1>2, <2>1 DEF Init, JobTypes, QueueTypes, Answers, AnyJob
<1>5. Sending /\ LostLast /\ UpFirst /\ UpAhead /\ NoFrameYet /\ LossWaits /\ LossComes
  BY <1>1, <1>2 DEF Init, Sending, LostLast, UpFirst, UpAhead, NoFrameYet, LossWaits, LossComes
<1>6. EndsInTurn  BY <1>1, <1>2 DEF Init, EndsInTurn
<1>7. NeverClosed  BY <1>1 DEF Init, NeverClosed, NoAck
<1>8. QED  BY <1>3, <1>4, <1>5, <1>6, <1>7 DEF StreamInv

-----------------------------------------------------------------------------
(* The driver *)

\* A candidate image is an image (set_output).
LEMMA CandidateType ==
    ASSUME JobTypes, NEW f \in Fields, NEW v \in Values, cur.w < MaxWrites
    PROVE  [w |-> cur.w + 1, img |-> [outbuf EXCEPT ![f] = v], f |-> f] \in Job
<1>1. cur.w \in 0..MaxWrites /\ MaxWrites \in Nat
  BY SessionAssumption DEF JobTypes, AnyJob, Job, NoJob, Writes
<1>2. cur.w + 1 \in Writes  BY <1>1 DEF Writes
<1>3. [outbuf EXCEPT ![f] = v] \in Image  BY DEF JobTypes, Image
<1>4. QED  BY <1>2, <1>3 DEF Job

\* A write is handed on and answered; the stream is not looked at.
LEMMA WriteStream ==
    ASSUME StreamInv,
           \/ \E f \in Fields, v \in Values : SetOutput(f, v)
           \/ Handoff \/ AwaitVerdict \/ Expire
    PROVE  StreamInv'
<1>1. /\ TaskTypes /\ JobTypes /\ QueueTypes /\ Sending /\ LostLast /\ UpFirst /\ UpAhead /\ NoFrameYet
      /\ LossWaits /\ LossComes /\ EndsInTurn /\ NeverClosed
  BY DEF StreamInv
<1>2. /\ UNCHANGED <<trVars, mgrVars, hist, updates, events, mq, mack>>
      /\ Active /\ drv' \in {"run", "handoff", "await"}
  BY DEF SetOutput, Handoff, AwaitVerdict, Expire, Answer, Active, chans
<1>3. TaskTypes'  BY <1>1, <1>2 DEF TaskTypes, trVars, mgrVars, hist
<1>4. Sending' /\ LostLast' /\ UpFirst' /\ UpAhead' /\ NoFrameYet' /\ LossWaits' /\ LossComes'
  BY <1>1, <1>2, StreamKept DEF Active, trVars, mgrVars, hist
<1>5. /\ control' \in Seq(ControlMsg)
      /\ (\E i \in 1..Len(control') : control'[i].kind = "close") =>
             (\E i \in 1..Len(control) : control[i].kind = "close")
  <2>1. CASE UNCHANGED control  BY <1>1, <2>1 DEF QueueTypes
  <2>2. CASE control' = Append(control, [kind |-> "set", job |-> cur])
    <3> DEFINE m == [kind |-> "set", job |-> cur]
    <3>1. m \in ControlMsg /\ control \in Seq(ControlMsg) /\ m.kind = "set"
      BY <1>1 DEF JobTypes, QueueTypes, ControlMsg
    <3> HIDE DEF m
    <3>2. /\ control' \in Seq(ControlMsg) /\ Len(control') = Len(control) + 1 /\ Len(control) \in Nat
          /\ \A i \in 1..Len(control) : control'[i] = control[i]
          /\ control'[Len(control) + 1] = m
      BY <2>2, <3>1, AppendProperties, LenProperties DEF m
    <3>3. QED  BY <3>1, <3>2
  <2>3. QED  BY <2>1, <2>2 DEF SetOutput, Handoff, AwaitVerdict, Expire, chans
<1>6. JobTypes'
  <2>1. CASE \E f \in Fields, v \in Values : SetOutput(f, v)
    <3>1. PICK f \in Fields, v \in Values : SetOutput(f, v)  BY <2>1
    <3>2. cur' \in Job  BY <1>1, <3>1, CandidateType DEF SetOutput
    <3>3. QED  BY <1>1, <1>2, <3>1, <3>2 DEF JobTypes, AnyJob, SetOutput, trVars
  <2>2. CASE UNCHANGED cur /\ outbuf' \in {outbuf, cur.img}
    <3>1. cur.img \in Image  BY <1>1 DEF JobTypes, AnyJob, Job, NoJob, Image
    <3>2. QED  BY <1>1, <1>2, <2>2, <3>1 DEF JobTypes, trVars
  <2>3. QED  BY <2>1, <2>2 DEF Handoff, AwaitVerdict, Expire
<1>7. /\ ack' \in {ack, NoAck} /\ ans' \in [Writes -> Answers]
      /\ \A w \in Writes : ans'[w] # "closed"
  <2>1. \/ UNCHANGED ans
        \/ \E k, x : ans' = [ans EXCEPT ![k] = x] /\ x \in Answers /\ x # "closed"
    <3>1. ack \in Answers /\ ack # "closed"
      BY <1>1 DEF QueueTypes, NeverClosed, Answers, NoAck
    <3>2. QED  BY <3>1 DEF SetOutput, Handoff, AwaitVerdict, Expire, Answer, Answers, chans
  <2>2. ack' \in {ack, NoAck}  BY DEF SetOutput, Handoff, AwaitVerdict, Expire, chans
  <2>3. QED  BY <1>1, <2>1, <2>2 DEF QueueTypes, NeverClosed
<1>8. QueueTypes' /\ NeverClosed'
  BY <1>1, <1>2, <1>5, <1>7 DEF QueueTypes, NeverClosed, NoAck, trVars
<1>9. EndsInTurn'  BY <1>1, <1>2, <1>5 DEF EndsInTurn, Active, trVars, mgrVars, hist
<1>10. QED  BY <1>3, <1>4, <1>6, <1>8, <1>9 DEF StreamInv

\* The driver leaves its loop and closes, or is dropped.
LEMMA LeaveStream ==
    ASSUME StreamInv, Leave \/ CloseSend \/ CloseAwait \/ Join \/ CloseExpire \/ Drop
    PROVE  StreamInv'
<1>1. /\ TaskTypes /\ JobTypes /\ QueueTypes /\ Sending /\ LostLast /\ UpFirst /\ UpAhead /\ NoFrameYet
      /\ LossWaits /\ LossComes /\ EndsInTurn /\ NeverClosed
  BY DEF StreamInv
<1>2. /\ UNCHANGED <<tr, job, todo, next, closeAck, mgrVars, begun, fclosed, updates, events, mq, mack>>
      /\ UNCHANGED <<cur, outbuf, ans, ack>>
      /\ drv' \in {"closesend", "closeack", "join", "ended"} /\ (drv = "ended" => drv' = "ended")
  BY DEF Leave, CloseSend, CloseAwait, Join, CloseExpire, Drop, trVars, hist, chans
<1>3. /\ aborted' \in BOOLEAN /\ (aborted => aborted') /\ closed' \in BOOLEAN
      /\ aborted' => drv' \in {"join", "ended"}
      /\ drv' = "join" \/ closed' => tr = "ended" \/ aborted'
  <2>1. /\ aborted \in BOOLEAN /\ closed \in BOOLEAN /\ (aborted => drv \in {"join", "ended"})
        /\ closeAck => tr = "ended"
        /\ drv = "join" \/ closed => tr = "ended" \/ aborted
    BY <1>1 DEF TaskTypes, EndsInTurn
  <2>2. CASE Leave \/ CloseExpire  BY <2>1, <2>2 DEF Leave, CloseExpire, trVars, hist
  <2>3. CASE CloseSend \/ CloseAwait
    <3>1. /\ ~aborted /\ UNCHANGED closed
          /\ (aborted' = aborted) \/ (aborted' = TRUE /\ drv' = "join")
      BY <2>1, <2>3 DEF CloseSend, CloseAwait, hist
    <3>2. closed' \in BOOLEAN /\ (closed' => closed)  BY <2>1, <3>1
    <3>3. aborted' \in BOOLEAN /\ (aborted' => drv' = "join")
      <4>1. CASE aborted' = aborted  BY <2>1, <3>1, <4>1
      <4>2. CASE aborted' = TRUE /\ drv' = "join"  BY <4>2
      <4>3. QED  BY <3>1, <4>1, <4>2
    <3>4. drv' = "join" \/ closed' => tr = "ended" \/ aborted'
      BY <2>1, <2>3 DEF CloseSend, CloseAwait, hist
    <3>5. QED  BY <3>1, <3>2, <3>3, <3>4
  <2>4. CASE Join  BY <2>1, <2>4 DEF Join, trVars
  <2>5. CASE Drop  BY <2>1, <2>5 DEF Drop, hist
  <2>6. QED  BY <2>2, <2>3, <2>4, <2>5
<1>4. control' \in Seq(ControlMsg)
  <2>1. CASE UNCHANGED control  BY <1>1, <2>1 DEF QueueTypes
  <2>2. CASE control' = Append(control, [kind |-> "close"])
    <3>1. [kind |-> "close"] \in ControlMsg /\ control \in Seq(ControlMsg)
      BY <1>1 DEF QueueTypes, ControlMsg
    <3>2. QED  BY <2>2, <3>1, AppendProperties
  <2>3. QED  BY <2>1, <2>2 DEF Leave, CloseSend, CloseAwait, Join, CloseExpire, Drop, chans
<1>5. TaskTypes' /\ JobTypes' /\ QueueTypes' /\ NeverClosed'
  BY <1>1, <1>2, <1>3, <1>4 DEF TaskTypes, JobTypes, QueueTypes, NeverClosed, mgrVars
<1>6. Sending' /\ LostLast' /\ UpFirst' /\ UpAhead' /\ NoFrameYet' /\ LossWaits' /\ LossComes'
  BY <1>1, <1>2, <1>3, StreamKept DEF Active, mgrVars
<1>7. EndsInTurn'  BY <1>1, <1>2, <1>3 DEF EndsInTurn, Active, mgrVars
<1>8. QED  BY <1>5, <1>6, <1>7 DEF StreamInv

\* The driver reads the next update; a loss takes it out of its loop.
LEMMA TakeUpdateStream ==
    ASSUME StreamInv, TakeUpdate
    PROVE  StreamInv'
<1>1. /\ TaskTypes /\ JobTypes /\ QueueTypes /\ Sending /\ LostLast /\ UpFirst /\ UpAhead /\ NoFrameYet
      /\ LossWaits /\ LossComes /\ EndsInTurn /\ NeverClosed
  BY DEF StreamInv
<1>2. /\ UNCHANGED <<cur, outbuf, ans, ack, control, events, mq, mack, trVars, mgrVars, fclosed, closed>>
      /\ begun' = TRUE /\ updates # <<>> /\ updates' = Tail(updates) /\ Active
      /\ drv' = IF Head(updates) = "lost" THEN "closesend" ELSE "run"
  BY DEF TakeUpdate, Active
<1>3. /\ updates' \in Seq(Kinds) /\ Len(updates') = Len(updates) - 1 /\ Len(updates) \in Nat \ {0}
      /\ \A i \in 1..Len(updates') : updates'[i] = updates[i + 1] /\ i + 1 \in 1..Len(updates)
      /\ Head(updates) = updates[1]
      /\ \A y : In(y, updates) => In(y, updates') \/ y = Head(updates)
  <2>1. updates \in Seq(Kinds)  BY <1>1 DEF QueueTypes
  <2>2. QED  BY <1>2, <2>1, TailIn
<1>4. TaskTypes' /\ JobTypes' /\ QueueTypes' /\ NeverClosed'
  BY <1>1, <1>2, <1>3 DEF TaskTypes, JobTypes, QueueTypes, NeverClosed, mgrVars, trVars
<1>5. Sending' /\ LossWaits'  BY <1>1, <1>2 DEF Sending, LossWaits, Contains, trVars, mgrVars
<1>6. LostLast'
  <2>1. \A i \in 1..Len(updates') : updates'[i] = "lost" =>
            i = Len(updates') /\ todo = <<>> /\ events = <<>> /\ conn = "lost"
    BY <1>1, <1>3 DEF LostLast
  <2>2. QED  BY <1>1, <1>2, <2>1 DEF LostLast, trVars, mgrVars
<1>7. UpFirst'
  <2>1. \A i \in 1..Len(updates') : updates'[i] # "up"  BY <1>1, <1>3 DEF UpFirst
  <2>2. \A i \in 1..Len(todo) : todo[i] # "up"  BY <1>1, <1>2 DEF UpFirst
  <2>3. \A i \in 1..Len(events) : events[i] # "up"  BY <1>1, <1>2 DEF UpFirst
  <2>4. QED  BY <1>2, <2>1, <2>2, <2>3 DEF UpFirst, trVars
<1>8. UpAhead'  BY <1>2 DEF UpAhead
<1>9. NoFrameYet'
  <2>1. SUFFICES ASSUME ~up
                 PROVE  /\ conn = "lost"
                        /\ \A i \in 1..Len(updates') : updates'[i] = "lost"
                        /\ \A i \in 1..Len(todo) : todo[i] = "lost"
                        /\ \A i \in 1..Len(events) : events[i] = "lost"
    BY <1>2 DEF NoFrameYet, trVars, mgrVars
  <2>2. \A q \in {updates, todo, events} : \A i \in 1..Len(q) : q[i] = "lost"
    BY <1>1, <2>1 DEF NoFrameYet
  <2>3. updates[1] = "lost"  BY <1>3, <2>2
  <2>4. conn = "lost"  BY <1>1, <1>3, <2>3 DEF LostLast
  <2>5. QED  BY <1>3, <2>2, <2>4
<1>10. LossComes'
  <2>1. CASE Head(updates) = "lost"  BY <1>2, <2>1 DEF LossComes, Active
  <2>2. CASE Head(updates) # "lost"
    <3>1. Contains(updates, "lost") => Contains(updates', "lost")  BY <1>3, <2>2 DEF Contains, In
    <3>2. QED  BY <1>1, <1>2, <3>1 DEF LossComes, trVars, mgrVars
  <2>3. QED  BY <2>1, <2>2
<1>11. EndsInTurn'  BY <1>1, <1>2 DEF EndsInTurn, Active, trVars, mgrVars
<1>12. QED  BY <1>4, <1>5, <1>6, <1>7, <1>8, <1>9, <1>10, <1>11 DEF StreamInv

-----------------------------------------------------------------------------
(* The translator *)

\* A driver that is in its loop has not asked for a close, and a translator that
\* ends under it has sent the loss: ending drops nothing the driver waits for.
LEMMA TaskEndsStream ==
    ASSUME StreamInv, TaskEnds, UNCHANGED <<drvVars, aborted, mgrVars, ack, updates, hist>>,
           closeAck' \in BOOLEAN, mq' \in Seq(ManagerMsg), fclosed \/ aborted,
           Active => Contains(updates, "lost")
    PROVE  StreamInv'
<1>1. /\ TaskTypes /\ JobTypes /\ QueueTypes /\ Sending /\ LostLast /\ UpFirst /\ UpAhead /\ NoFrameYet
      /\ LossWaits /\ LossComes /\ EndsInTurn /\ NeverClosed
  BY DEF StreamInv
<1>2. /\ tr' = "ended" /\ job' = NoJob /\ todo' = <<>> /\ next' = "select"
      /\ control' = <<>> /\ events' = <<>> /\ mack' = NoAck
      /\ Len(<<>>) = 0 /\ \A S : <<>> \in Seq(S)
  BY EmptySeq DEF TaskEnds
<1>3. TaskTypes'  BY <1>1, <1>2 DEF TaskTypes, drvVars, mgrVars, hist
<1>4. JobTypes' /\ QueueTypes' /\ NeverClosed'
  BY <1>1, <1>2 DEF JobTypes, AnyJob, QueueTypes, NeverClosed, drvVars
<1>5. Sending' /\ LossWaits' /\ EndsInTurn'
  BY <1>1, <1>2 DEF Sending, LossWaits, EndsInTurn, Active, NoAck, drvVars, mgrVars, hist
<1>6. LostLast' /\ UpFirst' /\ UpAhead'
  BY <1>1, <1>2 DEF LostLast, UpFirst, UpAhead, drvVars, mgrVars, hist
<1>7. NoFrameYet'  BY <1>1, <1>2 DEF NoFrameYet, drvVars, mgrVars, hist
<1>8. LossComes'  BY <1>1, <1>2 DEF LossComes, Contains, Active, drvVars, mgrVars
<1>9. QED  BY <1>3, <1>4, <1>5, <1>6, <1>7, <1>8 DEF StreamInv

\* One command for the manager.
LEMMA TellType ==
    ASSUME QueueTypes, NEW k \in {"remove", "shutdown"}, Tell(k)
    PROVE  mq' \in Seq(ManagerMsg)
<1>1. [kind |-> k] \in ManagerMsg /\ mq \in Seq(ManagerMsg)  BY DEF QueueTypes, ManagerMsg
<1>2. QED  BY <1>1, AppendProperties DEF Tell

\* The translator's end: the orderly one and the abort.
LEMMA EndStream ==
    ASSUME StreamInv, TearDown \/ AbortLands
    PROVE  StreamInv'
<1>1. TaskTypes /\ QueueTypes /\ LossComes /\ EndsInTurn  BY DEF StreamInv
<1>2. CASE TearDown
  <2>1. mq' \in Seq(ManagerMsg)  BY <1>1, <1>2, TellType DEF TearDown
  <2>2. fclosed /\ (Active => Contains(updates, "lost"))
    BY <1>1, <1>2 DEF TearDown, EndsInTurn, LossComes
  <2>3. closeAck' \in BOOLEAN  BY <1>2 DEF TearDown
  <2>4. QED  BY <1>2, <2>1, <2>2, <2>3, TaskEndsStream DEF TearDown
<1>3. CASE AbortLands
  <2>1. aborted /\ ~Active  BY <1>1, <1>3 DEF AbortLands, EndsInTurn, Active
  <2>2. mq' \in Seq(ManagerMsg) /\ closeAck' \in BOOLEAN
    BY <1>1, <1>3 DEF AbortLands, QueueTypes, TaskTypes
  <2>3. QED  BY <1>3, <2>1, <2>2, TaskEndsStream DEF AbortLands
<1>4. QED  BY <1>2, <1>3

\* The control arm.
LEMMA TakeControlStream ==
    ASSUME StreamInv, TakeControl
    PROVE  StreamInv'
<1>1. /\ TaskTypes /\ JobTypes /\ QueueTypes /\ Sending /\ LostLast /\ UpFirst /\ UpAhead /\ NoFrameYet
      /\ LossWaits /\ LossComes /\ EndsInTurn /\ NeverClosed
  BY DEF StreamInv
<1>2. /\ tr = "select"
      /\ UNCHANGED <<drvVars, todo, next, closeAck, aborted, mgrVars, ack, updates, events, mq, hist>>
  BY DEF TakeControl
<1>3. /\ control' \in Seq(ControlMsg) /\ job' \in AnyJob
      /\ (\E i \in 1..Len(control') : control'[i].kind = "close") =>
             (\E i \in 1..Len(control) : control[i].kind = "close")
      /\ \/ tr' = "stage" /\ mack' = NoAck
         \/ tr' = "closing" /\ ~Active
         \/ tr' = "cleanup" /\ ~Active
  <2>1. control \in Seq(ControlMsg)  BY <1>1 DEF QueueTypes
  <2>2. CASE control # <<>> /\ control' = Tail(control)
    <3>1. /\ control' \in Seq(ControlMsg) /\ Len(control') = Len(control) - 1 /\ Len(control) \in Nat \ {0}
          /\ \A i \in 1..Len(control') : control'[i] = control[i + 1] /\ i + 1 \in 1..Len(control)
          /\ Head(control) = control[1]
      BY <2>1, <2>2, TailIn
    <3>2. 1 \in 1..Len(control) /\ Head(control) \in ControlMsg
      BY <2>1, <3>1, ElementOfSeq
    <3>3. CASE Head(control).kind = "close" /\ tr' = "closing" /\ UNCHANGED <<job, mack>>
      BY <1>1, <3>1, <3>2, <3>3 DEF EndsInTurn, JobTypes
    <3>4. CASE Head(control).kind = "set" /\ job' = Head(control).job /\ tr' = "stage" /\ mack' = NoAck
      <4>1. job' \in AnyJob  BY <3>2, <3>4 DEF ControlMsg
      <4>2. QED  BY <3>1, <3>4, <4>1
    <3>5. QED  BY <2>2, <3>3, <3>4 DEF TakeControl
  <2>3. CASE drv = "ended" /\ tr' = "cleanup" /\ UNCHANGED <<control, job, mack>>
    BY <1>1, <2>1, <2>3 DEF Active, JobTypes
  <2>4. QED  BY <2>2, <2>3 DEF TakeControl
<1>4. TaskTypes' /\ JobTypes' /\ QueueTypes' /\ NeverClosed'
  BY <1>1, <1>2, <1>3 DEF TaskTypes, JobTypes, QueueTypes, NeverClosed, drvVars, mgrVars, hist
<1>5. Sending' /\ LostLast' /\ UpFirst' /\ UpAhead' /\ NoFrameYet' /\ LossWaits' /\ LossComes'
  BY <1>1, <1>2, <1>3, StreamKept DEF Active, drvVars, mgrVars, hist
<1>6. EndsInTurn'  BY <1>1, <1>2, <1>3 DEF EndsInTurn, Active, NoAck, drvVars, mgrVars, hist
<1>7. QED  BY <1>4, <1>5, <1>6 DEF StreamInv

\* The ForwardClose and the removal.
LEMMA CloseConnectionStream ==
    ASSUME StreamInv, CloseConnection
    PROVE  StreamInv'
<1>1. /\ TaskTypes /\ JobTypes /\ QueueTypes /\ Sending /\ LostLast /\ UpFirst /\ UpAhead /\ NoFrameYet
      /\ LossWaits /\ LossComes /\ EndsInTurn /\ NeverClosed
  BY DEF StreamInv
<1>2. /\ tr \in {"closing", "cleanup"} /\ tr' = (IF tr = "closing" THEN "closing2" ELSE "cleanup2")
      /\ fclosed' = TRUE
      /\ UNCHANGED <<drvVars, job, todo, next, closeAck, aborted, mgrVars, ack, control, updates,
                     events, mack, begun, closed>>
  BY DEF CloseConnection
<1>3. /\ mq' \in Seq(ManagerMsg)
      /\ (\E i \in 1..Len(mq') : mq'[i].kind = "shutdown") => (\E i \in 1..Len(mq) : mq[i].kind = "shutdown")
  <2>1. mq \in Seq(ManagerMsg) /\ [kind |-> "remove"] \in ManagerMsg  BY <1>1 DEF QueueTypes, ManagerMsg
  <2>2. LET a == Append(mq, [kind |-> "remove"])
        IN /\ a \in Seq(ManagerMsg) /\ Len(a) = Len(mq) + 1 /\ Len(mq) \in Nat
           /\ \A i \in 1..Len(mq) : a[i] = mq[i]
           /\ a[Len(mq) + 1] = [kind |-> "remove"]
    BY <2>1, AppendProperties, LenProperties
  <2>3. mq' \in {mq, Append(mq, [kind |-> "remove"])}  BY DEF CloseConnection, Tell
  <2>4. CASE mq' = mq  BY <2>1, <2>4
  <2>5. CASE mq' = Append(mq, [kind |-> "remove"])  BY <2>2, <2>5
  <2>6. QED  BY <2>3, <2>4, <2>5
<1>4. TaskTypes' /\ JobTypes' /\ QueueTypes' /\ NeverClosed'
  BY <1>1, <1>2, <1>3 DEF TaskTypes, JobTypes, QueueTypes, NeverClosed, drvVars, mgrVars
<1>5. Sending' /\ LostLast' /\ UpFirst' /\ UpAhead' /\ NoFrameYet' /\ LossWaits' /\ LossComes'
  BY <1>1, <1>2, StreamKept DEF Active, drvVars, mgrVars
<1>6. EndsInTurn'  BY <1>1, <1>2, <1>3 DEF EndsInTurn, Active, drvVars, mgrVars
<1>7. QED  BY <1>4, <1>5, <1>6 DEF StreamInv

\* What a consult makes of the queued events: one of each kind, in order.
LEMMA CollapseShape ==
    ASSUME NEW a \in {<<>>, <<"up">>}, NEW b \in {<<>>, <<"data">>}, NEW c \in {<<>>, <<"lost">>}
    PROVE  LET q == a \o b \o c
           IN /\ q \in Seq(Kinds)
              /\ \A i \in 1..Len(q) : /\ q[i] = "up" => i = 1 /\ a # <<>>
                                      /\ q[i] = "lost" => i = Len(q) /\ c # <<>>
                                      /\ q[i] = "data" => b # <<>>
              /\ a # <<>> => q # <<>> /\ q[1] = "up"
              /\ c # <<>> => q # <<>> /\ q[Len(q)] = "lost"
<1>1. /\ a \in Seq(Kinds) /\ (IF a = <<>> THEN Len(a) = 0 ELSE Len(a) = 1 /\ a[1] = "up")
      /\ b \in Seq(Kinds) /\ (IF b = <<>> THEN Len(b) = 0 ELSE Len(b) = 1 /\ b[1] = "data")
      /\ c \in Seq(Kinds) /\ (IF c = <<>> THEN Len(c) = 0 ELSE Len(c) = 1 /\ c[1] = "lost")
  <2>1. ASSUME NEW k \in Kinds
        PROVE  <<k>> \in Seq(Kinds) /\ <<k>> # <<>> /\ Len(<<k>>) = 1 /\ <<k>>[1] = k
    OBVIOUS
  <2>2. "up" \in Kinds /\ "data" \in Kinds /\ "lost" \in Kinds  BY DEF Kinds
  <2>3. <<>> \in Seq(Kinds) /\ Len(<<>>) = 0  BY EmptySeq
  <2>4. a \in Seq(Kinds) /\ (IF a = <<>> THEN Len(a) = 0 ELSE Len(a) = 1 /\ a[1] = "up")
    BY <2>1, <2>2, <2>3
  <2>5. b \in Seq(Kinds) /\ (IF b = <<>> THEN Len(b) = 0 ELSE Len(b) = 1 /\ b[1] = "data")
    BY <2>1, <2>2, <2>3
  <2>6. c \in Seq(Kinds) /\ (IF c = <<>> THEN Len(c) = 0 ELSE Len(c) = 1 /\ c[1] = "lost")
    BY <2>1, <2>2, <2>3
  <2>7. QED  BY <2>4, <2>5, <2>6
<1> DEFINE p == a \o b
           q == p \o c
<1>2. /\ p \in Seq(Kinds) /\ Len(p) = Len(a) + Len(b)
      /\ \A i \in 1..(Len(a) + Len(b)) : p[i] = IF i <= Len(a) THEN a[i] ELSE b[i - Len(a)]
  BY <1>1, ConcatProperties
<1> HIDE DEF p
<1>3. /\ q \in Seq(Kinds) /\ Len(q) = Len(p) + Len(c)
      /\ \A i \in 1..(Len(p) + Len(c)) : q[i] = IF i <= Len(p) THEN p[i] ELSE c[i - Len(p)]
  <2>1. p \in Seq(Kinds) /\ c \in Seq(Kinds)  BY <1>1, <1>2
  <2>2. QED  BY <2>1, ConcatProperties
<1> HIDE DEF q
<1>4. \A i \in 1..Len(q) : /\ q[i] = "up" => i = 1 /\ a # <<>>
                           /\ q[i] = "lost" => i = Len(q) /\ c # <<>>
                           /\ q[i] = "data" => b # <<>>
  BY <1>1, <1>2, <1>3, SMTT(60)
<1>5. a # <<>> => q # <<>> /\ q[1] = "up"  BY <1>1, <1>2, <1>3, EmptySeq
<1>6. ASSUME c # <<>> PROVE q # <<>> /\ q[Len(q)] = "lost"
  <2>1. Len(c) = 1 /\ c[1] = "lost" /\ Len(p) \in Nat /\ Len(q) = Len(p) + 1
    BY <1>1, <1>2, <1>3, <1>6, LenProperties
  <2>2. q[Len(p) + 1] = c[(Len(p) + 1) - Len(p)]  BY <1>3, <2>1
  <2>3. (Len(p) + 1) - Len(p) = 1 /\ q # <<>>  BY <2>1, EmptySeq
  <2>4. QED  BY <2>1, <2>2, <2>3
<1>7. QED  BY <1>3, <1>4, <1>5, <1>6 DEF q, p

\* The consult: the loss is in the queue, and what is ahead of it goes first.
LEMMA ConsultStream ==
    ASSUME StreamInv, tr \in {"stage", "verdict"}, conn = "lost", Consult,
           UNCHANGED <<drvVars, closeAck, aborted, mgrVars, control, updates, mq, hist>>
    PROVE  StreamInv'
<1>1. /\ TaskTypes /\ JobTypes /\ QueueTypes /\ Sending /\ LostLast /\ UpFirst /\ UpAhead /\ NoFrameYet
      /\ LossWaits /\ LossComes /\ EndsInTurn /\ NeverClosed
  BY DEF StreamInv
<1>2. Contains(events, "lost") /\ todo = <<>>  BY <1>1 DEF LossWaits, Sending
<1> DEFINE a == IF Contains(events, "up") THEN <<"up">> ELSE <<>>
           b == IF Contains(events, "data") THEN <<"data">> ELSE <<>>
           c == IF Contains(events, "lost") THEN <<"lost">> ELSE <<>>
<1>3. /\ todo' = a \o b \o c /\ next' = "cleanup" /\ events' = <<>>
      /\ tr' = (IF todo' = <<>> THEN next' ELSE "send") /\ job' = NoJob /\ mack' = NoAck
      /\ ack' \in {"lost", ack}
  BY <1>2 DEF Consult, Reply
<1>4. /\ a \in {<<>>, <<"up">>} /\ b \in {<<>>, <<"data">>} /\ c \in {<<>>, <<"lost">>}
      /\ (a # <<>> <=> Contains(events, "up")) /\ (b # <<>> <=> Contains(events, "data"))
      /\ c # <<>>
  BY <1>2
<1> HIDE DEF a, b, c
<1>5. /\ todo' \in Seq(Kinds)
      /\ \A i \in 1..Len(todo') : /\ todo'[i] = "up" => i = 1 /\ a # <<>>
                                  /\ todo'[i] = "lost" => i = Len(todo')
                                  /\ todo'[i] = "data" => b # <<>>
      /\ a # <<>> => todo'[1] = "up"
      /\ todo' # <<>> /\ todo'[Len(todo')] = "lost"
  BY <1>3, <1>4, CollapseShape, ZenonT(60)
<1>6. tr' = "send" /\ Len(todo') \in Nat \ {0} /\ events' \in Seq(Kinds) /\ Len(events') = 0
  BY <1>3, <1>5, EmptySeq
<1>7. TaskTypes' /\ JobTypes' /\ QueueTypes' /\ NeverClosed'
  <2>1. ack' \in Verdicts \cup {NoAck} /\ ack' # "closed"
    BY <1>1, <1>3 DEF QueueTypes, NeverClosed, Verdicts
  <2>2. QED  BY <1>1, <1>3, <1>5, <1>6, <2>1
             DEF TaskTypes, JobTypes, AnyJob, QueueTypes, NeverClosed, drvVars, mgrVars, hist
<1>8. Sending' /\ LossWaits'  BY <1>3, <1>5, <1>6 DEF Sending, LossWaits
<1>9. LostLast'
  <2>1. \A i \in 1..Len(updates) : updates[i] # "lost"
    <3>1. events # <<>>  BY <1>2, EmptySeq DEF Contains
    <3>2. QED  BY <1>1, <3>1 DEF LostLast
  <2>2. QED  BY <1>5, <1>6, <2>1, <1>3 DEF LostLast, mgrVars
<1>10. UpFirst'
  <2>1. \A i \in 1..Len(updates) : updates[i] = "up" => i = 1 /\ ~begun  BY <1>1 DEF UpFirst
  <2>2. a # <<>> => ~begun /\ updates = <<>>  BY <1>1, <1>4 DEF UpFirst, Contains
  <2>3. QED  BY <1>5, <1>6, <2>1, <2>2 DEF UpFirst, hist
<1>11. UpAhead'
  <2>1. SUFFICES ASSUME up, ~begun, drv # "ended", ~aborted
                 PROVE  IF updates # <<>> THEN updates[1] = "up" ELSE todo'[1] = "up"
    BY <1>5 DEF UpAhead, drvVars, mgrVars, hist
  <2>2. CASE updates # <<>>  BY <1>1, <2>1, <2>2 DEF UpAhead
  <2>3. CASE updates = <<>>
    <3>1. events # <<>> /\ Len(events) \in Nat \ {0}
      BY <1>1, <1>2, EmptySeq DEF Contains, QueueTypes
    <3>2. events[1] = "up"  BY <1>1, <1>2, <2>1, <2>3, <3>1 DEF UpAhead
    <3>3. a # <<>>  BY <1>4, <3>1, <3>2 DEF Contains
    <3>4. QED  BY <1>5, <2>3, <3>3
  <2>4. QED  BY <2>2, <2>3
<1>12. NoFrameYet'
  <2>1. SUFFICES ASSUME ~up
                 PROVE  /\ begun => conn = "lost"
                        /\ \A i \in 1..Len(updates) : updates[i] = "lost"
                        /\ \A i \in 1..Len(todo') : todo'[i] = "lost"
    BY <1>6 DEF NoFrameYet, drvVars, mgrVars, hist
  <2>2. \A q \in {updates, todo, events} : \A i \in 1..Len(q) : q[i] = "lost"
    BY <1>1, <2>1 DEF NoFrameYet
  <2>3. a = <<>> /\ b = <<>>  BY <1>4, <2>2 DEF Contains
  <2>4. \A i \in 1..Len(todo') : todo'[i] \in Kinds  BY <1>5, ElementOfSeq
  <2>5. QED  BY <1>5, <2>2, <2>3, <2>4 DEF Kinds
<1>13. LossComes'
  <2>1. Contains(todo', "lost")  BY <1>5, <1>6 DEF Contains
  <2>2. QED  BY <1>6, <2>1 DEF LossComes
<1>14. EndsInTurn'
  BY <1>1, <1>3, <1>6 DEF EndsInTurn, Active, NoAck, drvVars, mgrVars, hist
<1>15. QED  BY <1>7, <1>8, <1>9, <1>10, <1>11, <1>12, <1>13, <1>14 DEF StreamInv

\* The handoff of a staging command to the manager, and its verdict.
LEMMA StageStream ==
    ASSUME StreamInv, Stage \/ Verdict
    PROVE  StreamInv'
<1>1. /\ TaskTypes /\ JobTypes /\ QueueTypes /\ Sending /\ LostLast /\ UpFirst /\ UpAhead /\ NoFrameYet
      /\ LossWaits /\ LossComes /\ EndsInTurn /\ NeverClosed
  BY DEF StreamInv
<1>2. /\ tr \in {"stage", "verdict"}
      /\ UNCHANGED <<drvVars, closeAck, aborted, mgrVars, control, updates, hist>>
  BY DEF Stage, Verdict
<1>3. CASE Consult /\ UNCHANGED mq /\ (mgr = "down" \/ (tr = "verdict" /\ mack = "closed"))
  <2>1. conn = "lost"  BY <1>1, <1>2, <1>3 DEF EndsInTurn, TaskTypes
  <2>2. QED  BY <1>2, <1>3, <2>1, ConsultStream
<1>4. ASSUME NEW v \in {"ok", "expired"}, Resolved(v), UNCHANGED mq
      PROVE  StreamInv'
  <2>1. /\ tr' = "select" /\ UNCHANGED <<todo, next, events>> /\ job' = NoJob /\ mack' = NoAck
        /\ ack' \in {v, ack}
    BY <1>4 DEF Resolved, Reply
  <2>2. TaskTypes' /\ JobTypes' /\ QueueTypes' /\ NeverClosed'
    <3>1. ack' \in Verdicts \cup {NoAck} /\ ack' # "closed"
      BY <1>1, <2>1 DEF QueueTypes, NeverClosed, Verdicts
    <3>2. QED  BY <1>1, <1>2, <1>4, <2>1, <3>1
               DEF TaskTypes, JobTypes, AnyJob, QueueTypes, NeverClosed, drvVars, mgrVars, hist
  <2>3. Sending' /\ LostLast' /\ UpFirst' /\ UpAhead' /\ NoFrameYet' /\ LossWaits' /\ LossComes'
    BY <1>1, <1>2, <2>1, StreamKept DEF Active, drvVars, mgrVars, hist
  <2>4. EndsInTurn'
    BY <1>1, <1>2, <1>4, <2>1 DEF EndsInTurn, Active, NoAck, drvVars, mgrVars, hist
  <2>5. QED  BY <2>2, <2>3, <2>4 DEF StreamInv
<1>5. CASE /\ tr = "stage" /\ mq' = Append(mq, [kind |-> "set", job |-> job])
           /\ tr' = "verdict" /\ UNCHANGED <<ack, todo, next, events, job, mack>>
           /\ mgr = "run"
  <2> DEFINE m == [kind |-> "set", job |-> job]
  <2>1. m \in ManagerMsg /\ mq \in Seq(ManagerMsg) /\ m.kind = "set"
    BY <1>1 DEF JobTypes, QueueTypes, ManagerMsg
  <2>2. mq' = Append(mq, m)  BY <1>5
  <2> HIDE DEF m
  <2>3. /\ mq' \in Seq(ManagerMsg) /\ Len(mq') = Len(mq) + 1 /\ Len(mq) \in Nat
        /\ \A i \in 1..Len(mq) : mq'[i] = mq[i]
        /\ mq'[Len(mq) + 1] = m
    BY <2>1, <2>2, AppendProperties, LenProperties
  <2>4. \A k \in {"remove", "shutdown"} :
            (\E i \in 1..Len(mq') : mq'[i].kind = k) => (\E i \in 1..Len(mq) : mq[i].kind = k)
    BY <2>1, <2>3
  <2>5. TaskTypes' /\ JobTypes' /\ QueueTypes' /\ NeverClosed'
    BY <1>1, <1>2, <1>5, <2>3
    DEF TaskTypes, JobTypes, QueueTypes, NeverClosed, drvVars, mgrVars, hist
  <2>6. Sending' /\ LostLast' /\ UpFirst' /\ UpAhead' /\ NoFrameYet' /\ LossWaits' /\ LossComes'
    BY <1>1, <1>2, <1>5, StreamKept DEF Active, drvVars, mgrVars, hist
  <2>7. EndsInTurn'
    BY <1>1, <1>2, <1>5, <2>4 DEF EndsInTurn, Active, drvVars, mgrVars, hist
  <2>8. QED  BY <2>5, <2>6, <2>7 DEF StreamInv
<1>6. QED  BY <1>3, <1>4, <1>5 DEF Stage, Verdict

\* What the event arm takes: the samples at the head of the queue, and the event
\* behind them.
LEMMA BurstShape ==
    ASSUME QueueTypes, TakeEvent
    PROVE  \/ /\ \A i \in 1..Len(events) : events[i] = "data"
              /\ todo' = <<"data">> /\ events' = <<>> /\ next' = "select"
           \/ \E k \in 1..Len(events) :
                 /\ events[k] # "data" /\ \A i \in 1..(k - 1) : events[i] = "data"
                 /\ todo' = IF k = 1 THEN <<events[k]>> ELSE <<"data", events[k]>>
                 /\ next' = IF events[k] = "lost" THEN "cleanup" ELSE "select"
                 /\ events' \in Seq(Kinds) /\ Len(events') = Len(events) - k
                 /\ \A i \in 1..(Len(events) - k) : events'[i] = events[k + i]
<1> DEFINE NotData(e) == ~IsData(e)
           k == SelectInSeq(events, NotData)
           I == {i \in 1..Len(events) : NotData(events[i])}
           n == IF k = 0 THEN Len(events) ELSE k - 1
           carried == IF k = 0 THEN <<>> ELSE <<events[k]>>
           sends == (IF n > 0 THEN <<"data">> ELSE <<>>) \o carried
<1>1. /\ todo' = sends /\ next' = (IF Last(sends) = "lost" THEN "cleanup" ELSE "select")
      /\ events' = SubSeq(events, n + Len(carried) + 1, Len(events)) /\ events # <<>>
  BY DEF TakeEvent
<1>2. events \in Seq(Kinds) /\ Len(events) \in Nat \ {0} /\ \A i \in 1..Len(events) : events[i] \in Kinds
  BY <1>1, EmptySeq, ElementOfSeq DEF QueueTypes
<1>3. k = IF I # {} THEN Min(I) ELSE 0  BY DEF SelectInSeq
<1>4. CASE I = {}
  <2>1. \A i \in 1..Len(events) : events[i] = "data"  BY <1>4 DEF IsData
  <2>2. k = 0 /\ n = Len(events) /\ carried = <<>>  BY <1>3, <1>4
  <2>3. sends = <<"data">>
    <3>1. n > 0  BY <1>2, <2>2
    <3>2. sends = <<"data">> \o <<>>  BY <2>2, <3>1
    <3>3. QED  BY <3>2, SmallTuples
  <2>4. Last(sends) = "data"  BY <2>3, SmallTuples
  <2>5. events' = <<>>
    <3>1. n + Len(carried) + 1 = Len(events) + 1  BY <1>2, <2>2
    <3>2. events' = SubSeq(events, Len(events) + 1, Len(events))  BY <1>1, <3>1
    <3>3. QED  BY <1>2, <3>2, SubSeqEmpty
  <2>6. QED  BY <1>1, <2>1, <2>3, <2>4, <2>5
<1>5. CASE I # {}
  <2>1. k \in I /\ \A y \in I : k <= y
    <3>1. I \in SUBSET Nat  BY <1>2
    <3>2. \E x \in I : \A y \in I : x <= y  BY <1>5, <3>1, LeastMember
    <3>3. QED  BY <1>3, <1>5, <3>2 DEF Min
  <2>2. /\ k \in 1..Len(events) /\ events[k] # "data" /\ events[k] \in Kinds
        /\ \A i \in 1..(k - 1) : events[i] = "data"
    <3>1. k \in 1..Len(events) /\ events[k] # "data"  BY <2>1 DEF IsData
    <3>2. ASSUME NEW i \in 1..(k - 1) PROVE events[i] = "data"
      <4>1. i \in 1..Len(events) /\ ~(k <= i)  BY <1>2, <3>1
      <4>2. i \notin I  BY <2>1, <4>1
      <4>3. QED  BY <4>1, <4>2 DEF IsData
    <3>3. QED  BY <1>2, <3>1, <3>2
  <2>3. n = k - 1 /\ carried = <<events[k]>> /\ Len(carried) = 1
    <3>1. k # 0  BY <2>2
    <3>2. QED  BY <3>1
  <2>4. /\ events' \in Seq(Kinds) /\ Len(events') = Len(events) - k
        /\ \A i \in 1..(Len(events) - k) : events'[i] = events[k + i]
    <3>1. events' = SubSeq(events, k + 1, Len(events))
      <4>1. n + Len(carried) + 1 = k + 1  BY <2>2, <2>3
      <4>2. QED  BY <1>1, <4>1
    <3>2. \A i \in (k + 1)..Len(events) : events[i] \in Kinds  BY <1>2, <2>2
    <3>3. k + 1 \in Int /\ Len(events) \in Int  BY <1>2, <2>2
    <3> HIDE DEF k
    <3>4. /\ events' \in Seq(Kinds)
          /\ Len(events') = IF k + 1 <= Len(events) THEN Len(events) - (k + 1) + 1 ELSE 0
          /\ \A i \in 1..(Len(events) - (k + 1) + 1) : events'[i] = events[(k + 1) + i - 1]
      BY <3>1, <3>2, <3>3, SubSeqProperties
    <3>5. QED  BY <1>2, <2>2, <3>4
  <2>5. CASE k = 1
    <3>1. sends = <<>> \o <<events[k]>>
      <4>1. ~(n > 0)  BY <2>3, <2>5
      <4> HIDE DEF n, k
      <4>2. QED  BY <2>3, <4>1
    <3>2. sends = <<events[k]>>  BY <3>1, SmallTuples
    <3>3. Last(sends) = events[k]
      <4> DEFINE e == events[k]
      <4>1. sends = <<e>>  BY <3>2
      <4> HIDE DEF e, sends
      <4>2. Last(sends) = e  BY <4>1, SmallTuples
      <4>3. QED  BY <4>2 DEF e
    <3>4. todo' = <<events[k]>> /\ next' = (IF events[k] = "lost" THEN "cleanup" ELSE "select")
      BY <1>1, <3>2, <3>3
    <3> HIDE DEF k
    <3>5. QED  BY <2>2, <2>4, <2>5, <3>4
  <2>6. CASE k # 1
    <3>1. n > 0  BY <2>2, <2>3, <2>6
    <3>2. sends = <<"data">> \o <<events[k]>>  BY <2>3, <3>1
    <3>3. sends = <<"data", events[k]>>  BY <3>2, SmallTuples
    <3>4. Last(sends) = events[k]
      <4> DEFINE e == events[k]
      <4>1. sends = <<"data", e>>  BY <3>3
      <4> HIDE DEF e, sends
      <4>2. Last(sends) = e  BY <4>1, SmallTuples
      <4>3. QED  BY <4>2 DEF e
    <3>5. todo' = <<"data", events[k]>> /\ next' = (IF events[k] = "lost" THEN "cleanup" ELSE "select")
      BY <1>1, <3>3, <3>4
    <3> HIDE DEF k
    <3>6. QED  BY <2>2, <2>4, <2>6, <3>5
  <2>7. QED  BY <2>5, <2>6
<1>6. QED  BY <1>4, <1>5

\* The event arm.
LEMMA TakeEventStream ==
    ASSUME StreamInv, TakeEvent
    PROVE  StreamInv'
<1>1. /\ TaskTypes /\ JobTypes /\ QueueTypes /\ Sending /\ LostLast /\ UpFirst /\ UpAhead /\ NoFrameYet
      /\ LossWaits /\ LossComes /\ EndsInTurn /\ NeverClosed
  BY DEF StreamInv
<1>2. /\ tr = "select" /\ events # <<>> /\ tr' = "send" /\ todo = <<>>
      /\ UNCHANGED <<drvVars, job, closeAck, aborted, mgrVars, ack, control, updates, mq, mack, hist>>
  BY <1>1 DEF TakeEvent, Sending
<1>3. /\ events \in Seq(Kinds) /\ Len(events) \in Nat \ {0} /\ 1 \in 1..Len(events)
      /\ \A i \in 1..Len(events) : events[i] \in Kinds
  BY <1>1, <1>2, EmptySeq, ElementOfSeq DEF QueueTypes
<1>4. \A i \in 1..Len(updates) : updates[i] # "lost"  BY <1>1, <1>2 DEF LostLast
\* What the burst is, and that it is in the order of the queue.
<1>5. /\ todo' \in Seq(Kinds) /\ events' \in Seq(Kinds) /\ Len(todo') \in Nat \ {0} /\ next' \in {"select", "cleanup"}
      /\ todo'[1] = events[1] /\ (\A i \in 1..Len(todo') : \E j \in 1..Len(events) : j >= i /\ todo'[i] = events[j])
      /\ \A i \in 1..Len(todo') : todo'[i] = "lost" => i = Len(todo') /\ events' = <<>>
      /\ next' = "cleanup" <=> todo'[Len(todo')] = "lost"
      /\ \A i \in 1..Len(events') : \E j \in 1..Len(events) :
            j > i /\ events'[i] = events[j] /\ Len(events') - i = Len(events) - j
      /\ Contains(events, "lost") => Contains(todo', "lost") \/ Contains(events', "lost")
  <2>1. CASE /\ \A i \in 1..Len(events) : events[i] = "data"
             /\ todo' = <<"data">> /\ events' = <<>> /\ next' = "select"
    <3>1. todo' \in Seq(Kinds) /\ Len(todo') = 1 /\ todo'[1] = "data"
      BY <2>1 DEF Kinds
    <3>2. events' \in Seq(Kinds) /\ Len(events') = 0  BY <2>1, EmptySeq
    <3>3. ~Contains(events, "lost")  BY <2>1 DEF Contains
    <3>4. QED  BY <1>3, <2>1, <3>1, <3>2, <3>3
  <2>2. CASE \E k \in 1..Len(events) :
                 /\ events[k] # "data" /\ \A i \in 1..(k - 1) : events[i] = "data"
                 /\ todo' = IF k = 1 THEN <<events[k]>> ELSE <<"data", events[k]>>
                 /\ next' = IF events[k] = "lost" THEN "cleanup" ELSE "select"
                 /\ events' \in Seq(Kinds) /\ Len(events') = Len(events) - k
                 /\ \A i \in 1..(Len(events) - k) : events'[i] = events[k + i]
    <3>1. PICK k \in 1..Len(events) :
                 /\ events[k] # "data" /\ \A i \in 1..(k - 1) : events[i] = "data"
                 /\ todo' = IF k = 1 THEN <<events[k]>> ELSE <<"data", events[k]>>
                 /\ next' = IF events[k] = "lost" THEN "cleanup" ELSE "select"
                 /\ events' \in Seq(Kinds) /\ Len(events') = Len(events) - k
                 /\ \A i \in 1..(Len(events) - k) : events'[i] = events[k + i]
      BY <2>2
    <3>2. /\ todo' \in Seq(Kinds)
          /\ \/ k = 1 /\ Len(todo') = 1 /\ todo'[1] = events[k]
             \/ k > 1 /\ Len(todo') = 2 /\ todo'[1] = "data" /\ todo'[2] = events[k]
      <4> DEFINE e == events[k]
      <4>1. e \in Kinds /\ "data" \in Kinds /\ k \in Nat \ {0}  BY <1>3 DEF Kinds
      <4>2. todo' = IF k = 1 THEN <<e>> ELSE <<"data", e>>  BY <3>1
      <4> HIDE DEF e
      <4>3. CASE k = 1
        <5>1. todo' \in Seq(Kinds) /\ Len(todo') = 1 /\ todo'[1] = e  BY <4>1, <4>2, <4>3
        <5>2. QED  BY <4>3, <5>1 DEF e
      <4>4. CASE k # 1
        <5>1. todo' \in Seq(Kinds) /\ Len(todo') = 2 /\ todo'[1] = "data" /\ todo'[2] = e
          BY <4>1, <4>2, <4>4
        <5>2. k > 1  BY <4>1, <4>4
        <5>3. QED  BY <5>1, <5>2 DEF e
      <4>5. QED  BY <4>3, <4>4
    <3>3. k # 1 => events[1] = "data" /\ k > 1  BY <1>3, <3>1
    <3>4. events[k] = "lost" => events' = <<>>
      <4>1. events[k] = "lost" => k = Len(events)  BY <1>1 DEF LostLast
      <4>2. QED  BY <1>3, <3>1, <4>1, EmptySeq
    <3>5. \A i \in 1..Len(events') : \E j \in 1..Len(events) :
            j > i /\ events'[i] = events[j] /\ Len(events') - i = Len(events) - j
      <4>1. TAKE i \in 1..Len(events')
      <4>2. k + i \in 1..Len(events) /\ k + i > i /\ events'[i] = events[k + i]
            /\ Len(events') - i = Len(events) - (k + i)
        BY <1>3, <3>1
      <4>3. QED  BY <4>2
    <3>6. ASSUME Contains(events, "lost") PROVE Contains(todo', "lost") \/ Contains(events', "lost")
      <4>1. PICK j \in 1..Len(events) : events[j] = "lost"  BY <3>6 DEF Contains
      <4>2. CASE j < k
        <5>1. j \in 1..(k - 1)  BY <4>2
        <5>2. QED  BY <3>1, <4>1, <5>1
      <4>3. CASE j = k
        <5>1. Len(todo') \in 1..Len(todo') /\ todo'[Len(todo')] = "lost"  BY <3>2, <4>1, <4>3
        <5>2. QED  BY <5>1 DEF Contains
      <4>4. CASE j > k
        <5>1. j - k \in 1..(Len(events) - k) /\ k + (j - k) = j  BY <1>3, <4>4
        <5>2. events'[j - k] = "lost"  BY <3>1, <4>1, <5>1
        <5>3. QED  BY <3>1, <5>1, <5>2 DEF Contains
      <4>5. QED  BY <1>3, <4>2, <4>3, <4>4
    <3>7. \A i \in 1..Len(todo') : \E j \in 1..Len(events) : j >= i /\ todo'[i] = events[j]
      <4>1. TAKE i \in 1..Len(todo')
      <4>2. CASE i = Len(todo')  BY <3>2, <4>2
      <4>3. CASE i # Len(todo')  BY <1>3, <3>2, <3>3, <4>3
      <4>4. QED  BY <4>2, <4>3
    <3>8. /\ \A i \in 1..Len(todo') : todo'[i] = "lost" => i = Len(todo') /\ events' = <<>>
          /\ next' = "cleanup" <=> todo'[Len(todo')] = "lost"
      BY <3>1, <3>2, <3>4
    <3>9. QED  BY <3>1, <3>2, <3>3, <3>5, <3>6, <3>7, <3>8
  <2>3. QED  BY <1>1, <2>1, <2>2, BurstShape
<1>6. TaskTypes' /\ JobTypes' /\ QueueTypes' /\ NeverClosed'
  BY <1>1, <1>2, <1>5 DEF TaskTypes, JobTypes, QueueTypes, NeverClosed, drvVars, mgrVars, hist
<1>7. todo' # <<>>  BY <1>5, EmptySeq
<1>8. Sending' /\ LossWaits'
  <2>1. Sending'  BY <1>2, <1>5, <1>7 DEF Sending
  <2>2. ASSUME conn = "lost", next' = "select" PROVE Contains(events', "lost")
    <3>1. Contains(events, "lost")  BY <1>1, <1>2, <2>2 DEF LossWaits
    <3>2. ~Contains(todo', "lost")  BY <1>5, <2>2 DEF Contains
    <3>3. QED  BY <1>5, <3>1, <3>2
  <2>3. LossWaits'  BY <1>2, <2>2 DEF LossWaits, mgrVars
  <2>4. QED  BY <2>1, <2>3
<1>9. LostLast'
  <2>1. \A i \in 1..Len(todo') : todo'[i] = "lost" => i = Len(todo') /\ events' = <<>> /\ conn = "lost"
    BY <1>1, <1>5 DEF LostLast
  <2>2. ASSUME NEW i \in 1..Len(events'), events'[i] = "lost" PROVE i = Len(events') /\ conn = "lost"
    <3>1. PICK j \in 1..Len(events) :
            j > i /\ events'[i] = events[j] /\ Len(events') - i = Len(events) - j
      BY <1>5
    <3>2. j = Len(events) /\ conn = "lost"  BY <1>1, <2>2, <3>1 DEF LostLast
    <3>3. Len(events') \in Nat  BY <1>5, LenProperties
    <3>4. QED  BY <1>3, <3>1, <3>2, <3>3
  <2>3. QED  BY <1>2, <1>4, <2>1, <2>2 DEF LostLast, mgrVars
<1>10. UpFirst'
  <2>1. ASSUME NEW i \in 1..Len(todo'), todo'[i] = "up" PROVE i = 1 /\ ~begun /\ updates = <<>>
    <3>1. PICK j \in 1..Len(events) : j >= i /\ todo'[i] = events[j]  BY <1>5
    <3>2. j = 1 /\ ~begun /\ updates = <<>>  BY <1>1, <2>1, <3>1 DEF UpFirst
    <3>3. QED  BY <1>5, <3>1, <3>2
  <2>2. ASSUME NEW i \in 1..Len(events'), events'[i] = "up" PROVE FALSE
    <3>1. PICK j \in 1..Len(events) : j > i /\ events'[i] = events[j]  BY <1>5
    <3>2. j = 1  BY <1>1, <2>2, <3>1 DEF UpFirst
    <3>3. Len(events') \in Nat  BY <1>5, LenProperties
    <3>4. QED  BY <3>1, <3>2, <3>3
  <2>3. QED  BY <1>1, <1>2, <2>1, <2>2 DEF UpFirst, hist
<1>11. UpAhead'  BY <1>1, <1>2, <1>5, <1>7 DEF UpAhead, drvVars, mgrVars, hist
<1>12. NoFrameYet'
  <2>1. SUFFICES ASSUME ~up
                 PROVE  /\ begun => conn = "lost"
                        /\ \A i \in 1..Len(updates) : updates[i] = "lost"
                        /\ \A i \in 1..Len(todo') : todo'[i] = "lost"
                        /\ \A i \in 1..Len(events') : events'[i] = "lost"
    BY <1>2 DEF NoFrameYet, mgrVars, hist
  <2>2. \A q \in {updates, todo, events} : \A i \in 1..Len(q) : q[i] = "lost"
    BY <1>1, <2>1 DEF NoFrameYet
  <2>3. \A j \in 1..Len(events) : events[j] = "lost"  BY <2>2
  <2>4. \A i \in 1..Len(todo') : todo'[i] = "lost"  BY <1>5, <2>3
  <2>5. \A i \in 1..Len(events') : events'[i] = "lost"  BY <1>5, <2>3
  <2>6. QED  BY <1>1, <2>1, <2>2, <2>4, <2>5 DEF NoFrameYet
<1>13. LossComes'
  <2>1. Contains(updates, "lost") => Contains(updates', "lost")  BY <1>2
  <2>2. ~Contains(todo, "lost")  BY <1>2, EmptySeq DEF Contains
  <2>3. QED  BY <1>1, <1>2, <1>5, <2>1, <2>2 DEF LossComes, Active, drvVars, mgrVars
<1>14. EndsInTurn'
  BY <1>1, <1>2 DEF EndsInTurn, Active, drvVars, mgrVars, hist
<1>15. QED  BY <1>6, <1>8, <1>9, <1>10, <1>11, <1>12, <1>13, <1>14 DEF StreamInv

\* One send on the update channel.
LEMMA SendUpdateStream ==
    ASSUME StreamInv, SendUpdate
    PROVE  StreamInv'
<1>1. /\ TaskTypes /\ JobTypes /\ QueueTypes /\ Sending /\ LostLast /\ UpFirst /\ UpAhead /\ NoFrameYet
      /\ LossWaits /\ LossComes /\ EndsInTurn /\ NeverClosed
  BY DEF StreamInv
<1>2. /\ tr = "send" /\ todo # <<>> /\ todo' = Tail(todo)
      /\ tr' = (IF todo' = <<>> THEN next ELSE "send")
      /\ (drv = "ended" /\ updates' = updates) \/ (drv # "ended" /\ updates' = Append(updates, Head(todo)))
      /\ UNCHANGED <<drvVars, job, next, closeAck, aborted, mgrVars, ack, control, events, mq, mack, hist>>
  BY <1>1 DEF SendUpdate, Sending
<1>3. todo \in Seq(Kinds) /\ updates \in Seq(Kinds) /\ next \in {"select", "cleanup"}
  BY <1>1 DEF QueueTypes, TaskTypes
<1>4. /\ todo' \in Seq(Kinds) /\ Len(todo') = Len(todo) - 1 /\ Len(todo) \in Nat \ {0}
      /\ \A i \in 1..Len(todo') : todo'[i] = todo[i + 1] /\ i + 1 \in 1..Len(todo)
      /\ Head(todo) = todo[1] /\ 1 \in 1..Len(todo) /\ todo[1] \in Kinds
      /\ (todo' = <<>> <=> Len(todo) = 1)
  <2>1. /\ todo' \in Seq(Kinds) /\ Len(todo') = Len(todo) - 1 /\ Len(todo) \in Nat \ {0}
        /\ \A i \in 1..Len(todo') : todo'[i] = todo[i + 1] /\ i + 1 \in 1..Len(todo)
        /\ Head(todo) = todo[1]
    BY <1>2, <1>3, TailIn
  <2>2. 1 \in 1..Len(todo) /\ todo[1] \in Kinds  BY <1>3, <2>1, ElementOfSeq
  <2>3. todo' = <<>> <=> Len(todo') = 0  BY <2>1, EmptySeq
  <2>4. QED  BY <2>1, <2>2, <2>3
<1>5. /\ Append(updates, todo[1]) \in Seq(Kinds)
      /\ Len(Append(updates, todo[1])) = Len(updates) + 1 /\ Len(updates) \in Nat
      /\ \A i \in 1..Len(updates) : Append(updates, todo[1])[i] = updates[i]
      /\ Append(updates, todo[1])[Len(updates) + 1] = todo[1]
  BY <1>3, <1>4, AppendIn
<1>5a. \A i \in 1..Len(updates') :
           \/ i \in 1..Len(updates) /\ updates'[i] = updates[i]
           \/ i = Len(updates') /\ i = Len(updates) + 1 /\ updates'[i] = todo[1]
  <2>1. CASE updates' = updates  BY <2>1
  <2>2. CASE updates' = Append(updates, todo[1])  BY <1>5, <2>2
  <2>3. QED  BY <1>2, <1>4, <2>1, <2>2
<1>6. TaskTypes' /\ JobTypes' /\ QueueTypes' /\ NeverClosed'
  <2>1. updates' \in Seq(Kinds)  BY <1>2, <1>3, <1>4, <1>5
  <2>2. QED  BY <1>1, <1>2, <1>4, <2>1 DEF TaskTypes, JobTypes, QueueTypes, NeverClosed, drvVars, mgrVars, hist
<1>7. Sending'
  <2>1. (tr' = "send") <=> (todo' # <<>>)  BY <1>2, <1>3
  <2>2. ASSUME tr' = "send", next = "cleanup" PROVE todo'[Len(todo')] = "lost"
    <3>1. todo[Len(todo)] = "lost" /\ Len(todo) # 1  BY <1>1, <1>2, <1>4, <2>1, <2>2 DEF Sending
    <3>2. Len(todo') \in 1..Len(todo') /\ Len(todo') + 1 = Len(todo)  BY <1>4, <3>1
    <3>3. QED  BY <1>4, <3>1, <3>2
  <2>3. QED  BY <1>2, <2>1, <2>2 DEF Sending
<1>8. LossWaits'
  <2>1. (tr' \in {"select", "stage", "verdict"} \/ (tr' = "send" /\ next' = "select")) => next = "select"
    BY <1>2, <1>3
  <2>2. QED  BY <1>1, <1>2, <2>1 DEF LossWaits, Contains, mgrVars
<1>9. LostLast'
  <2>1. \A i \in 1..Len(updates) : updates[i] # "lost"  BY <1>1, <1>2 DEF LostLast
  <2>2. todo[1] = "lost" => todo' = <<>> /\ events = <<>> /\ conn = "lost"  BY <1>1, <1>4 DEF LostLast
  <2>3. ASSUME NEW i \in 1..Len(updates'), updates'[i] = "lost"
        PROVE  i = Len(updates') /\ todo' = <<>> /\ events = <<>> /\ conn = "lost"
    <3>1. updates'[i] = todo[1] /\ i = Len(updates')  BY <1>5a, <2>1, <2>3
    <3>2. QED  BY <2>2, <2>3, <3>1
  <2>4. ASSUME NEW i \in 1..Len(todo'), todo'[i] = "lost"
        PROVE  i = Len(todo') /\ events = <<>> /\ conn = "lost"
    BY <1>1, <1>4, <2>4 DEF LostLast
  <2>5. QED  BY <1>1, <1>2, <2>3, <2>4 DEF LostLast, mgrVars
<1>10. UpFirst'
  <2>1. ASSUME NEW i \in 1..Len(updates'), updates'[i] = "up" PROVE i = 1 /\ ~begun
    <3>1. todo[1] = "up" => ~begun /\ updates = <<>>  BY <1>1, <1>4 DEF UpFirst
    <3>2. \A j \in 1..Len(updates) : updates[j] = "up" => j = 1 /\ ~begun  BY <1>1 DEF UpFirst
    <3>3. updates = <<>> => Len(updates) = 0  BY EmptySeq
    <3>4. QED  BY <1>5a, <2>1, <3>1, <3>2, <3>3
  <2>2. \A i \in 1..Len(todo') : todo'[i] # "up"  BY <1>1, <1>4 DEF UpFirst
  <2>3. \A i \in 1..Len(events) : events[i] # "up"  BY <1>1, <1>2 DEF UpFirst
  <2>4. QED  BY <1>2, <2>1, <2>2, <2>3 DEF UpFirst, hist
<1>11. UpAhead'
  <2>1. SUFFICES ASSUME up, ~begun, drv # "ended", ~aborted
                 PROVE  updates' # <<>> /\ updates'[1] = "up"
    BY <1>2 DEF UpAhead, drvVars, mgrVars, hist
  <2>2. updates' # <<>>  BY <1>2, <1>4, <1>5, <2>1, EmptySeq
  <2>3. CASE updates # <<>>
    <3>1. updates[1] = "up" /\ 1 \in 1..Len(updates)  BY <1>1, <1>3, <1>5, <2>1, <2>3, EmptySeq DEF UpAhead
    <3>2. QED  BY <1>2, <1>4, <1>5, <2>1, <2>2, <3>1
  <2>4. CASE updates = <<>>
    <3>1. todo[1] = "up" /\ Len(updates) = 0  BY <1>1, <1>2, <2>1, <2>4, EmptySeq DEF UpAhead
    <3>2. QED  BY <1>2, <1>4, <1>5, <2>1, <2>2, <3>1
  <2>5. QED  BY <2>3, <2>4
<1>12. NoFrameYet'
  <2>1. SUFFICES ASSUME ~up
                 PROVE  /\ begun => conn = "lost"
                        /\ \A i \in 1..Len(updates') : updates'[i] = "lost"
                        /\ \A i \in 1..Len(todo') : todo'[i] = "lost"
                        /\ \A i \in 1..Len(events) : events[i] = "lost"
    BY <1>2 DEF NoFrameYet, mgrVars, hist
  <2>2. \A q \in {updates, todo, events} : \A i \in 1..Len(q) : q[i] = "lost"
    BY <1>1, <2>1 DEF NoFrameYet
  <2>3. \A i \in 1..Len(updates') : updates'[i] = "lost"
    <3>1. \A i \in 1..Len(updates) : updates[i] = "lost"  BY <2>2
    <3>2. todo[1] = "lost"  BY <1>4, <2>2
    <3>3. QED  BY <1>5a, <3>1, <3>2
  <2>4. QED  BY <1>1, <1>4, <2>1, <2>2, <2>3 DEF NoFrameYet
<1>13. LossComes'
  <2>1. SUFFICES ASSUME Active
                 PROVE  /\ conn = "lost" => Contains(updates', "lost") \/ Contains(todo', "lost") \/ Contains(events, "lost")
                        /\ tr' \in {"cleanup", "cleanup2", "ended"} => Contains(updates', "lost")
    BY <1>2 DEF LossComes, Active, drvVars, mgrVars
  <2>2. updates' = Append(updates, todo[1])  BY <1>2, <1>4, <2>1 DEF Active
  <2>3. Contains(updates, "lost") => Contains(updates', "lost")
    BY <1>5, <2>2 DEF Contains
  <2>4. todo[1] = "lost" => Contains(updates', "lost")  BY <1>5, <2>2 DEF Contains
  <2>5. Contains(todo, "lost") => Contains(updates', "lost") \/ Contains(todo', "lost")
    <3>1. SUFFICES ASSUME NEW i \in 1..Len(todo), todo[i] = "lost", i # 1 PROVE Contains(todo', "lost")
      BY <1>4, <2>4 DEF Contains
    <3>2. i - 1 \in 1..Len(todo') /\ (i - 1) + 1 = i  BY <1>4, <3>1
    <3>3. todo'[i - 1] = "lost"  BY <1>4, <3>1, <3>2
    <3>4. QED  BY <3>2, <3>3 DEF Contains
  <2>6. ASSUME tr' \in {"cleanup", "cleanup2", "ended"} PROVE Contains(updates', "lost")
    <3>1. next = "cleanup" /\ Len(todo) = 1  BY <1>2, <1>3, <1>4, <2>6
    <3>2. todo[1] = "lost"  BY <1>1, <1>2, <3>1 DEF Sending
    <3>3. QED  BY <2>4, <3>2
  <2>7. QED  BY <1>1, <2>1, <2>3, <2>5, <2>6 DEF LossComes
<1>14. EndsInTurn'
  BY <1>1, <1>2, <1>3 DEF EndsInTurn, Active, drvVars, mgrVars, hist
<1>15. QED  BY <1>6, <1>7, <1>8, <1>9, <1>10, <1>11, <1>12, <1>13, <1>14 DEF StreamInv

-----------------------------------------------------------------------------
(* The I/O manager *)

\* Commands: a staging leaves the stream alone, a removal and a shutdown come
\* from a translator that is past its loop.
LEMMA CommandStream ==
    ASSUME StreamInv, Command
    PROVE  StreamInv'
<1>1. /\ TaskTypes /\ JobTypes /\ QueueTypes /\ Sending /\ LostLast /\ UpFirst /\ UpAhead /\ NoFrameYet
      /\ LossWaits /\ LossComes /\ EndsInTurn /\ NeverClosed
  BY DEF StreamInv
<1>2. /\ mgr = "run" /\ mq # <<>>
      /\ UNCHANGED <<drvVars, trVars, up, ack, control, updates, events, hist>>
  BY DEF Command
<1>3. mq \in Seq(ManagerMsg)  BY <1>1 DEF QueueTypes
<1>4. /\ Tail(mq) \in Seq(ManagerMsg) /\ Len(Tail(mq)) = Len(mq) - 1 /\ Len(mq) \in Nat \ {0}
      /\ \A i \in 1..Len(Tail(mq)) : Tail(mq)[i] = mq[i + 1] /\ i + 1 \in 1..Len(mq)
      /\ Head(mq) = mq[1] /\ 1 \in 1..Len(mq)
  <2>1. /\ Tail(mq) \in Seq(ManagerMsg) /\ Len(Tail(mq)) = Len(mq) - 1 /\ Len(mq) \in Nat \ {0}
        /\ \A i \in 1..Len(Tail(mq)) : Tail(mq)[i] = mq[i + 1] /\ i + 1 \in 1..Len(mq)
        /\ Head(mq) = mq[1]
    BY <1>2, <1>3, TailIn
  <2>2. QED  BY <2>1
<1>5. \A k : (\E i \in 1..Len(Tail(mq)) : Tail(mq)[i].kind = k) => (\E i \in 1..Len(mq) : mq[i].kind = k)
  BY <1>4
<1>6. ASSUME conn' = conn \/ (conn = "live" /\ conn' = "removed"),
             mgr' \in {"run", "down"}, mq' \in Seq(ManagerMsg)
      PROVE  /\ TaskTypes' /\ JobTypes' /\ QueueTypes' /\ NeverClosed' /\ Sending' /\ LostLast'
             /\ UpFirst' /\ UpAhead' /\ NoFrameYet' /\ LossWaits' /\ LossComes'
  <2>1. TaskTypes' /\ JobTypes' /\ QueueTypes' /\ NeverClosed'
    BY <1>1, <1>2, <1>6 DEF TaskTypes, JobTypes, QueueTypes, NeverClosed, drvVars, trVars, hist
  <2>2. Sending' /\ LostLast' /\ UpFirst' /\ UpAhead' /\ NoFrameYet' /\ LossWaits' /\ LossComes'
    BY <1>1, <1>2, <1>6, StreamKept DEF Active, drvVars, trVars, hist
  <2>3. QED  BY <2>1, <2>2
<1>7. CASE /\ Head(mq).kind = "set" /\ mq' = Tail(mq) /\ UNCHANGED <<mgr, conn>>
           /\ mack' = "closed" => conn # "live" \/ mack = "closed"
  <2>1. mgr' \in {"run", "down"} /\ mq' \in Seq(ManagerMsg)  BY <1>2, <1>4, <1>7
  <2>2. EndsInTurn'
    BY <1>1, <1>2, <1>5, <1>7 DEF EndsInTurn, Active, drvVars, trVars, hist
  <2>3. QED  BY <1>6, <1>7, <2>1, <2>2 DEF StreamInv
<1>8. CASE /\ Head(mq).kind = "remove" /\ mq' = Tail(mq) /\ UNCHANGED <<mgr, mack>>
           /\ conn' = IF conn = "live" THEN "removed" ELSE conn
  <2>1. tr \in {"closing2", "cleanup2", "ended"}  BY <1>1, <1>4, <1>8 DEF EndsInTurn
  <2>2. mgr' \in {"run", "down"} /\ mq' \in Seq(ManagerMsg)  BY <1>2, <1>4, <1>8
  <2>3. EndsInTurn'
    BY <1>1, <1>2, <1>5, <1>8, <2>1 DEF EndsInTurn, Active, drvVars, trVars, hist
  <2>4. QED  BY <1>6, <1>8, <2>2, <2>3 DEF StreamInv
<1>9. CASE Head(mq).kind = "shutdown" /\ mgr' = "down" /\ mq' = <<>> /\ UNCHANGED <<conn, mack>>
  <2>1. tr = "ended"  BY <1>1, <1>4, <1>9 DEF EndsInTurn
  <2>2. mgr' \in {"run", "down"} /\ mq' \in Seq(ManagerMsg) /\ Len(mq') = 0  BY <1>9, EmptySeq
  <2>3. EndsInTurn'
    BY <1>1, <1>2, <1>9, <2>1, <2>2 DEF EndsInTurn, Active, drvVars, trVars, hist
  <2>4. QED  BY <1>6, <1>9, <2>2, <2>3 DEF StreamInv
<1>10. QED  BY <1>7, <1>8, <1>9 DEF Command

\* The manager ends when nobody can command it any more.
LEMMA CommandsEndStream ==
    ASSUME StreamInv, CommandsEnd
    PROVE  StreamInv'
<1>1. /\ TaskTypes /\ JobTypes /\ QueueTypes /\ Sending /\ LostLast /\ UpFirst /\ UpAhead /\ NoFrameYet
      /\ LossWaits /\ LossComes /\ EndsInTurn /\ NeverClosed
  BY DEF StreamInv
<1>2. /\ tr = "ended" /\ mgr' = "down" /\ conn' = (IF conn = "live" THEN "removed" ELSE conn)
      /\ UNCHANGED <<drvVars, trVars, up, producer, staged, chans, hist>>
  BY DEF CommandsEnd
<1>3. TaskTypes' /\ JobTypes' /\ QueueTypes' /\ NeverClosed'
  BY <1>1, <1>2 DEF TaskTypes, JobTypes, QueueTypes, NeverClosed, drvVars, trVars, chans, hist
<1>4. Sending' /\ LostLast' /\ UpFirst' /\ UpAhead' /\ NoFrameYet' /\ LossWaits' /\ LossComes'
  BY <1>1, <1>2, StreamKept DEF Active, drvVars, trVars, chans, hist
<1>5. EndsInTurn'  BY <1>1, <1>2 DEF EndsInTurn, Active, drvVars, trVars, chans, hist
<1>6. QED  BY <1>3, <1>4, <1>5 DEF StreamInv

\* A sample at capacity takes the place of the oldest sample: the rest of the
\* queue keeps its order, and an `Up` its place at the head.
LEMMA PushDataShape ==
    ASSUME NEW q \in Seq(Kinds), tr # "ended"
    PROVE  \E d \in Seq(Kinds) :
              /\ push_latest_wins(q, "data") = Append(d, "data")
              /\ \A i \in 1..Len(d) : \E j \in 1..Len(q) : j >= i /\ d[i] = q[j]
              /\ q # <<>> /\ q[1] = "up" => d # <<>> /\ d[1] = "up"
<1>1. Len(q) \in Nat /\ (\A i \in 1..Len(q) : q[i] \in Kinds) /\ (q # <<>> => 1 \in 1..Len(q))
  BY EmptySeq, LenProperties, ElementOfSeq
<1>2. CASE push_latest_wins(q, "data") = Append(q, "data")  BY <1>1, <1>2
<1>3. CASE push_latest_wins(q, "data") = Append(RemoveAt(q, SelectInSeq(q, IsData)), "data")
  <2> DEFINE k == SelectInSeq(q, IsData)
             I == {i \in 1..Len(q) : IsData(q[i])}
             d == RemoveAt(q, k)
  <2>1. k = IF I # {} THEN Min(I) ELSE 0  BY DEF SelectInSeq
  <2>2. k \in 0..Len(q) /\ (k # 0 => q[k] = "data")
    <3>1. CASE I = {}  BY <1>1, <2>1, <3>1
    <3>2. CASE I # {}
      <4>1. I \in SUBSET Nat  BY <1>1
      <4>2. \E x \in I : \A y \in I : x <= y  BY <3>2, <4>1, LeastMember
      <4>3. k \in I  BY <2>1, <3>2, <4>2 DEF Min
      <4>4. QED  BY <1>1, <4>3 DEF IsData
    <3>3. QED  BY <3>1, <3>2
  <2> HIDE DEF k
  <2>3. /\ d \in Seq(Kinds) /\ Len(d) = IF k = 0 THEN Len(q) ELSE Len(q) - 1
        /\ \A i \in 1..Len(d) : d[i] = IF k = 0 \/ i < k THEN q[i] ELSE q[i + 1]
    BY <2>2, RemoveAtShape
  <2>4. push_latest_wins(q, "data") = Append(d, "data")  BY <1>3 DEF k
  <2> HIDE DEF d
  <2>5. \A i \in 1..Len(d) : \E j \in 1..Len(q) : j >= i /\ d[i] = q[j]
    <3>1. TAKE i \in 1..Len(d)
    <3>2. CASE k = 0 \/ i < k  BY <1>1, <2>2, <2>3, <3>2
    <3>3. CASE ~(k = 0 \/ i < k)
      <4>1. i + 1 \in 1..Len(q) /\ i + 1 >= i /\ d[i] = q[i + 1]  BY <1>1, <2>2, <2>3, <3>3
      <4>2. QED  BY <4>1
    <3>4. QED  BY <3>2, <3>3
  <2>6. ASSUME q # <<>>, q[1] = "up" PROVE d # <<>> /\ d[1] = "up"
    <3>1. k # 1  BY <2>2, <2>6
    <3>2. 1 \in 1..Len(d) /\ (k = 0 \/ 1 < k)  BY <1>1, <2>2, <2>3, <2>6, <3>1
    <3>3. QED  BY <2>3, <2>6, <3>2, EmptySeq
  <2>7. QED  BY <2>3, <2>4, <2>5, <2>6
<1>4. QED  BY <1>2, <1>3 DEF push_latest_wins

\* An accepted frame.
LEMMA FrameStream ==
    ASSUME StreamInv, Frame
    PROVE  StreamInv'
<1>1. /\ TaskTypes /\ JobTypes /\ QueueTypes /\ Sending /\ LostLast /\ UpFirst /\ UpAhead /\ NoFrameYet
      /\ LossWaits /\ LossComes /\ EndsInTurn /\ NeverClosed
  BY DEF StreamInv
<1>2. /\ mgr = "run" /\ conn = "live" /\ up' = TRUE
      /\ UNCHANGED <<drvVars, trVars, mgr, conn, ack, control, updates, mq, mack, hist>>
  BY DEF Frame
<1>3. /\ \A i \in 1..Len(updates) : updates[i] # "lost"
      /\ \A i \in 1..Len(todo) : todo[i] # "lost"
      /\ \A i \in 1..Len(events) : events[i] # "lost"
  BY <1>1, <1>2 DEF LostLast
<1>4. updates \in Seq(Kinds) /\ todo \in Seq(Kinds) /\ events \in Seq(Kinds)  BY <1>1 DEF QueueTypes
\* Before the first frame every queue is empty.
<1>5. ~up => updates = <<>> /\ todo = <<>> /\ events = <<>> /\ ~begun
  <2>1. SUFFICES ASSUME ~up PROVE updates = <<>> /\ todo = <<>> /\ events = <<>> /\ ~begun  OBVIOUS
  <2>2. ~begun /\ \A q \in {updates, todo, events} : \A i \in 1..Len(q) : q[i] = "lost"
    BY <1>1, <1>2, <2>1 DEF NoFrameYet
  <2>3. \A q \in {updates, todo, events} : q \in Seq(Kinds) /\ Len(q) \in Nat /\ ~(1 \in 1..Len(q))
    BY <1>3, <1>4, <2>2, LenProperties
  <2>4. \A q \in {updates, todo, events} : q \in Seq(Kinds) /\ Len(q) = 0  BY <2>3
  <2>5. QED  BY <2>2, <2>4, EmptySeq
<1>6. CASE tr = "ended"
  <2>1. events' = events  BY <1>6 DEF Frame, push_latest_wins
  <2>2. TaskTypes' /\ JobTypes' /\ QueueTypes' /\ NeverClosed'
    BY <1>1, <1>2, <2>1 DEF TaskTypes, JobTypes, QueueTypes, NeverClosed, drvVars, trVars, hist
  <2>3. Sending' /\ LostLast' /\ UpFirst' /\ NoFrameYet' /\ LossWaits' /\ LossComes'
    BY <1>1, <1>2, <2>1 DEF Sending, LostLast, UpFirst, NoFrameYet, LossWaits, LossComes, Contains, Active, drvVars, trVars, hist
  <2>4. UpAhead'
    <3>1. CASE up  BY <1>1, <1>2, <2>1, <3>1 DEF UpAhead, drvVars, trVars, hist
    <3>2. CASE ~up  BY <1>2, <1>5, <1>6, <2>1, <3>2 DEF UpAhead, drvVars, trVars, hist
    <3>3. QED  BY <3>1, <3>2
  <2>5. EndsInTurn'  BY <1>1, <1>2 DEF EndsInTurn, Active, drvVars, trVars, hist
  <2>6. QED  BY <2>2, <2>3, <2>4, <2>5 DEF StreamInv
<1>7. CASE tr # "ended"
  <2> DEFINE q == IF up THEN events ELSE Append(events, "up")
  <2>1. events' = push_latest_wins(q, "data")  BY <1>7 DEF Frame, push_latest_wins, IsData
  <2>2. /\ q \in Seq(Kinds) /\ (\A i \in 1..Len(q) : q[i] # "lost")
        /\ \A i \in 1..Len(q) : q[i] = "up" => i = 1 /\ ~begun /\ updates = <<>> /\ todo = <<>>
        /\ ~up => q # <<>> /\ q[1] = "up"
    <3>1. CASE up  BY <1>1, <1>3, <1>4, <3>1 DEF UpFirst
    <3>2. CASE ~up
      <4>1. "up" \in Kinds /\ events \in Seq(Kinds) /\ Len(events) = 0  BY <1>4, <1>5, <3>2, EmptySeq DEF Kinds
      <4>2. /\ Append(events, "up") \in Seq(Kinds) /\ Len(Append(events, "up")) = Len(events) + 1
            /\ Append(events, "up")[Len(events) + 1] = "up"
        BY <4>1, AppendIn
      <4>3. q \in Seq(Kinds) /\ Len(q) = 1 /\ q[1] = "up"  BY <3>2, <4>1, <4>2
      <4> HIDE DEF q
      <4>4. QED  BY <1>5, <3>2, <4>3, EmptySeq
    <3>3. QED  BY <3>1, <3>2
  <2>3. up => q = events  OBVIOUS
  <2> HIDE DEF q
  <2>4. PICK d \in Seq(Kinds) :
              /\ events' = Append(d, "data")
              /\ \A i \in 1..Len(d) : \E j \in 1..Len(q) : j >= i /\ d[i] = q[j]
              /\ q # <<>> /\ q[1] = "up" => d # <<>> /\ d[1] = "up"
    BY <1>7, <2>1, <2>2, PushDataShape
  <2>5. /\ events' \in Seq(Kinds) /\ Len(events') = Len(d) + 1 /\ Len(d) \in Nat
        /\ \A i \in 1..Len(d) : events'[i] = d[i]
        /\ events'[Len(d) + 1] = "data"
    <3>1. "data" \in Kinds  BY DEF Kinds
    <3>2. QED  BY <2>4, <3>1, AppendIn
  <2>6. \A i \in 1..Len(events') : events'[i] # "lost"  BY <2>2, <2>4, <2>5
  <2>7. ASSUME NEW i \in 1..Len(events'), events'[i] = "up"
        PROVE  i = 1 /\ ~begun /\ updates = <<>> /\ todo = <<>>
    <3>1. i \in 1..Len(d) /\ d[i] = "up"  BY <2>5, <2>7
    <3>2. PICK j \in 1..Len(q) : j >= i /\ d[i] = q[j]  BY <2>4, <3>1
    <3>3. j = 1 /\ ~begun /\ updates = <<>> /\ todo = <<>>  BY <2>2, <3>1, <3>2
    <3>4. QED  BY <2>5, <3>2, <3>3
  <2>8. TaskTypes' /\ JobTypes' /\ QueueTypes' /\ NeverClosed'
    BY <1>1, <1>2, <2>5 DEF TaskTypes, JobTypes, QueueTypes, NeverClosed, drvVars, trVars, hist
  <2>9. Sending' /\ NoFrameYet' /\ LossWaits'
    BY <1>1, <1>2 DEF Sending, NoFrameYet, LossWaits, trVars
  <2>10. LostLast'  BY <1>2, <1>3, <2>6 DEF LostLast, trVars
  <2>11. UpFirst'  BY <1>1, <1>2, <2>7 DEF UpFirst, trVars, hist
  <2>12. UpAhead'
    <3>1. SUFFICES ASSUME ~begun, drv # "ended", ~aborted
                   PROVE  IF updates # <<>> THEN updates[1] = "up"
                          ELSE IF todo # <<>> THEN todo[1] = "up"
                          ELSE events' # <<>> /\ events'[1] = "up"
      BY <1>2 DEF UpAhead, drvVars, trVars, hist
    <3>2. CASE updates = <<>> /\ todo = <<>>
      <4>1. q # <<>> /\ q[1] = "up"
        <5>1. CASE up  BY <1>1, <1>7, <2>3, <3>1, <3>2, <5>1 DEF UpAhead
        <5>2. CASE ~up  BY <2>2, <5>2
        <5>3. QED  BY <5>1, <5>2
      <4>2. d # <<>> /\ d[1] = "up"  BY <2>4, <4>1
      <4>3. 1 \in 1..Len(d)  BY <2>4, <2>5, <4>2, EmptySeq
      <4>4. QED  BY <2>5, <3>2, <4>2, <4>3, EmptySeq
    <3>3. CASE ~(updates = <<>> /\ todo = <<>>)
      <4>1. up  BY <1>5, <3>3
      <4>2. QED  BY <1>1, <3>1, <3>3, <4>1 DEF UpAhead
    <3>4. QED  BY <3>2, <3>3
  <2>13. LossComes'  BY <1>1, <1>2 DEF LossComes, Contains, Active, drvVars, trVars
  <2>14. EndsInTurn'  BY <1>1, <1>2 DEF EndsInTurn, Active, drvVars, trVars, hist
  <2>15. QED  BY <2>8, <2>9, <2>10, <2>11, <2>12, <2>13, <2>14 DEF StreamInv
<1>8. QED  BY <1>6, <1>7

\* The connection is lost.
LEMMA LoseStream ==
    ASSUME StreamInv, Lose
    PROVE  StreamInv'
<1>1. /\ TaskTypes /\ JobTypes /\ QueueTypes /\ Sending /\ LostLast /\ UpFirst /\ UpAhead /\ NoFrameYet
      /\ LossWaits /\ LossComes /\ EndsInTurn /\ NeverClosed
  BY DEF StreamInv
<1>2. /\ mgr = "run" /\ conn = "live" /\ conn' = "lost"
      /\ (mgr' = mgr /\ mq' = mq) \/ (mgr' = "down" /\ mq' = <<>>)
      /\ UNCHANGED <<drvVars, trVars, up, ack, control, updates, mack, hist>>
  BY DEF Lose
<1>3. /\ \A i \in 1..Len(updates) : updates[i] # "lost"
      /\ \A i \in 1..Len(todo) : todo[i] # "lost"
      /\ \A i \in 1..Len(events) : events[i] # "lost"
  BY <1>1, <1>2 DEF LostLast
<1>4. updates \in Seq(Kinds) /\ todo \in Seq(Kinds) /\ events \in Seq(Kinds)  BY <1>1 DEF QueueTypes
<1>5. mq' \in Seq(ManagerMsg) /\ \A k : (\E i \in 1..Len(mq') : mq'[i].kind = k) => (\E i \in 1..Len(mq) : mq[i].kind = k)
  <2>1. mq \in Seq(ManagerMsg) /\ <<>> \in Seq(ManagerMsg) /\ Len(<<>>) = 0  BY <1>1, EmptySeq DEF QueueTypes
  <2>2. CASE mq' = mq  BY <2>1, <2>2
  <2>3. CASE mq' = <<>>  BY <2>1, <2>3
  <2>4. QED  BY <1>2, <2>2, <2>3
<1>6. EndsInTurn'  BY <1>1, <1>2, <1>5 DEF EndsInTurn, Active, drvVars, trVars, hist
<1>7. Active => tr \notin {"cleanup", "cleanup2", "ended"}
  BY <1>1, <1>3 DEF LossComes, Contains
<1>8. events' = IF tr = "ended" THEN events ELSE Append(events, "lost")
  BY DEF Lose, push_latest_wins, IsData
<1>9. /\ events' \in Seq(Kinds) /\ Len(events) \in Nat
      /\ Len(events') = IF tr = "ended" THEN Len(events) ELSE Len(events) + 1
      /\ \A i \in 1..Len(events) : events'[i] = events[i]
      /\ tr # "ended" => events'[Len(events) + 1] = "lost" /\ Contains(events', "lost")
  <2>1. "lost" \in Kinds /\ Len(events) \in Nat  BY <1>4, LenProperties DEF Kinds
  <2>2. CASE tr = "ended"  BY <1>4, <1>8, <2>1, <2>2
  <2>3. CASE tr # "ended"
    <3>1. events' = Append(events, "lost")  BY <1>8, <2>3
    <3>2. /\ events' \in Seq(Kinds) /\ Len(events') = Len(events) + 1
          /\ \A i \in 1..Len(events) : events'[i] = events[i]
          /\ events'[Len(events) + 1] = "lost"
      BY <1>4, <2>1, <3>1, AppendIn
    <3>3. Contains(events', "lost")  BY <2>1, <3>2 DEF Contains
    <3>4. QED  BY <2>1, <2>3, <3>2, <3>3
  <2>4. QED  BY <2>2, <2>3
<1>10. TaskTypes' /\ JobTypes' /\ QueueTypes' /\ NeverClosed'
  BY <1>1, <1>2, <1>5, <1>9 DEF TaskTypes, JobTypes, QueueTypes, NeverClosed, drvVars, trVars, hist
<1>11. Sending'  BY <1>1, <1>2 DEF Sending, trVars
<1>12. LostLast'
  <2>1. \A i \in 1..Len(events') : events'[i] = "lost" => i = Len(events')  BY <1>3, <1>9
  <2>2. QED  BY <1>2, <1>3, <2>1 DEF LostLast, trVars
<1>13. UpFirst'
  <2>1. \A i \in 1..Len(events) : events[i] = "up" => i = 1 /\ ~begun /\ updates = <<>> /\ todo = <<>>
    BY <1>1 DEF UpFirst
  <2>2. \A i \in 1..Len(events') : events'[i] = "up" => i = 1 /\ ~begun /\ updates = <<>> /\ todo = <<>>
    BY <1>9, <2>1
  <2>3. QED  BY <1>1, <1>2, <2>2 DEF UpFirst, trVars, hist
<1>14. UpAhead'
  <2>1. events # <<>> => events' # <<>> /\ events'[1] = events[1]  BY <1>4, <1>9, EmptySeq
  <2>2. tr = "ended" => events' = events  BY <1>8
  <2>3. QED  BY <1>1, <1>2, <2>1, <2>2 DEF UpAhead, drvVars, trVars, hist
<1>15. NoFrameYet'
  <2>1. SUFFICES ASSUME ~up
                 PROVE  /\ \A i \in 1..Len(updates) : updates[i] = "lost"
                        /\ \A i \in 1..Len(todo) : todo[i] = "lost"
                        /\ \A i \in 1..Len(events') : events'[i] = "lost"
    BY <1>2 DEF NoFrameYet, trVars
  <2>2. \A q \in {updates, todo, events} : \A i \in 1..Len(q) : q[i] = "lost"
    BY <1>1, <2>1 DEF NoFrameYet
  <2>3. \A i \in 1..Len(events) : events[i] = "lost"  BY <2>2
  <2>4. \A i \in 1..Len(events') : events'[i] = "lost"  BY <1>9, <2>3
  <2>5. QED  BY <2>2, <2>4
<1>16. LossWaits'  BY <1>2, <1>9 DEF LossWaits, trVars
<1>17. LossComes'  BY <1>2, <1>7, <1>9 DEF LossComes, Active, drvVars, trVars
<1>18. QED  BY <1>6, <1>10, <1>11, <1>12, <1>13, <1>14, <1>15, <1>16, <1>17 DEF StreamInv

-----------------------------------------------------------------------------
(* The theorems *)

\* Every step of the session keeps the stream's invariant.
LEMMA StepStream == StreamInv /\ [Next]_vars => StreamInv'
<1>1. SUFFICES ASSUME StreamInv, [Next]_vars PROVE StreamInv'  OBVIOUS
<1>2. CASE Driver
  BY <1>1, <1>2, WriteStream, LeaveStream, TakeUpdateStream DEF Driver
<1>3. CASE Translator
  BY <1>1, <1>3, TakeEventStream, SendUpdateStream, TakeControlStream, StageStream,
     CloseConnectionStream, EndStream DEF Translator
<1>4. CASE Manager
  BY <1>1, <1>4, CommandStream, CommandsEndStream, FrameStream, LoseStream DEF Manager
<1>5. CASE Done \/ UNCHANGED vars
  <2>1. UNCHANGED vars  BY <1>5 DEF Done
  <2>2. UNCHANGED <<drv, cur, outbuf, ans, tr, job, todo, next, closeAck, aborted, mgr, conn, up,
                    ack, control, updates, events, mq, mack, begun, fclosed, closed>>
    BY <2>1 DEF vars, drvVars, trVars, mgrVars, chans, hist
  <2>3. TaskTypes' /\ JobTypes' /\ QueueTypes' /\ Sending' /\ NeverClosed'
    BY <1>1, <2>2 DEF StreamInv, TaskTypes, JobTypes, QueueTypes, Sending, NeverClosed
  <2>4. LostLast' /\ UpFirst' /\ UpAhead' /\ NoFrameYet'
    BY <1>1, <2>2 DEF StreamInv, LostLast, UpFirst, UpAhead, NoFrameYet
  <2>5. LossWaits' /\ LossComes' /\ EndsInTurn'
    BY <1>1, <2>2 DEF StreamInv, LossWaits, LossComes, EndsInTurn, Contains, Active
  <2>6. QED  BY <2>3, <2>4, <2>5 DEF StreamInv
<1>6. QED  BY <1>1, <1>2, <1>3, <1>4, <1>5 DEF Next

\* The session's queues hold one stream, in every reachable state: the inductive
\* invariant of live.rs's translator between the driver and the I/O manager.
THEOREM StreamInvariant == Spec => []StreamInv
<1>1. QED  BY InitStream, StepStream, PTL DEF Spec

\* Where an element of the joined queues comes from.
LEMMA JoinedStream ==
    ASSUME QueueTypes
    PROVE  LET s == updates \o todo \o events
           IN /\ s \in Seq(Kinds) /\ Len(s) = Len(updates) + Len(todo) + Len(events)
              /\ Len(updates) \in Nat /\ Len(todo) \in Nat /\ Len(events) \in Nat
              /\ \A i \in 1..Len(s) : s[i] = IF i <= Len(updates) THEN updates[i]
                                             ELSE IF i <= Len(updates) + Len(todo) THEN todo[i - Len(updates)]
                                             ELSE events[i - (Len(updates) + Len(todo))]
<1>1. updates \in Seq(Kinds) /\ todo \in Seq(Kinds) /\ events \in Seq(Kinds)  BY DEF QueueTypes
<1>2. Len(updates) \in Nat /\ Len(todo) \in Nat /\ Len(events) \in Nat  BY <1>1, LenProperties
<1> DEFINE p == updates \o todo
           s == p \o events
<1>3. /\ p \in Seq(Kinds) /\ Len(p) = Len(updates) + Len(todo)
      /\ \A i \in 1..(Len(updates) + Len(todo)) : p[i] = IF i <= Len(updates) THEN updates[i] ELSE todo[i - Len(updates)]
  BY <1>1, ConcatProperties
<1> HIDE DEF p
<1>4. /\ s \in Seq(Kinds) /\ Len(s) = Len(p) + Len(events)
      /\ \A i \in 1..(Len(p) + Len(events)) : s[i] = IF i <= Len(p) THEN p[i] ELSE events[i - Len(p)]
  <2>1. p \in Seq(Kinds) /\ events \in Seq(Kinds)  BY <1>1, <1>3
  <2>2. QED  BY <2>1, ConcatProperties
<1> HIDE DEF s
<1>5. \A i \in 1..Len(s) : s[i] = IF i <= Len(updates) THEN updates[i]
                                  ELSE IF i <= Len(updates) + Len(todo) THEN todo[i - Len(updates)]
                                  ELSE events[i - (Len(updates) + Len(todo))]
  BY <1>2, <1>3, <1>4
<1>6. QED  BY <1>2, <1>3, <1>4, <1>5 DEF s, p

\* The invariant puts the joined queues in order.
LEMMA OrderFromParts == StreamInv => StreamEndsInOrder
<1>1. SUFFICES ASSUME StreamInv PROVE StreamEndsInOrder  OBVIOUS
<1>2. QueueTypes /\ LostLast /\ UpFirst /\ UpAhead /\ LossComes /\ EndsInTurn  BY <1>1 DEF StreamInv
<1> DEFINE s == updates \o todo \o events
           nu == Len(updates)
           nt == Len(todo)
           ne == Len(events)
<1>3. /\ s \in Seq(Kinds) /\ Len(s) = nu + nt + ne /\ nu \in Nat /\ nt \in Nat /\ ne \in Nat
      /\ \A i \in 1..Len(s) : s[i] = IF i <= nu THEN updates[i]
                                     ELSE IF i <= nu + nt THEN todo[i - nu] ELSE events[i - (nu + nt)]
  BY <1>2, JoinedStream
<1>4. /\ updates = <<>> <=> nu = 0
      /\ todo = <<>> <=> nt = 0
      /\ events = <<>> <=> ne = 0
  BY <1>2, EmptySeq DEF QueueTypes
<1> HIDE DEF s
<1>5. ASSUME NEW i \in 1..Len(s)
      PROVE  /\ (s[i] = "up") => (i = 1 /\ ~begun)
             /\ (s[i] = "lost") => (i = Len(s) /\ conn = "lost")
             /\ (i = 1 /\ ~begun /\ up /\ drv # "ended" /\ ~aborted) => s[i] = "up"
  <2>1. CASE i <= nu
    <3>1. i \in 1..nu /\ s[i] = updates[i]  BY <1>3, <2>1
    <3>2. QED  BY <1>2, <1>3, <1>4, <3>1 DEF LostLast, UpFirst, UpAhead
  <2>2. CASE nu < i /\ i <= nu + nt
    <3>1. i - nu \in 1..nt /\ s[i] = todo[i - nu]  BY <1>3, <2>2
    <3>2. (s[i] = "up") => (i = 1 /\ ~begun)
      <4>1. (s[i] = "up") => i - nu = 1 /\ ~begun /\ nu = 0  BY <1>2, <1>4, <3>1 DEF UpFirst
      <4>2. QED  BY <1>3, <4>1
    <3>3. (s[i] = "lost") => (i = Len(s) /\ conn = "lost")
      <4>1. (s[i] = "lost") => i - nu = nt /\ ne = 0 /\ conn = "lost"  BY <1>2, <1>4, <3>1 DEF LostLast
      <4>2. QED  BY <1>3, <4>1
    <3>4. ASSUME i = 1, ~begun, up, drv # "ended", ~aborted PROVE s[i] = "up"
      <4>1. nu = 0 /\ nt # 0 /\ i - nu = 1  BY <1>3, <2>2, <3>4
      <4>2. todo[1] = "up"  BY <1>2, <1>4, <3>4, <4>1 DEF UpAhead
      <4>3. QED  BY <3>1, <4>1, <4>2
    <3>5. QED  BY <3>2, <3>3, <3>4
  <2>3. CASE nu + nt < i
    <3>1. i - (nu + nt) \in 1..ne /\ s[i] = events[i - (nu + nt)]  BY <1>3, <2>3
    <3>2. (s[i] = "up") => (i = 1 /\ ~begun)
      <4>1. (s[i] = "up") => i - (nu + nt) = 1 /\ ~begun /\ nu = 0 /\ nt = 0  BY <1>2, <1>4, <3>1 DEF UpFirst
      <4>2. QED  BY <1>3, <4>1
    <3>3. (s[i] = "lost") => (i = Len(s) /\ conn = "lost")
      <4>1. (s[i] = "lost") => i - (nu + nt) = ne /\ conn = "lost"  BY <1>2, <3>1 DEF LostLast
      <4>2. QED  BY <1>3, <4>1
    <3>4. ASSUME i = 1, ~begun, up, drv # "ended", ~aborted PROVE s[i] = "up"
      <4>1. nu = 0 /\ nt = 0 /\ ne # 0 /\ i - (nu + nt) = 1  BY <1>3, <2>3, <3>4
      <4>2. events[1] = "up"  BY <1>2, <1>4, <3>4, <4>1 DEF UpAhead
      <4>3. QED  BY <3>1, <4>1, <4>2
    <3>5. QED  BY <3>2, <3>3, <3>4
  <2>4. QED  BY <1>3, <2>1, <2>2, <2>3
<1>6. ASSUME drv \in {"run", "handoff", "await"}, conn = "lost" \/ tr = "ended"
      PROVE  Contains(s, "lost")
  <2>1. Contains(updates, "lost") \/ Contains(todo, "lost") \/ Contains(events, "lost")
    BY <1>2, <1>6 DEF LossComes, Active
  <2>2. CASE Contains(updates, "lost")
    <3>1. PICK j \in 1..nu : updates[j] = "lost"  BY <2>2 DEF Contains
    <3>2. j \in 1..Len(s) /\ s[j] = "lost"  BY <1>3, <3>1
    <3>3. QED  BY <3>2 DEF Contains
  <2>3. CASE Contains(todo, "lost")
    <3>1. PICK j \in 1..nt : todo[j] = "lost"  BY <2>3 DEF Contains
    <3>2. nu + j \in 1..Len(s) /\ ~(nu + j <= nu) /\ nu + j <= nu + nt /\ (nu + j) - nu = j  BY <1>3
    <3>3. s[nu + j] = "lost"  BY <1>3, <3>1, <3>2
    <3>4. QED  BY <3>2, <3>3 DEF Contains
  <2>4. CASE Contains(events, "lost")
    <3>1. PICK j \in 1..ne : events[j] = "lost"  BY <2>4 DEF Contains
    <3> DEFINE m == nu + nt + j
    <3>2. m \in 1..Len(s) /\ ~(m <= nu) /\ ~(m <= nu + nt) /\ m - (nu + nt) = j  BY <1>3
    <3>3. s[m] = "lost"  BY <1>3, <3>1, <3>2
    <3>4. QED  BY <3>2, <3>3 DEF Contains
  <2>5. QED  BY <2>1, <2>2, <2>3, <2>4
<1>7. StreamInOrder  BY <1>5, <1>6 DEF StreamInOrder, s
<1>8. CloseMeansEnded  BY <1>2 DEF CloseMeansEnded, EndsInTurn
<1>9. QED  BY <1>7, <1>8 DEF StreamEndsInOrder

\* The stream a driver reads is well formed to its end, and a close() that
\* returned has ended the translator or aborted it, whatever the depth of the
\* queues.
THEOREM StreamIsInOrder == Spec => []StreamEndsInOrder
<1>1. QED  BY StreamInvariant, OrderFromParts, PTL

\* No write is told of an orderly close: a loss always arrives before the
\* refusal that is due to it (closed_verdict).
THEOREM LossIsAlwaysNamed == Spec => []LossIsNamed
<1>1. StreamInv => LossIsNamed  BY DEF StreamInv, NeverClosed, LossIsNamed
<1>2. QED  BY StreamInvariant, <1>1, PTL

-----------------------------------------------------------------------------
(***************************************************************************)
(* The answers.  A write is in one place at a time: the control channel,   *)
(* the translator's hands, the manager's command channel.  Of all the      *)
(* writes still somewhere only the one being made can be within its        *)
(* deadline, so an abandoned one is refused by the manager when it gets    *)
(* there.                                                                  *)
(***************************************************************************)

\* The staging commands of a queue, and whether a write is among them.
Sets(q) == {i \in 1..Len(q) : q[i].kind = "set"}
Jobs(q) == {q[i].job : i \in Sets(q)}
Has(q, w) == \E j \in Jobs(q) : j.w = w
Distinct(q) == \A i, k \in Sets(q) : q[i].job.w = q[k].job.w => i = k

Held == IF tr \in {"stage", "verdict"} THEN {job} ELSE {}
Pending == Jobs(control) \cup Jobs(mq) \cup Held
Holds(w) == \E j \in Held : j.w = w

\* No write is queued twice; a task that has ended has no commands.
OnceQueued ==
    /\ Distinct(control) /\ Distinct(mq)
    /\ mgr = "down" => mq = <<>>
    /\ tr = "ended" => control = <<>>

\* Nothing is known of a write that is not made yet.
NotYet ==
    /\ \A j \in Pending : j.w \in 1..cur.w
    /\ staged \subseteq 1..cur.w
    /\ \A w \in Writes : w > cur.w => ans[w] = "none"
    /\ drv \in {"handoff", "await"} => cur.w >= 1 /\ ans[cur.w] = "none"
    /\ drv = "handoff" => ack = NoAck /\ cur.w \notin staged /\ \A j \in Pending : j.w # cur.w

\* A write is in one place at a time, and staged only after it left the last.
OnePlace ==
    /\ \A j \in Jobs(control) : ~Has(mq, j.w) /\ ~Holds(j.w) /\ j.w \notin staged
    /\ \A j \in Jobs(mq) : j.w \notin staged
    /\ tr = "stage" => job.w \notin staged /\ ~Has(mq, job.w) /\ mack = NoAck
    /\ tr = "verdict" => /\ (mack = "ok" <=> job.w \in staged)
                         /\ mack # NoAck => ~Has(mq, job.w)

\* What can still reach the producer buffer is the write being made, unanswered.
OneLive ==
    \A j \in Pending : j.w \in late \/ (j = cur /\ drv \in {"await", "ended"} /\ ans[cur.w] = "none")

\* What the channel of the write being made carries is true of it.
AckTrue ==
    drv = "await" =>
        /\ ack # NoAck => ~Has(control, cur.w) /\ ~Holds(cur.w)
        /\ ack = "ok" => cur.w \in staged
        /\ ack \in {"expired", "lost", "closed"} => cur.w \notin staged /\ (Has(mq, cur.w) => cur.w \in late)
        /\ ack = NoAck => \/ Has(control, cur.w) \/ Holds(cur.w)
                          \/ tr = "ended" /\ cur.w \notin staged /\ ~Has(mq, cur.w)

\* The candidate is the session's image with one field changed, and the last
\* write that was staged is the last one that could be.
OneField ==
    /\ \A f \in Fields : f # cur.f => cur.img[f] = outbuf[f]
    /\ cur.w \in staged => producer = cur
    /\ producer.w \in staged \cup {0}

AnswerInv ==
    /\ OnceQueued /\ NotYet /\ OnePlace /\ OneLive /\ AckTrue /\ OneField
    /\ RefusedOutright /\ OutBufMirrors

-----------------------------------------------------------------------------
(* The staging commands of a queue *)

\* An empty queue has none.
LEMMA JobsEmpty == Jobs(<<>>) = {} /\ Distinct(<<>>)
<1>1. Len(<<>>) = 0  BY EmptySeq
<1>2. Sets(<<>>) = {}  BY <1>1 DEF Sets
<1>3. QED  BY <1>2 DEF Jobs, Distinct

\* A send adds at most its own.
LEMMA JobsAppend ==
    ASSUME NEW S, NEW q \in Seq(S), NEW m \in S
    PROVE  /\ Jobs(Append(q, m)) = Jobs(q) \cup (IF m.kind = "set" THEN {m.job} ELSE {})
           /\ Distinct(q) /\ (m.kind = "set" => ~Has(q, m.job.w)) => Distinct(Append(q, m))
<1> DEFINE a == Append(q, m)
           n == Len(q) + 1
<1>1. /\ Len(a) = n /\ Len(q) \in Nat /\ a[n] = m
      /\ \A i \in 1..Len(q) : a[i] = q[i]
  BY AppendIn
<1> HIDE DEF a
<1>2. Sets(a) = Sets(q) \cup (IF m.kind = "set" THEN {n} ELSE {}) /\ \A i \in Sets(q) : a[i] = q[i] /\ i # n
  <2>1. 1..Len(a) = (1..Len(q)) \cup {n} /\ n \notin 1..Len(q)  BY <1>1
  <2>2. QED  BY <1>1, <2>1 DEF Sets
<1>3. Jobs(a) = Jobs(q) \cup (IF m.kind = "set" THEN {m.job} ELSE {})
  BY <1>1, <1>2 DEF Jobs
<1>4. ASSUME Distinct(q), m.kind = "set" => ~Has(q, m.job.w) PROVE Distinct(a)
  <2>1. SUFFICES ASSUME NEW i \in Sets(a), NEW k \in Sets(a), a[i].job.w = a[k].job.w PROVE i = k
    BY DEF Distinct
  <2>2. CASE i \in Sets(q) /\ k \in Sets(q)  BY <1>2, <1>4, <2>1, <2>2 DEF Distinct
  <2>3. \A l \in Sets(q) : m.kind = "set" => q[l].job.w # m.job.w  BY <1>4 DEF Has, Jobs
  <2>4. QED  BY <1>1, <1>2, <2>1, <2>2, <2>3
<1>5. QED  BY <1>3, <1>4 DEF a

\* A send of anything else adds none.
LEMMA OtherAppend ==
    ASSUME NEW S, NEW q \in Seq(S), NEW m \in S, m.kind # "set"
    PROVE  Jobs(Append(q, m)) = Jobs(q) /\ (Distinct(q) => Distinct(Append(q, m)))
<1>1. Jobs(Append(q, m)) = Jobs(q) \cup (IF m.kind = "set" THEN {m.job} ELSE {})  BY JobsAppend
<1>2. Distinct(q) => Distinct(Append(q, m))  BY JobsAppend
<1>3. (IF m.kind = "set" THEN {m.job} ELSE {}) = {}  OBVIOUS
<1>4. QED  BY <1>1, <1>2, <1>3

\* A receive takes the head's, and it is nowhere behind it.
LEMMA JobsTail ==
    ASSUME NEW S, NEW q \in Seq(S), q # <<>>
    PROVE  /\ Jobs(q) = Jobs(Tail(q)) \cup (IF Head(q).kind = "set" THEN {Head(q).job} ELSE {})
           /\ Distinct(q) => /\ Distinct(Tail(q))
                             /\ Head(q).kind = "set" => ~Has(Tail(q), Head(q).job.w)
<1> DEFINE t == Tail(q)
<1>1. /\ Len(t) = Len(q) - 1 /\ Len(q) \in Nat \ {0} /\ q[1] = Head(q)
      /\ \A i \in 1..Len(t) : t[i] = q[i + 1] /\ i + 1 \in 1..Len(q)
  BY TailIn
<1> HIDE DEF t
<1>2. \A i \in Sets(t) : i + 1 \in Sets(q) /\ t[i] = q[i + 1] /\ i + 1 # 1 /\ i \in Nat
  BY <1>1 DEF Sets
<1>3. \A k \in Sets(q) : k = 1 \/ (k - 1 \in Sets(t) /\ t[k - 1] = q[k])
  <2>1. TAKE k \in Sets(q)
  <2>2. CASE k # 1
    <3>1. k - 1 \in 1..Len(t) /\ (k - 1) + 1 = k  BY <1>1, <2>2 DEF Sets
    <3>2. QED  BY <1>1, <3>1 DEF Sets
  <2>3. QED  BY <2>2
<1>4. 1 \in Sets(q) <=> Head(q).kind = "set"  BY <1>1 DEF Sets
<1>5. Jobs(q) = Jobs(t) \cup (IF Head(q).kind = "set" THEN {Head(q).job} ELSE {})
  <2>1. \A j \in Jobs(q) : j \in Jobs(t) \/ (Head(q).kind = "set" /\ j = Head(q).job)
    BY <1>1, <1>3, <1>4 DEF Jobs
  <2>2. \A j \in Jobs(t) : j \in Jobs(q)  BY <1>2 DEF Jobs
  <2>3. Head(q).kind = "set" => Head(q).job \in Jobs(q)  BY <1>1, <1>4 DEF Jobs
  <2>4. QED  BY <2>1, <2>2, <2>3
<1>6. ASSUME Distinct(q) PROVE Distinct(t) /\ (Head(q).kind = "set" => ~Has(t, Head(q).job.w))
  <2>1. ASSUME NEW i \in Sets(t), NEW k \in Sets(t), t[i].job.w = t[k].job.w PROVE i = k
    <3>1. i + 1 = k + 1  BY <1>2, <1>6, <2>1 DEF Distinct
    <3>2. QED  BY <1>2, <3>1
  <2>2. ASSUME Head(q).kind = "set", NEW i \in Sets(t), t[i].job.w = Head(q).job.w PROVE FALSE
    <3>1. i + 1 = 1  BY <1>1, <1>2, <1>4, <1>6, <2>2 DEF Distinct
    <3>2. QED  BY <1>2, <3>1
  <2>3. QED  BY <2>1, <2>2 DEF Distinct, Has, Jobs
<1>7. QED  BY <1>5, <1>6 DEF t

-----------------------------------------------------------------------------
(* set_output *)

\* The numbers of the writes.
LEMMA WriteNumbers ==
    ASSUME StreamInv
    PROVE  /\ MaxWrites \in Nat /\ cur.w \in 0..MaxWrites /\ ans \in [Writes -> Answers]
           /\ control \in Seq(ControlMsg) /\ mq \in Seq(ManagerMsg)
           /\ \A n \in 1..cur.w : n \in Writes
           /\ ack \in Verdicts \cup {NoAck}
<1>1. MaxWrites \in Nat /\ cur.w \in 0..MaxWrites
  BY SessionAssumption DEF StreamInv, JobTypes, AnyJob, Job, NoJob, Writes
<1>2. ans \in [Writes -> Answers] /\ control \in Seq(ControlMsg) /\ mq \in Seq(ManagerMsg)
      /\ ack \in Verdicts \cup {NoAck}
  BY DEF StreamInv, QueueTypes
<1>3. QED  BY <1>1, <1>2 DEF Writes

\* A new candidate: the number is fresh, and every write still somewhere is late.
LEMMA SetOutputAnswers ==
    ASSUME StreamInv, AnswerInv, NEW f \in Fields, NEW v \in Values, SetOutput(f, v)
    PROVE  AnswerInv'
<1>1. /\ OnceQueued /\ NotYet /\ OnePlace /\ OneLive /\ AckTrue /\ OneField
      /\ RefusedOutright /\ OutBufMirrors
  BY DEF AnswerInv
<1> DEFINE n == cur.w + 1
<1>2. /\ drv = "run" /\ cur'.w = n /\ cur'.f = f /\ cur'.img = [outbuf EXCEPT ![f] = v]
      /\ (drv' = "handoff" /\ ans' = ans) \/ (drv' = "run" /\ ans' = [ans EXCEPT ![n] = "invalid"])
      /\ UNCHANGED <<outbuf, late, control, mq, mack, tr, job, mgr, producer, staged>>
  BY DEF SetOutput, trVars, mgrVars
<1>3. n \in Writes /\ n \in Nat \ {0} /\ cur.w \in Nat /\ ans \in [Writes -> Answers]
      /\ \A k \in 1..cur.w : k \in Writes /\ k \in 1..n /\ k # n
  <2>1. cur.w < MaxWrites  BY DEF SetOutput
  <2>2. MaxWrites \in Nat /\ cur.w \in 0..MaxWrites /\ ans \in [Writes -> Answers]  BY WriteNumbers
  <2>3. QED  BY <2>1, <2>2 DEF Writes
<1>4. Pending' = Pending /\ Held' = Held  BY <1>2 DEF Pending, Held
<1>5. \A j \in Pending : j.w \in late /\ j.w \in 1..cur.w  BY <1>1, <1>2 DEF OneLive, NotYet
<1>6. n \notin staged /\ \A j \in Pending : j.w # n  BY <1>1, <1>3, <1>5 DEF NotYet
<1> HIDE DEF n
<1>7. OnceQueued' /\ OnePlace'
  BY <1>1, <1>2, <1>4 DEF OnceQueued, OnePlace, Holds
<1>8. NotYet'
  <2>1. \A j \in Pending' : j.w \in 1..cur'.w  BY <1>2, <1>3, <1>4, <1>5
  <2>2. staged' \subseteq 1..cur'.w  BY <1>1, <1>2, <1>3 DEF NotYet
  <2>3. \A w \in Writes : w > n => ans'[w] = "none"
    <3>1. \A w \in Writes : w > n => w > cur.w /\ w # n  BY <1>3 DEF Writes, n
    <3>2. QED  BY <1>1, <1>2, <1>3, <3>1 DEF NotYet
  <2>4. drv' = "handoff" => n >= 1 /\ ans'[n] = "none"
    <3>1. n > cur.w /\ n >= 1  BY <1>3 DEF n
    <3>2. QED  BY <1>1, <1>2, <1>3, <3>1 DEF NotYet
  <2>5. ack' = NoAck  BY DEF SetOutput
  <2>6. QED  BY <1>2, <1>4, <1>6, <2>1, <2>2, <2>3, <2>4, <2>5 DEF NotYet
<1>9. OneLive' /\ AckTrue'  BY <1>2, <1>4, <1>5 DEF OneLive, AckTrue
<1>10. OneField'
  <2>1. outbuf \in Image  BY DEF StreamInv, JobTypes
  <2>2. \A g \in Fields : g # f => cur'.img[g] = outbuf[g]  BY <1>2, <2>1 DEF Image
  <2>3. QED  BY <1>1, <1>2, <1>6, <2>2 DEF OneField
<1>11. RefusedOutright'  BY <1>1, <1>2, <1>3, <1>6 DEF RefusedOutright
<1>12. OutBufMirrors'
  <2>1. producer.w # 0 => producer.w \in Writes /\ producer.w # n
    BY <1>1, <1>3, <1>6 DEF OneField, NotYet
  <2>2. producer.w # 0 => ans'[producer.w] = ans[producer.w]  BY <1>2, <1>3, <2>1
  <2>3. QED  BY <1>1, <1>2, <2>2 DEF OutBufMirrors
<1>13. QED  BY <1>7, <1>8, <1>9, <1>10, <1>11, <1>12 DEF AnswerInv

\* An answer: a refusal of a write that is not staged and cannot be any more, the
\* confirmation of a staged one, or neither.
LEMMA AnswerAnswers ==
    ASSUME StreamInv, AnswerInv, drv \in {"handoff", "await"},
           NEW v \in Answers \ {"none", "invalid"}, Answer(v),
           v = "ok" => cur.w \in staged /\ outbuf' = cur.img,
           v # "ok" => outbuf' = outbuf,
           v \notin {"ok", "unconfirmed"} => cur.w \notin staged,
           \A j \in Pending : j.w \in late,
           UNCHANGED <<cur, late, ack, control, mq, mack, trVars, mgrVars>>
    PROVE  AnswerInv'
<1>1. /\ OnceQueued /\ NotYet /\ OnePlace /\ OneLive /\ AckTrue /\ OneField
      /\ RefusedOutright /\ OutBufMirrors
  BY DEF AnswerInv
<1>2. /\ drv' = "run" /\ ans' = [ans EXCEPT ![cur.w] = v]
      /\ UNCHANGED <<cur, late, control, mq, mack, tr, job, mgr, producer, staged>>
  BY DEF Answer, trVars, mgrVars
<1>3. /\ cur.w \in Writes /\ cur.w \in Nat /\ ans \in [Writes -> Answers]
      /\ \A k \in 1..cur.w : k \in Writes
  BY <1>1, WriteNumbers DEF NotYet, Writes
<1>4. Pending' = Pending /\ Held' = Held  BY <1>2 DEF Pending, Held
<1>5. \A w \in Writes : ans'[w] = IF w = cur.w THEN v ELSE ans[w]  BY <1>2, <1>3
<1>6. OnceQueued' /\ OnePlace'  BY <1>1, <1>2, <1>4 DEF OnceQueued, OnePlace, Holds
<1>7. NotYet'
  <2>1. \A w \in Writes : w > cur.w => w # cur.w  BY <1>3 DEF Writes
  <2>2. QED  BY <1>1, <1>2, <1>4, <1>5, <2>1 DEF NotYet
<1>8. OneLive' /\ AckTrue'  BY <1>2, <1>4 DEF OneLive, AckTrue
<1>9. OneField'  BY <1>1, <1>2 DEF OneField
<1>10. RefusedOutright'
  BY <1>1, <1>2, <1>5 DEF RefusedOutright
<1>11. OutBufMirrors'
  <2>1. SUFFICES ASSUME NEW f \in Fields, producer.img[f] # outbuf'[f]
                 PROVE  /\ producer.w # 0 /\ f = producer.f
                        /\ ans'[producer.w] \in {"none", "unconfirmed"}
    BY <1>2 DEF OutBufMirrors
  <2>2. v # "ok"  BY <1>1, <2>1 DEF OneField
  <2>3. producer.w # 0 /\ f = producer.f /\ ans[producer.w] \in {"none", "unconfirmed"}
    BY <1>1, <2>1, <2>2 DEF OutBufMirrors
  <2>4. producer.w \in staged /\ producer.w \in Writes  BY <1>1, <1>3, <2>3 DEF OneField, NotYet
  <2>5. producer.w = cur.w => v = "unconfirmed"  BY <2>2, <2>4
  <2>6. QED  BY <1>5, <2>3, <2>4, <2>5
<1>12. QED  BY <1>6, <1>7, <1>8, <1>9, <1>10, <1>11 DEF AnswerInv

\* The control send.
LEMMA HandoffAnswers ==
    ASSUME StreamInv, AnswerInv, Handoff
    PROVE  AnswerInv'
<1>1. /\ OnceQueued /\ NotYet /\ OnePlace /\ OneLive /\ AckTrue /\ OneField
      /\ RefusedOutright /\ OutBufMirrors
  BY DEF AnswerInv
<1>2. /\ drv = "handoff"
      /\ UNCHANGED <<cur, outbuf, late, ack, mq, mack, trVars, mgrVars>>
  BY DEF Handoff
<1>3. \A j \in Pending : j.w \in late  BY <1>1, <1>2 DEF OneLive
<1>4. ASSUME NEW v \in {"closing", "nohandoff"}, Answer(v), UNCHANGED control PROVE AnswerInv'
  BY <1>1, <1>2, <1>3, <1>4, AnswerAnswers DEF NotYet, Answers
<1>5. CASE tr # "ended" /\ control' = Append(control, [kind |-> "set", job |-> cur]) /\ drv' = "await" /\ UNCHANGED ans
  <2> DEFINE m == [kind |-> "set", job |-> cur]
  <2>1. m \in ControlMsg /\ control \in Seq(ControlMsg) /\ m.kind = "set" /\ m.job = cur
    BY DEF StreamInv, JobTypes, QueueTypes, ControlMsg
  <2>2. control' = Append(control, m)  BY <1>5
  <2> HIDE DEF m
  <2>3. /\ Jobs(control') = Jobs(control) \cup {cur}
        /\ Distinct(control) /\ ~Has(control, cur.w) => Distinct(control')
    BY <2>1, <2>2, JobsAppend
  <2>4. \A j \in Pending : j.w # cur.w  BY <1>1, <1>2 DEF NotYet
  <2>5. ~Has(control, cur.w) /\ ~Has(mq, cur.w) /\ ~Holds(cur.w) /\ cur.w \notin staged
    BY <1>1, <1>2, <2>4 DEF NotYet, Has, Holds, Pending
  <2>6. Pending' = Pending \cup {cur} /\ Held' = Held /\ tr' = tr
    BY <1>2, <2>3 DEF Pending, Held, trVars
  <2>7. cur.w \in 1..cur.w /\ ans[cur.w] = "none"
    BY <1>1, <1>2, WriteNumbers DEF NotYet
  <2>8. OnceQueued'  BY <1>1, <1>2, <1>5, <2>3, <2>5, <2>6 DEF OnceQueued, mgrVars
  <2>9. NotYet'  BY <1>1, <1>2, <1>5, <2>6, <2>7 DEF NotYet, mgrVars
  <2>10. OnePlace'
    BY <1>1, <1>2, <2>3, <2>5, <2>6 DEF OnePlace, Holds, trVars, mgrVars
  <2>11. OneLive'  BY <1>2, <1>3, <1>5, <2>6, <2>7 DEF OneLive
  <2>12. AckTrue'
    <3>1. ack' = NoAck /\ Has(control', cur.w)  BY <1>1, <1>2, <2>3 DEF NotYet, Has
    <3>2. QED  BY <1>2, <3>1 DEF AckTrue, NoAck
  <2>13. OneField' /\ RefusedOutright' /\ OutBufMirrors'
    BY <1>1, <1>2, <1>5 DEF OneField, RefusedOutright, OutBufMirrors, mgrVars
  <2>14. QED  BY <2>8, <2>9, <2>10, <2>11, <2>12, <2>13 DEF AnswerInv
<1>6. QED  BY <1>4, <1>5 DEF Handoff

\* The verdict, the end of the translator or the deadline.
LEMMA AwaitAnswers ==
    ASSUME StreamInv, AnswerInv, AwaitVerdict
    PROVE  AnswerInv'
<1>1. OnceQueued /\ NotYet /\ OnePlace /\ OneLive /\ AckTrue  BY DEF AnswerInv
<1>2. /\ drv = "await" /\ outbuf' = (IF ack = "ok" THEN cur.img ELSE outbuf)
      /\ UNCHANGED <<cur, late, ack, control, mq, mack, trVars, mgrVars>>
  BY DEF AwaitVerdict, chans
<1>3. \A j \in Pending : j.w \in late \/ j.w = cur.w  BY <1>1 DEF OneLive
<1>4. CASE ack # NoAck /\ Answer(ack)
  <2>1. ack \in Verdicts  BY <1>4, WriteNumbers
  <2>2. ~Has(control, cur.w) /\ ~Holds(cur.w)  BY <1>1, <1>2, <1>4 DEF AckTrue
  <2>3. CASE ack = "ok"
    <3>1. cur.w \in staged  BY <1>1, <1>2, <2>3 DEF AckTrue
    <3>2. ~Has(mq, cur.w)  BY <1>1, <3>1 DEF OnePlace, Has
    <3>3. \A j \in Pending : j.w \in late  BY <1>3, <2>2, <3>2 DEF Pending, Has, Holds
    <3>4. "ok" \in Answers \ {"none", "invalid"} /\ Answer("ok")  BY <1>4, <2>3 DEF Answers, Verdicts
    <3>5. QED  BY <1>2, <2>3, <3>1, <3>3, <3>4, AnswerAnswers
  <2>4. CASE ack \in {"expired", "lost", "closed"}
    <3>1. cur.w \notin staged /\ (Has(mq, cur.w) => cur.w \in late)  BY <1>1, <1>2, <2>4 DEF AckTrue
    <3>2. \A j \in Pending : j.w \in late  BY <1>3, <2>2, <3>1 DEF Pending, Has, Holds
    <3>3. ack \in Answers \ {"none", "invalid"} /\ ack # "ok"  BY <2>4 DEF Answers, Verdicts
    <3>4. QED  BY <1>2, <1>4, <3>1, <3>2, <3>3, AnswerAnswers
  <2>5. QED  BY <2>1, <2>3, <2>4 DEF Verdicts
<1>5. CASE ack = NoAck /\ tr = "ended" /\ Answer("gone")
  <2>1. control = <<>> /\ Held = {} /\ Jobs(<<>>) = {}  BY <1>1, <1>5, JobsEmpty DEF OnceQueued, Held
  <2>2. cur.w \notin staged /\ ~Has(mq, cur.w)
    BY <1>1, <1>2, <1>5, <2>1 DEF AckTrue, Has, Holds
  <2>3. \A j \in Pending : j.w \in late  BY <1>3, <2>1, <2>2 DEF Pending, Has
  <2>4. "gone" \in Answers \ {"none", "invalid"}  BY DEF Answers
  <2>5. QED  BY <1>2, <1>5, <2>2, <2>3, <2>4, AnswerAnswers DEF NoAck
<1>6. CASE ack = NoAck /\ cur.w \in late /\ Answer("unconfirmed")
  <2>1. \A j \in Pending : j.w \in late  BY <1>3, <1>6
  <2>2. "unconfirmed" \in Answers \ {"none", "invalid"}  BY DEF Answers
  <2>3. QED  BY <1>2, <1>6, <2>1, <2>2, AnswerAnswers DEF NoAck
<1>7. QED  BY <1>4, <1>5, <1>6 DEF AwaitVerdict

\* The deadline passes, which only makes a write less able to land.
LEMMA ExpireAnswers ==
    ASSUME StreamInv, AnswerInv, Expire
    PROVE  AnswerInv'
<1>1. /\ OnceQueued /\ NotYet /\ OnePlace /\ OneLive /\ AckTrue /\ OneField
      /\ RefusedOutright /\ OutBufMirrors
  BY DEF AnswerInv
<1>2. /\ late \subseteq late'
      /\ UNCHANGED <<drv, cur, outbuf, ans, ack, control, mq, mack, tr, job, mgr, producer, staged>>
  BY DEF Expire, chans, trVars, mgrVars
<1>3. Pending' = Pending /\ Held' = Held  BY <1>2 DEF Pending, Held
<1>4. OnceQueued' /\ NotYet' /\ OnePlace'
  BY <1>1, <1>2, <1>3 DEF OnceQueued, NotYet, OnePlace, Holds
<1>5. OneLive' /\ AckTrue'  BY <1>1, <1>2, <1>3 DEF OneLive, AckTrue, Holds
<1>6. OneField' /\ RefusedOutright' /\ OutBufMirrors'
  BY <1>1, <1>2 DEF OneField, RefusedOutright, OutBufMirrors
<1>7. QED  BY <1>4, <1>5, <1>6 DEF AnswerInv

-----------------------------------------------------------------------------
(* The steps that touch no write *)

\* Nothing is staged, answered or taken; commands may be dropped, and the
\* driver may leave.
LEMMA WritesKept ==
    ASSUME AnswerInv,
           UNCHANGED <<cur, outbuf, ans, late, ack, producer, staged>>,
           drv' = drv \/ drv' \notin {"handoff", "await"},
           drv \in {"await", "ended"} => drv' \in {drv, "ended"},
           Distinct(control'), Distinct(mq'), mgr' = "down" => mq' = <<>>,
           tr' = "ended" => control' = <<>>,
           Jobs(mq') \subseteq Jobs(mq), Jobs(control') \subseteq Jobs(control),
           (Held' = Held /\ tr' = tr /\ job' = job /\ mack' = mack) \/ (tr' \notin {"stage", "verdict"}),
           drv' = "await" => \/ Jobs(control') = Jobs(control) /\ Held' = Held /\ (tr = "ended" => tr' = "ended")
                             \/ tr' = "ended" /\ tr \notin {"stage", "verdict"}
    PROVE  AnswerInv'
<1>1. /\ OnceQueued /\ NotYet /\ OnePlace /\ OneLive /\ AckTrue /\ OneField
      /\ RefusedOutright /\ OutBufMirrors
  BY DEF AnswerInv
<1>2. Held' \subseteq Held  BY DEF Held
<1>3. Pending' \subseteq Pending  BY <1>2 DEF Pending
<1>4. /\ \A w : Has(mq', w) => Has(mq, w)
      /\ \A w : Has(control', w) => Has(control, w)
      /\ \A w : (\E j \in Held' : j.w = w) => Holds(w)
  BY <1>2 DEF Has, Holds
<1>5. OnceQueued'  BY <1>1 DEF OnceQueued
<1>6. NotYet'  BY <1>1, <1>3 DEF NotYet
<1>7. OnePlace'  BY <1>1, <1>2, <1>4 DEF OnePlace, Holds
<1>8. OneLive'  BY <1>1, <1>3 DEF OneLive
<1>9. AckTrue'
  <2>1. SUFFICES ASSUME drv' = "await", drv = "await"
                 PROVE  /\ ack # NoAck => ~Has(control', cur.w) /\ ~(\E j \in Held' : j.w = cur.w)
                        /\ ack = "ok" => cur.w \in staged
                        /\ ack \in {"expired", "lost", "closed"} => cur.w \notin staged /\ (Has(mq', cur.w) => cur.w \in late)
                        /\ ack = NoAck => \/ Has(control', cur.w) \/ (\E j \in Held' : j.w = cur.w)
                                          \/ tr' = "ended" /\ cur.w \notin staged /\ ~Has(mq', cur.w)
    BY DEF AckTrue, Holds
  <2>2. /\ ack # NoAck => ~Has(control', cur.w) /\ ~(\E j \in Held' : j.w = cur.w)
        /\ ack = "ok" => cur.w \in staged
        /\ ack \in {"expired", "lost", "closed"} => cur.w \notin staged /\ (Has(mq', cur.w) => cur.w \in late)
    BY <1>1, <1>4, <2>1 DEF AckTrue
  <2>3. ASSUME ack = NoAck
        PROVE  \/ Has(control', cur.w) \/ (\E j \in Held' : j.w = cur.w)
               \/ tr' = "ended" /\ cur.w \notin staged /\ ~Has(mq', cur.w)
    <3>1. \/ Has(control, cur.w) \/ Holds(cur.w)
          \/ tr = "ended" /\ cur.w \notin staged /\ ~Has(mq, cur.w)
      BY <1>1, <2>1, <2>3 DEF AckTrue
    <3>2. CASE Jobs(control') = Jobs(control) /\ Held' = Held /\ (tr = "ended" => tr' = "ended")
      BY <1>4, <3>1, <3>2 DEF Has, Holds
    <3>3. CASE tr' = "ended" /\ tr \notin {"stage", "verdict"}
      <4>1. ~Holds(cur.w)  BY <3>3 DEF Holds, Held
      <4>2. Has(control, cur.w) => cur.w \notin staged /\ ~Has(mq, cur.w)  BY <1>1 DEF OnePlace, Has
      <4>3. QED  BY <1>4, <3>1, <3>3, <4>1, <4>2
    <3>4. QED  BY <2>1, <3>2, <3>3
  <2>4. QED  BY <2>2, <2>3
<1>10. OneField' /\ RefusedOutright' /\ OutBufMirrors'
  BY <1>1 DEF OneField, RefusedOutright, OutBufMirrors
<1>11. QED  BY <1>5, <1>6, <1>7, <1>8, <1>9, <1>10 DEF AnswerInv

\* The driver reads, leaves, closes or is dropped.
LEMMA LeaveAnswers ==
    ASSUME StreamInv, AnswerInv,
           TakeUpdate \/ Leave \/ CloseSend \/ CloseAwait \/ Join \/ CloseExpire \/ Drop
    PROVE  AnswerInv'
<1>1. OnceQueued  BY DEF AnswerInv
<1>2. /\ UNCHANGED <<cur, outbuf, ans, late, ack, mq, mack, tr, job, mgr, producer, staged>>
      /\ drv' = drv \/ drv' \notin {"handoff", "await"}
      /\ drv \in {"await", "ended"} => drv' \in {drv, "ended"}
      /\ drv' # "await"
  BY DEF TakeUpdate, Leave, CloseSend, CloseAwait, Join, CloseExpire, Drop, chans, trVars, mgrVars
<1>3. Jobs(control') = Jobs(control) /\ Distinct(control') /\ (tr = "ended" => control' = control)
  <2>1. CASE UNCHANGED control  BY <1>1, <2>1 DEF OnceQueued
  <2>2. CASE tr # "ended" /\ control' = Append(control, [kind |-> "close"])
    <3> DEFINE m == [kind |-> "close"]
    <3>1. m \in ControlMsg /\ control \in Seq(ControlMsg) /\ m.kind # "set"
      BY WriteNumbers DEF ControlMsg
    <3>2. control' = Append(control, m)  BY <2>2
    <3> HIDE DEF m
    <3>3. Jobs(control') = Jobs(control) /\ (Distinct(control) => Distinct(control'))
      BY <3>1, <3>2, OtherAppend
    <3>4. QED  BY <1>1, <2>2, <3>3 DEF OnceQueued
  <2>3. QED  BY <2>1, <2>2 DEF TakeUpdate, Leave, CloseSend, CloseAwait, Join, CloseExpire, Drop, chans
<1>4. Held' = Held  BY <1>2 DEF Held
<1>5. QED  BY <1>1, <1>2, <1>3, <1>4, WritesKept DEF OnceQueued

\* The translator passes on events and updates.
LEMMA PassOnAnswers ==
    ASSUME StreamInv, AnswerInv, TakeEvent \/ SendUpdate
    PROVE  AnswerInv'
<1>1. OnceQueued /\ next \in {"select", "cleanup"}  BY DEF AnswerInv, StreamInv, TaskTypes
<1>2. /\ UNCHANGED <<drv, cur, outbuf, ans, late, ack, control, mq, mack, job, mgr, producer, staged>>
      /\ tr \in {"select", "send"} /\ tr' \in {"select", "send", "cleanup"}
  BY <1>1 DEF TakeEvent, SendUpdate, drvVars, mgrVars
<1>3. Held = {} /\ Held' = {}  BY <1>2 DEF Held
<1>4. QED  BY <1>1, <1>2, <1>3, WritesKept DEF OnceQueued

\* A command of the close that is no staging.
LEMMA TellAnswers ==
    ASSUME StreamInv, OnceQueued, NEW k \in {"remove", "shutdown"}, Tell(k)
    PROVE  Jobs(mq') = Jobs(mq) /\ Distinct(mq') /\ (mgr = "down" => mq' = <<>>)
<1> DEFINE m == [kind |-> k]
<1>1. m \in ManagerMsg /\ mq \in Seq(ManagerMsg) /\ m.kind # "set"
  BY WriteNumbers DEF ManagerMsg
<1>2. mq' = IF mgr = "run" THEN Append(mq, m) ELSE mq  BY DEF Tell
<1> HIDE DEF m
<1>3. Jobs(Append(mq, m)) = Jobs(mq) /\ (Distinct(mq) => Distinct(Append(mq, m)))
  BY <1>1, OtherAppend
<1>4. QED  BY <1>2, <1>3 DEF OnceQueued

\* The ForwardClose, the end of the translator and its abort.
LEMMA EndAnswers ==
    ASSUME StreamInv, AnswerInv, CloseConnection \/ TearDown \/ AbortLands
    PROVE  AnswerInv'
<1>1. OnceQueued /\ EndsInTurn  BY DEF AnswerInv, StreamInv
<1>2. UNCHANGED <<drv, cur, outbuf, ans, late, ack, mgr, producer, staged>>
  BY DEF CloseConnection, TearDown, AbortLands, drvVars, mgrVars
<1>3. CASE CloseConnection
  <2>1. Jobs(mq') = Jobs(mq) /\ Distinct(mq') /\ (mgr = "down" => mq' = <<>>)
    BY <1>1, <1>3, TellAnswers DEF CloseConnection
  <2>2. /\ tr \in {"closing", "cleanup"} /\ tr' \in {"closing2", "cleanup2"}
        /\ UNCHANGED <<control, job, mack>>
    BY <1>3 DEF CloseConnection
  <2>3. Held = {} /\ Held' = {}  BY <2>2 DEF Held
  <2>4. QED  BY <1>1, <1>2, <2>1, <2>2, <2>3, WritesKept DEF OnceQueued
<1>4. CASE TearDown \/ AbortLands
  <2>1. Jobs(mq') = Jobs(mq) /\ Distinct(mq') /\ (mgr = "down" => mq' = <<>>)
    <3>1. CASE TearDown  BY <1>1, <3>1, TellAnswers DEF TearDown
    <3>2. CASE AbortLands  BY <1>1, <3>2 DEF AbortLands, OnceQueued
    <3>3. QED  BY <1>4, <3>1, <3>2
  <2>2. tr' = "ended" /\ control' = <<>> /\ Jobs(control') = {} /\ Distinct(control')
    BY <1>4, JobsEmpty DEF TearDown, AbortLands, TaskEnds
  <2>3. drv = "await" => tr \notin {"stage", "verdict"}
    BY <1>1, <1>4 DEF TearDown, AbortLands, EndsInTurn
  <2>4. QED  BY <1>1, <1>2, <2>1, <2>2, <2>3, WritesKept DEF OnceQueued
<1>5. QED  BY <1>3, <1>4

\* The connection comes up, is lost or ends; frames come in.
LEMMA ConnectionAnswers ==
    ASSUME StreamInv, AnswerInv, CommandsEnd \/ Frame \/ Lose
    PROVE  AnswerInv'
<1>1. OnceQueued  BY DEF AnswerInv
<1>2. /\ UNCHANGED <<drv, cur, outbuf, ans, late, ack, control, mack, tr, job, producer, staged>>
      /\ (mgr' = mgr /\ mq' = mq) \/ mq' = <<>>
  BY DEF CommandsEnd, Frame, Lose, drvVars, trVars, chans
<1>3. Jobs(mq') \subseteq Jobs(mq) /\ Distinct(mq') /\ (mgr' = "down" => mq' = <<>>)
  BY <1>1, <1>2, JobsEmpty DEF OnceQueued
<1>4. Held' = Held  BY <1>2 DEF Held
<1>5. QED  BY <1>1, <1>2, <1>3, <1>4, WritesKept DEF OnceQueued

-----------------------------------------------------------------------------
(* A staging command on its way *)

\* The control arm takes a command into its hands.
LEMMA TakeControlAnswers ==
    ASSUME StreamInv, AnswerInv, TakeControl
    PROVE  AnswerInv'
<1>1. /\ OnceQueued /\ NotYet /\ OnePlace /\ OneLive /\ AckTrue /\ OneField
      /\ RefusedOutright /\ OutBufMirrors
  BY DEF AnswerInv
<1>2. /\ tr = "select" /\ Held = {}
      /\ UNCHANGED <<drv, cur, outbuf, ans, late, ack, mq, mgr, producer, staged>>
  BY DEF TakeControl, drvVars, mgrVars, Held
<1>3. CASE control = <<>> /\ tr' = "cleanup" /\ UNCHANGED <<control, job, mack>>
  <2>1. Held' = {}  BY <1>3 DEF Held
  <2>2. QED  BY <1>1, <1>2, <1>3, <2>1, WritesKept DEF OnceQueued
<1>4. ASSUME control # <<>>, control' = Tail(control)
      PROVE  /\ Jobs(control) = Jobs(control') \cup (IF Head(control).kind = "set" THEN {Head(control).job} ELSE {})
             /\ Distinct(control')
             /\ Head(control).kind = "set" => ~Has(control', Head(control).job.w)
  <2>1. control \in Seq(ControlMsg) /\ Distinct(control)  BY <1>1, WriteNumbers DEF OnceQueued
  <2>2. QED  BY <1>4, <2>1, JobsTail
<1>5. CASE /\ control # <<>> /\ control' = Tail(control) /\ Head(control).kind = "close"
           /\ tr' = "closing" /\ UNCHANGED <<job, mack>>
  <2>1. Jobs(control') = Jobs(control) /\ Distinct(control')  BY <1>4, <1>5
  <2>2. Held' = {}  BY <1>5 DEF Held
  <2>3. QED  BY <1>1, <1>2, <1>5, <2>1, <2>2, WritesKept DEF OnceQueued
<1>6. CASE /\ control # <<>> /\ control' = Tail(control) /\ Head(control).kind = "set"
           /\ job' = Head(control).job /\ tr' = "stage" /\ mack' = NoAck
  <2>1. /\ Jobs(control) = Jobs(control') \cup {job'} /\ Distinct(control') /\ ~Has(control', job'.w)
    BY <1>4, <1>6
  <2>2. Held' = {job'} /\ Pending' = Pending
    <3>1. Held' = {job'}  BY <1>6 DEF Held
    <3>2. QED  BY <1>2, <2>1, <3>1 DEF Pending
  <2>3. OnceQueued' /\ NotYet'  BY <1>1, <1>2, <1>6, <2>1, <2>2 DEF OnceQueued, NotYet
  <2>4. OnePlace'
    <3>1. \A j \in Jobs(control) : ~Has(mq, j.w) /\ j.w \notin staged  BY <1>1 DEF OnePlace
    <3>2. \A j \in Jobs(control') : j.w # job'.w  BY <2>1 DEF Has
    <3>3. QED  BY <1>1, <1>2, <1>6, <2>1, <2>2, <3>1, <3>2 DEF OnePlace, Holds
  <2>5. OneLive'  BY <1>1, <1>2, <2>2 DEF OneLive
  <2>6. AckTrue'
    <3>1. \A w : Has(control, w) <=> Has(control', w) \/ w = job'.w  BY <2>1 DEF Has
    <3>2. \A w : (\E j \in Held' : j.w = w) <=> w = job'.w  BY <2>2
    <3>3. \A w : ~Holds(w)  BY <1>2 DEF Holds
    <3>4. QED  BY <1>1, <1>2, <1>6, <3>1, <3>2, <3>3 DEF AckTrue, Holds
  <2>7. OneField' /\ RefusedOutright' /\ OutBufMirrors'
    BY <1>1, <1>2 DEF OneField, RefusedOutright, OutBufMirrors
  <2>8. QED  BY <2>3, <2>4, <2>5, <2>6, <2>7 DEF AnswerInv
<1>7. QED  BY <1>3, <1>5, <1>6 DEF TakeControl

\* The translator is done with its command: the verdict it passes on is true.
LEMMA ReplyAnswers ==
    ASSUME StreamInv, AnswerInv, tr \in {"stage", "verdict"}, tr' \in {"select", "send", "cleanup"},
           NEW v \in Verdicts, Reply(v),
           v = "ok" => job.w \in staged,
           v # "ok" => job.w \notin staged /\ (Has(mq, job.w) => job.w \in late),
           UNCHANGED <<drvVars, control, mq, mgr, producer, staged>>
    PROVE  AnswerInv'
<1>1. /\ OnceQueued /\ NotYet /\ OnePlace /\ OneLive /\ AckTrue /\ OneField
      /\ RefusedOutright /\ OutBufMirrors
  BY DEF AnswerInv
<1>2. /\ UNCHANGED <<drv, cur, outbuf, ans, late>> /\ Held = {job} /\ Held' = {}
      /\ ack' = IF drv = "await" /\ job.w = cur.w THEN v ELSE ack
  BY DEF drvVars, Held, Reply
<1>3. Pending' \subseteq Pending  BY <1>2 DEF Pending
<1>4. OnceQueued' /\ NotYet'  BY <1>1, <1>2, <1>3 DEF OnceQueued, NotYet
<1>5. OnePlace'  BY <1>1, <1>2 DEF OnePlace, Holds
<1>6. OneLive'  BY <1>1, <1>2, <1>3 DEF OneLive
<1>7. AckTrue'
  <2>1. \A w : Holds(w) <=> w = job.w  BY <1>2 DEF Holds
  <2>2. \A w : ~(\E j \in Held' : j.w = w)  BY <1>2
  <2>3. CASE drv = "await" /\ job.w = cur.w
    <3>1. ack' = v /\ v # NoAck  BY <1>2, <2>3 DEF Verdicts, NoAck
    <3>2. ~Has(control, cur.w)  BY <1>1, <2>1, <2>3 DEF OnePlace, Has
    <3>3. QED  BY <1>2, <2>2, <2>3, <3>1, <3>2 DEF AckTrue, Holds
  <2>4. CASE drv = "await" /\ job.w # cur.w
    <3>1. ack' = ack /\ ~Holds(cur.w)  BY <1>2, <2>1, <2>4
    <3>2. QED  BY <1>1, <1>2, <2>2, <2>4, <3>1 DEF AckTrue, Holds
  <2>5. CASE drv # "await"  BY <1>2, <2>5 DEF AckTrue
  <2>6. QED  BY <2>3, <2>4, <2>5
<1>8. OneField' /\ RefusedOutright' /\ OutBufMirrors'
  BY <1>1, <1>2 DEF OneField, RefusedOutright, OutBufMirrors
<1>9. QED  BY <1>4, <1>5, <1>6, <1>7, <1>8 DEF AnswerInv

\* The handoff to the manager and its verdict.
LEMMA StageAnswers ==
    ASSUME StreamInv, AnswerInv, Stage \/ Verdict
    PROVE  AnswerInv'
<1>1. /\ OnceQueued /\ NotYet /\ OnePlace /\ OneLive /\ AckTrue /\ OneField
      /\ RefusedOutright /\ OutBufMirrors
  BY DEF AnswerInv
<1>2. /\ tr \in {"stage", "verdict"} /\ Held = {job}
      /\ UNCHANGED <<drvVars, control, mgr, producer, staged>>
  BY DEF Stage, Verdict, mgrVars, Held
<1>3. ASSUME Consult, UNCHANGED mq, mgr = "down" \/ (tr = "verdict" /\ mack = "closed"),
             tr = "verdict" => mack # "ok"
      PROVE  AnswerInv'
  <2>1. PICK v \in {"lost", "closed"} : Reply(v)  BY <1>3 DEF Consult
  <2>2. tr' \in {"select", "send", "cleanup"}  BY <1>3 DEF Consult
  <2>3. job.w \notin staged  BY <1>1, <1>2, <1>3 DEF OnePlace
  <2>4. ~Has(mq, job.w)
    <3>1. CASE mgr = "down"
      <4>1. mq = <<>> /\ Jobs(<<>>) = {}  BY <1>1, <3>1, JobsEmpty DEF OnceQueued
      <4>2. QED  BY <4>1 DEF Has
    <3>2. CASE tr = "verdict" /\ mack = "closed"  BY <1>1, <3>2 DEF OnePlace, NoAck
    <3>3. QED  BY <1>3, <3>1, <3>2
  <2>5. v \in Verdicts /\ v # "ok"  BY DEF Verdicts
  <2>6. QED  BY <1>2, <1>3, <2>1, <2>2, <2>3, <2>4, <2>5, ReplyAnswers
<1>4. ASSUME NEW v \in {"ok", "expired"}, Resolved(v), UNCHANGED mq,
             v = "ok" => job.w \in staged,
             v # "ok" => job.w \notin staged /\ (Has(mq, job.w) => job.w \in late)
      PROVE  AnswerInv'
  <2>1. Reply(v) /\ tr' \in {"select", "send", "cleanup"} /\ v \in Verdicts
    BY <1>4 DEF Resolved, Verdicts
  <2>2. QED  BY <1>2, <1>4, <2>1, ReplyAnswers
<1>5. CASE /\ tr = "stage" /\ mq' = Append(mq, [kind |-> "set", job |-> job])
           /\ tr' = "verdict" /\ UNCHANGED <<ack, job, mack>> /\ mgr = "run"
  <2> DEFINE m == [kind |-> "set", job |-> job]
  <2>1. m \in ManagerMsg /\ mq \in Seq(ManagerMsg) /\ m.kind = "set" /\ m.job = job
    BY DEF StreamInv, JobTypes, QueueTypes, ManagerMsg
  <2>2. mq' = Append(mq, m)  BY <1>5
  <2> HIDE DEF m
  <2>3. /\ Jobs(mq') = Jobs(mq) \cup {job}
        /\ Distinct(mq) /\ ~Has(mq, job.w) => Distinct(mq')
    BY <2>1, <2>2, JobsAppend
  <2>4. job.w \notin staged /\ ~Has(mq, job.w) /\ mack = NoAck  BY <1>1, <1>5 DEF OnePlace
  <2>5. Held' = {job} /\ Pending' = Pending
    <3>1. Held' = {job}  BY <1>5 DEF Held
    <3>2. QED  BY <1>2, <2>3, <3>1 DEF Pending
  <2>6. \A w : Holds(w) <=> w = job.w  BY <1>2 DEF Holds
  <2>7. \A w : Has(mq', w) <=> Has(mq, w) \/ w = job.w  BY <2>3 DEF Has
  <2>8. OnceQueued' /\ NotYet'
    BY <1>1, <1>2, <1>5, <2>3, <2>4, <2>5 DEF OnceQueued, NotYet, drvVars
  <2>9. OnePlace'
    BY <1>1, <1>2, <1>5, <2>3, <2>4, <2>5, <2>6, <2>7 DEF OnePlace, Holds, NoAck
  <2>10. OneLive'  BY <1>1, <1>2, <2>5 DEF OneLive, drvVars
  <2>11. AckTrue'
    <3>1. \A w : (\E j \in Held' : j.w = w) <=> w = job.w  BY <2>5
    <3>2. QED  BY <1>1, <1>2, <1>5, <2>6, <2>7, <3>1 DEF AckTrue, Holds, drvVars, NoAck
  <2>12. OneField' /\ RefusedOutright' /\ OutBufMirrors'
    BY <1>1, <1>2 DEF OneField, RefusedOutright, OutBufMirrors, drvVars
  <2>13. QED  BY <2>8, <2>9, <2>10, <2>11, <2>12 DEF AnswerInv
<1>6. CASE Stage
  <2>1. CASE mgr = "down" /\ Consult /\ UNCHANGED mq  BY <1>3, <1>6, <2>1 DEF Stage
  <2>2. CASE job.w \in late /\ Resolved("expired") /\ UNCHANGED mq
    BY <1>1, <1>4, <1>6, <2>2 DEF Stage, OnePlace
  <2>3. QED  BY <1>5, <1>6, <2>1, <2>2 DEF Stage
<1>7. CASE Verdict
  <2>1. tr = "verdict" /\ UNCHANGED mq  BY <1>7 DEF Verdict
  <2>2. /\ mack = "ok" <=> job.w \in staged
        /\ mack # NoAck => ~Has(mq, job.w)
    BY <1>1, <2>1 DEF OnePlace
  <2>3. CASE mack = "ok" /\ Resolved("ok")  BY <1>4, <2>1, <2>2, <2>3
  <2>4. CASE mack = "timeout" /\ Resolved("expired")  BY <1>4, <2>1, <2>2, <2>4 DEF NoAck
  <2>5. CASE (mack = "closed" \/ (mack = NoAck /\ mgr = "down")) /\ Consult
    BY <1>3, <2>1, <2>5 DEF NoAck
  <2>6. CASE mack = NoAck /\ job.w \in late /\ Resolved("expired")
    BY <1>4, <2>1, <2>2, <2>6 DEF NoAck
  <2>7. QED  BY <1>7, <2>3, <2>4, <2>5, <2>6 DEF Verdict
<1>8. QED  BY <1>6, <1>7

\* The manager's commands: the only place that changes the producer buffer.
LEMMA CommandAnswers ==
    ASSUME StreamInv, AnswerInv, Command
    PROVE  AnswerInv'
<1>1. /\ OnceQueued /\ NotYet /\ OnePlace /\ OneLive /\ AckTrue /\ OneField
      /\ RefusedOutright /\ OutBufMirrors
  BY DEF AnswerInv
<1>2. /\ mgr = "run" /\ mq # <<>>
      /\ UNCHANGED <<drv, cur, outbuf, ans, late, ack, control, tr, job>>
  BY DEF Command, drvVars, trVars
<1>3. Held' = Held  BY <1>2 DEF Held
<1>4. ASSUME mq' = Tail(mq)
      PROVE  /\ Jobs(mq) = Jobs(mq') \cup (IF Head(mq).kind = "set" THEN {Head(mq).job} ELSE {})
             /\ Distinct(mq')
             /\ Head(mq).kind = "set" => ~Has(mq', Head(mq).job.w)
  <2>1. mq \in Seq(ManagerMsg) /\ Distinct(mq)  BY <1>1, WriteNumbers DEF OnceQueued
  <2>2. QED  BY <1>2, <1>4, <2>1, JobsTail
<1>5. CASE Head(mq).kind = "remove" /\ mq' = Tail(mq) /\ UNCHANGED <<mgr, producer, staged, mack>>
  <2>1. Jobs(mq') = Jobs(mq) /\ Distinct(mq')  BY <1>4, <1>5
  <2>2. QED  BY <1>1, <1>2, <1>3, <1>5, <2>1, WritesKept DEF OnceQueued
<1>6. CASE Head(mq).kind = "shutdown" /\ mgr' = "down" /\ mq' = <<>> /\ UNCHANGED <<producer, staged, mack>>
  <2>1. Jobs(mq') = {} /\ Distinct(mq')  BY <1>6, JobsEmpty
  <2>2. QED  BY <1>1, <1>2, <1>3, <1>6, <2>1, WritesKept DEF OnceQueued
<1>7. ASSUME Head(mq).kind = "set", mq' = Tail(mq), UNCHANGED mgr,
             NEW x \in {"ok", "timeout", "closed"},
             mack' = IF tr = "verdict" /\ job.w = Head(mq).job.w THEN x ELSE mack,
             \/ /\ x = "ok" /\ Head(mq).job.w \notin late
                /\ producer' = Head(mq).job /\ staged' = staged \cup {Head(mq).job.w}
             \/ x # "ok" /\ UNCHANGED <<producer, staged>>
      PROVE  AnswerInv'
  <2> DEFINE h == Head(mq).job
  <2>1. Jobs(mq) = Jobs(mq') \cup {h} /\ Distinct(mq') /\ ~Has(mq', h.w)  BY <1>4, <1>7
  <2> HIDE DEF h
  <2>2. \A w : Has(mq, w) <=> Has(mq', w) \/ w = h.w  BY <2>1 DEF Has
  <2>3. Pending' \subseteq Pending /\ h \in Pending  BY <1>2, <1>3, <2>1 DEF Pending
  <2>4. mack' = IF tr = "verdict" /\ job.w = h.w THEN x ELSE mack  BY <1>7 DEF h
  <2>5. h.w \notin staged /\ h.w \in 1..cur.w  BY <1>1, <2>1, <2>3 DEF OnePlace, NotYet
  <2>6. OnceQueued'  BY <1>1, <1>2, <1>7, <2>1 DEF OnceQueued
  <2>7. OneLive'  BY <1>1, <1>2, <2>3 DEF OneLive
  <2>8. \A w : (\E j \in Held' : j.w = w) <=> Holds(w)  BY <1>3 DEF Holds
  <2>9. CASE x = "ok" /\ h.w \notin late /\ producer' = h /\ staged' = staged \cup {h.w}
    <3>1. h = cur /\ drv \in {"await", "ended"} /\ ans[cur.w] = "none"
      BY <1>1, <2>3, <2>9 DEF OneLive
    <3>2. NotYet'  BY <1>1, <1>2, <2>3, <2>5, <2>9, <3>1 DEF NotYet
    <3>3. OnePlace'
      <4>1. \A j \in Jobs(control) : ~Has(mq', j.w) /\ ~Holds(j.w) /\ j.w \notin staged'
        BY <1>1, <2>2, <2>9 DEF OnePlace
      <4>2. \A j \in Jobs(mq') : j.w \notin staged'  BY <1>1, <2>1, <2>9 DEF OnePlace, Has
      <4>3. tr = "stage" => job.w \notin staged' /\ ~Has(mq', job.w) /\ mack' = NoAck
        BY <1>1, <2>2, <2>4, <2>9 DEF OnePlace
      <4>4. tr = "verdict" => /\ mack' = "ok" <=> job.w \in staged'
                              /\ mack' # NoAck => ~Has(mq', job.w)
        <5>1. CASE job.w = h.w  BY <2>1, <2>4, <2>9, <5>1
        <5>2. CASE job.w # h.w  BY <1>1, <2>2, <2>4, <2>9, <5>2 DEF OnePlace
        <5>3. QED  BY <5>1, <5>2
      <4>5. QED  BY <1>2, <2>8, <4>1, <4>2, <4>3, <4>4 DEF OnePlace, Holds
    <3>4. AckTrue'
      <4>1. Has(mq, cur.w) /\ cur.w \notin late  BY <2>2, <2>9, <3>1
      <4>2. QED  BY <1>1, <1>2, <2>8, <2>9, <4>1 DEF AckTrue, Holds
    <3>5. OneField'  BY <1>1, <1>2, <2>9, <3>1 DEF OneField
    <3>6. RefusedOutright'  BY <1>1, <1>2, <2>9, <3>1 DEF RefusedOutright
    <3>7. OutBufMirrors'
      <4>1. cur.w # 0  BY <2>5, <3>1, WriteNumbers
      <4>2. QED  BY <1>1, <1>2, <2>9, <3>1, <4>1 DEF OutBufMirrors, OneField
    <3>8. QED  BY <2>6, <2>7, <3>2, <3>3, <3>4, <3>5, <3>6, <3>7 DEF AnswerInv
  <2>10. CASE x # "ok" /\ UNCHANGED <<producer, staged>>
    <3>1. NotYet'  BY <1>1, <1>2, <2>3, <2>10 DEF NotYet
    <3>2. OnePlace'
      <4>1. \A j \in Jobs(control) : ~Has(mq', j.w) /\ ~Holds(j.w) /\ j.w \notin staged'
        BY <1>1, <2>2, <2>10 DEF OnePlace
      <4>2. \A j \in Jobs(mq') : j.w \notin staged'  BY <1>1, <2>1, <2>10 DEF OnePlace
      <4>3. tr = "stage" => job.w \notin staged' /\ ~Has(mq', job.w) /\ mack' = NoAck
        BY <1>1, <2>2, <2>4, <2>10 DEF OnePlace
      <4>4. tr = "verdict" => /\ mack' = "ok" <=> job.w \in staged'
                              /\ mack' # NoAck => ~Has(mq', job.w)
        <5>1. CASE job.w = h.w  BY <2>1, <2>4, <2>5, <2>10, <5>1
        <5>2. CASE job.w # h.w  BY <1>1, <2>2, <2>4, <2>10, <5>2 DEF OnePlace
        <5>3. QED  BY <5>1, <5>2
      <4>5. QED  BY <1>2, <2>8, <4>1, <4>2, <4>3, <4>4 DEF OnePlace, Holds
    <3>3. AckTrue'  BY <1>1, <1>2, <2>2, <2>8, <2>10 DEF AckTrue, Holds
    <3>4. OneField' /\ RefusedOutright' /\ OutBufMirrors'
      BY <1>1, <1>2, <2>10 DEF OneField, RefusedOutright, OutBufMirrors
    <3>5. QED  BY <2>6, <2>7, <3>1, <3>2, <3>3, <3>4 DEF AnswerInv
  <2>11. QED  BY <1>7, <2>9, <2>10 DEF h
<1>8. CASE /\ Head(mq).kind = "set" /\ mq' = Tail(mq) /\ UNCHANGED <<mgr, conn>>
           /\ producer' = IF Stageable(Head(mq).job) THEN Head(mq).job ELSE producer
           /\ staged' = IF Stageable(Head(mq).job) THEN staged \cup {Head(mq).job.w} ELSE staged
           /\ mack' = IF tr = "verdict" /\ job.w = Head(mq).job.w
                      THEN IF Stageable(Head(mq).job) THEN "ok"
                           ELSE IF conn = "live" THEN "timeout" ELSE "closed"
                      ELSE mack
  <2> DEFINE x == IF Stageable(Head(mq).job) THEN "ok" ELSE IF conn = "live" THEN "timeout" ELSE "closed"
  <2>1. /\ x \in {"ok", "timeout", "closed"}
        /\ mack' = IF tr = "verdict" /\ job.w = Head(mq).job.w THEN x ELSE mack
        /\ \/ /\ x = "ok" /\ Head(mq).job.w \notin late
              /\ producer' = Head(mq).job /\ staged' = staged \cup {Head(mq).job.w}
           \/ x # "ok" /\ UNCHANGED <<producer, staged>>
    BY <1>8 DEF Stageable
  <2> HIDE DEF x
  <2>2. QED  BY <1>7, <1>8, <2>1
<1>9. QED  BY <1>5, <1>6, <1>8 DEF Command

-----------------------------------------------------------------------------
(* The theorems *)

\* A session starts with nothing written and nothing staged.
LEMMA InitAnswers == Init => AnswerInv
<1>1. SUFFICES ASSUME Init PROVE AnswerInv  OBVIOUS
<1>2. /\ Jobs(control) = {} /\ Distinct(control) /\ Jobs(mq) = {} /\ Distinct(mq)
      /\ control = <<>> /\ mq = <<>>
  BY <1>1, JobsEmpty DEF Init
<1>3. Pending = {}  BY <1>1, <1>2 DEF Init, Pending, Held
<1>4. cur.w = 0 /\ producer.w = 0 /\ cur.img = outbuf /\ producer.img = outbuf  BY <1>1 DEF Init, NoJob
<1>5. OnceQueued /\ NotYet
  BY <1>1, <1>2, <1>3, <1>4 DEF Init, OnceQueued, NotYet
<1>6. OnePlace /\ OneLive /\ AckTrue
  BY <1>1, <1>2, <1>3 DEF Init, OnePlace, OneLive, AckTrue
<1>7. OneField /\ OutBufMirrors  BY <1>1, <1>4 DEF Init, OneField, OutBufMirrors
<1>8. RefusedOutright  BY <1>1 DEF Init, RefusedOutright
<1>9. QED  BY <1>5, <1>6, <1>7, <1>8 DEF AnswerInv

\* Every step of the session keeps the answers' invariant.
LEMMA StepAnswers == StreamInv /\ AnswerInv /\ [Next]_vars => AnswerInv'
<1>1. SUFFICES ASSUME StreamInv, AnswerInv, [Next]_vars PROVE AnswerInv'  OBVIOUS
<1>2. CASE Driver
  BY <1>1, <1>2, SetOutputAnswers, HandoffAnswers, AwaitAnswers, ExpireAnswers, LeaveAnswers DEF Driver
<1>3. CASE Translator
  BY <1>1, <1>3, PassOnAnswers, TakeControlAnswers, StageAnswers, EndAnswers DEF Translator
<1>4. CASE Manager  BY <1>1, <1>4, CommandAnswers, ConnectionAnswers DEF Manager
<1>5. CASE Done \/ UNCHANGED vars
  <2>1. UNCHANGED <<drv, cur, outbuf, ans, late, ack, producer, staged, control, mq, mgr, tr, job, mack>>
    BY <1>5 DEF Done, vars, drvVars, trVars, mgrVars, chans
  <2>2. Held' = Held  BY <2>1 DEF Held
  <2>3. OnceQueued  BY <1>1 DEF AnswerInv
  <2>4. QED  BY <1>1, <2>1, <2>2, <2>3, WritesKept DEF OnceQueued
<1>6. QED  BY <1>1, <1>2, <1>3, <1>4, <1>5 DEF Next

\* Where a write is and what it was told, in every reachable state.
THEOREM AnswerInvariant == Spec => []AnswerInv
<1>1. StreamInv /\ AnswerInv /\ [Next]_vars => (StreamInv /\ AnswerInv)'
  BY StepStream, StepAnswers
<1>2. QED  BY InitStream, InitAnswers, <1>1, PTL DEF Spec

\* What set_output tells a caller is what became of the write, but for the answer
\* that says it is unconfirmed (RefusedNeverLands): every other refusal is of a
\* write that never reaches the producer buffer, and names the loss that caused it.
THEOREM AnswersAreTrue == Spec => []AnswersTrue
<1>1. AnswerInv => RefusedOutright  BY DEF AnswerInv
<1>2. RefusedOutright /\ LossIsNamed => AnswersTrue  BY DEF AnswersTrue
<1>3. QED  BY AnswerInvariant, LossIsAlwaysNamed, <1>1, <1>2, PTL

\* The session's image and the producer buffer differ at most in the field of a
\* write that was staged and not confirmed, so a later write carries nothing refused.
THEOREM OutBufIsMirror == Spec => []OutBufMirrors
<1>1. AnswerInv => OutBufMirrors  BY DEF AnswerInv
<1>2. QED  BY AnswerInvariant, <1>1, PTL
=============================================================================
