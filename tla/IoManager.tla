------------------------------ MODULE IoManager ------------------------------
(***************************************************************************)
(* The class-1 I/O runtime (crates/enip/src/io.rs): the calls that open    *)
(* and close a connection, the socket task they talk to, the event stream  *)
(* of each connection, and a target whose frames the network may lose,     *)
(* repeat or reorder.  Staging of outputs is in module PushSession.        *)
(*                                                                         *)
(* Time is counted in packet intervals.  The window rule compares sequence *)
(* numbers by their difference only, so a connection keeps how far the     *)
(* last accepted frame is behind the newest one, not the number itself.    *)
(***************************************************************************)
EXTENDS Integers, Sequences, FiniteSets, SequencesExt

CONSTANTS
    Conns,          \* connections; each is opened at most once
    Type,           \* the T->O type each asks for, "p2p" or "multicast"
    Modulus,         \* sequence numbers are counted modulo Modulus (2^16)
    Multiplier,     \* the watchdog, in T->O packet intervals
    O2TApi,         \* the O->T packet interval
    Reorder,        \* how many frames back the network may deliver or repeat
    MaxLate,        \* how many intervals the socket task may be late
    DataCap,        \* EVENT_CHANNEL_DEPTH
    CmdCap,         \* MANAGER_COMMAND_DEPTH
    MaxErrors,      \* MAX_CONSECUTIVE_{SEND,FATAL_RECV}_ERRORS
    MinReplyApi, MaxReplyApi,  \* MIN_REPLY_API, MAX_REPLY_API, in microseconds
    NoSock,         \* the reply carries no such Sockaddr item
    NoConn

ASSUME ApiAssumption == MinReplyApi \in Nat \ {0} /\ MaxReplyApi \in Nat

ASSUME IoAssumption ==
    /\ Type \in [Conns -> {"p2p", "multicast"}]
    /\ {Modulus, Multiplier, O2TApi, MaxLate, DataCap, CmdCap, MaxErrors} \subseteq Nat \ {0}
    /\ Reorder \in Nat
    /\ NoConn \notin [wd : Int, due : Int, serr : Nat, up : BOOLEAN]

\* A connection cannot fall half a turn of the sequence number behind before its
\* watchdog looks: 2^15 frames against a watchdog of at most 512 (X512).
ASSUME WindowAssumption == Reorder + Multiplier + MaxLate <= Modulus \div 2

VARIABLES
    call,      \* the owner's position: idle asking closing sending arming open removing ...
    ack,       \* the one-shot answer to Add: none ok err dropped
    owed,      \* a success reply was received and no ForwardClose sent since
    owner,     \* the IoManager value still exists
    mgr,       \* the socket task: run | exited
    cmds,      \* its command queue
    reg,       \* Registry.conns
    groups,    \* connections whose multicast group the socket has joined
    recvErrs,  \* RecvErrorPolicy
    late,      \* intervals since the last scheduler tick
    behind,    \* frames the target sent since the last accepted one
    ev,        \* the event queue of each connection
    ended,     \* the sending half of it was dropped
    heard,     \* history: the loss was received
    ordered    \* history: the owner asked for the end (Remove, Shutdown, drop)

calls == <<call, ack, owed, owner>>
task  == <<mgr, cmds, reg, groups, recvErrs, late>>
strm  == <<ev, ended, heard, ordered>>
vars  == <<calls, task, behind, strm>>

Half == Modulus \div 2

\* (new - last) as i16
Delta(diff) == LET d == diff % Modulus IN IF d < Half THEN d ELSE d - Modulus

(***************************************************************************)
(* What the scanner decides about the reply to a ForwardOpen (io.rs,       *)
(* cm.rs).                                                                 *)
(***************************************************************************)
\* The four fields of the request that a success reply repeats.
verify_forward_open_echo(open, reply) ==
    /\ reply.t_o_connection_id = open.t_o_connection_id
    /\ reply.connection_serial = open.connection_serial
    /\ reply.vendor_id = open.vendor_id
    /\ reply.originator_serial = open.originator_serial

validate_reply_apis(reply) ==
    \A api \in {reply.o_t_api, reply.t_o_api} : api >= MinReplyApi /\ api <= MaxReplyApi

\* Where O->T frames go: always to the target, at most the port is the reply's.
resolve_tx_endpoint(sock, target) ==
    [ip |-> target, port |-> IF sock = NoSock \/ sock.port = 0 THEN 2222 ELSE sock.port]

IsMulticast(sock) == sock # NoSock /\ sock.ip = "multicast"

\* A group is joined only where multicast was asked for.
resolve_multicast_group(sock, connType) == IsMulticast(sock) => connType = "multicast"

\* The order of the checks is the code's; what fails is told apart by nobody.
ReplyAccepted(open, reply, connType, targetKnown) ==
    /\ verify_forward_open_echo(open, reply)
    /\ validate_reply_apis(reply)
    /\ targetKnown
    /\ resolve_multicast_group(reply.t2o, connType)

(***************************************************************************)
(* Requests and replies.                                                   *)
(***************************************************************************)
Registered(c) == reg[c] # NoConn

Open(c) == [t_o_connection_id |-> c, connection_serial |-> 1, vendor_id |-> 1, originator_serial |-> 1]

\* Success replies: right, for another connection, with an unusable interval,
\* with a multicast group.
Replies(c) ==
    {[t_o_connection_id |-> i, connection_serial |-> 1, vendor_id |-> 1, originator_serial |-> 1,
      o_t_api |-> a, t_o_api |-> MinReplyApi, t2o |-> s] :
        i \in {c, NoConn}, a \in {0, MinReplyApi, MaxReplyApi + 1},
        s \in {NoSock, [ip |-> "multicast", port |-> 0]}}

-----------------------------------------------------------------------------
(* The event queue *)

IsData(e) == e = "data"
IsLost(e) == e \in {"timeout", "io"}

RxGone(c) == call[c] \in {"gone", "closed"}

\* Latest wins: a sample that finds the queue full evicts the oldest sample;
\* control events are never evicted.
push_latest_wins(q, e) ==
    LET full == Len(SelectSeq(q, IsData)) >= DataCap
        oldest == SelectInSeq(q, IsData)
    IN Append(IF IsData(e) /\ full THEN RemoveAt(q, oldest) ELSE q, e)

Send(c, q, e) == IF RxGone(c) THEN q ELSE push_latest_wins(q, e)

-----------------------------------------------------------------------------
(* The connection state machine *)

NewConn == [wd |-> Multiplier, due |-> O2TApi, serr |-> 0, up |-> FALSE]

\* The frame sent b frames before the newest one is accepted.
Accepts(c, b) == ~reg[c].up \/ Delta(behind[c] - b) > 0

\* A connection after an accepted and after a dropped frame.
OnAccept(r) == [r EXCEPT !.wd = Multiplier, !.up = TRUE]
\* Variant: every frame that arrives feeds the watchdog.
OnDrop_refreshes(r) == [r EXCEPT !.wd = Multiplier]

OnDrop(r) == r

\* A lapsed schedule fires once and is re-armed at its next tick after now.
poll_produce(due) ==
    IF due > 0 THEN due
    ELSE LET skipped == (-due) \div O2TApi
         IN due + (skipped + 1) * O2TApi

\* What a tick makes of a connection whose send, if one was due, ended with res:
\* "ok", "datagram" (is_per_datagram_error) or "socket".
record_send(r, res) ==
    IF r.due > 0 \/ res = "datagram" THEN r.serr
    ELSE IF res = "ok" THEN 0 ELSE r.serr + 1

\* Variant: the deadline itself is still in time, and so is the next tick.
poll_watchdog_late(r) == r.wd < -1 - MaxLate

poll_watchdog(r) == r.wd <= 0

AfterTick(r, res) == [r EXCEPT !.serr = record_send(r, res), !.due = poll_produce(r.due)]
Dead(r, res) == r.due <= 0 /\ record_send(r, res) >= MaxErrors

-----------------------------------------------------------------------------
(* The socket task *)

\* Connections D leave the registry with their senders; L of them are told why.
Drop(D, L, r, e) ==
    /\ reg' = [c \in Conns |-> IF c \in D THEN NoConn ELSE r[c]]
    /\ groups' = groups \ D
    /\ behind' = [c \in Conns |-> IF c \in D THEN 0 ELSE behind[c]]
    /\ ended' = [c \in Conns |-> ended[c] \/ c \in D]
    /\ ev' = [c \in Conns |-> IF c \in L THEN Send(c, ev[c], e[c]) ELSE ev[c]]

\* The task ends: what is queued is dropped, and the answers with it.
Exit ==
    /\ mgr' = "exited" /\ cmds' = <<>>
    /\ ack' = [c \in Conns |-> IF <<"add", c>> \in ToSet(cmds) THEN "dropped" ELSE ack[c]]

\* A join fails for reasons of the interface, and where the group is joined already.
CanJoin(c) == Type[c] = "p2p" \/ \A d \in groups : Type[d] = "p2p"

CommandAdd(c) ==
    /\ mgr = "run" /\ cmds # <<>> /\ Head(cmds) = <<"add", c>>
    /\ cmds' = Tail(cmds)
    /\ \/ \* join_multicast_v4 failed: refuse to arm
          /\ Type[c] = "multicast"
          /\ ack' = [ack EXCEPT ![c] = "err"]
          /\ ended' = [ended EXCEPT ![c] = TRUE]
          /\ UNCHANGED <<reg, groups>>
       \/ \* the opener is there to be told
          /\ CanJoin(c) /\ call[c] = "arming"
          /\ reg' = [reg EXCEPT ![c] = NewConn]
          /\ groups' = IF Type[c] = "multicast" THEN groups \cup {c} ELSE groups
          /\ ack' = [ack EXCEPT ![c] = "ok"]
          /\ UNCHANGED ended
       \/ \* it is not: remove_connection
          /\ CanJoin(c) /\ call[c] = "gone"
          /\ ended' = [ended EXCEPT ![c] = TRUE]
          /\ UNCHANGED <<ack, reg, groups>>
    /\ UNCHANGED <<call, owed, owner, mgr, recvErrs, late, behind, ev, heard, ordered>>

CommandRemove(c) ==
    /\ mgr = "run" /\ cmds # <<>> /\ Head(cmds) = <<"remove", c>>
    /\ cmds' = Tail(cmds)
    /\ Drop({c}, {}, reg, ev)
    /\ UNCHANGED <<calls, mgr, recvErrs, late, heard, ordered>>

\* Shutdown, or every sender is gone.
CommandsEnd ==
    /\ mgr = "run"
    /\ \/ cmds # <<>> /\ Head(cmds) = <<"shutdown">>
       \/ cmds = <<>> /\ ~owner /\ \A c \in Conns : call[c] \in {"idle", "failed", "unread", "gone", "closed"}
    /\ Exit
    /\ ended' = [c \in Conns |-> ended[c] \/ Registered(c) \/ <<"add", c>> \in ToSet(cmds)]
    /\ reg' = [c \in Conns |-> NoConn] /\ groups' = {} /\ behind' = [c \in Conns |-> 0]
    /\ ordered' = TRUE
    /\ UNCHANGED <<call, owed, owner, recvErrs, late, ev, heard>>

\* A frame of c reaches the gauntlet: consume, deliver.
Frame(c, b) ==
    /\ mgr = "run" /\ Registered(c)
    /\ b <= Reorder /\ (~reg[c].up => b < behind[c])
    /\ recvErrs' = 0
    /\ IF Accepts(c, b)
       THEN /\ reg' = [reg EXCEPT ![c] = OnAccept(@)]
            /\ behind' = [behind EXCEPT ![c] = b]
            /\ LET q == IF reg[c].up THEN ev[c] ELSE Send(c, ev[c], "up")
               IN ev' = [ev EXCEPT ![c] = Send(c, q, "data")]
       ELSE /\ reg' = [reg EXCEPT ![c] = OnDrop(@)]
            /\ UNCHANGED <<behind, ev>>
    /\ UNCHANGED <<calls, mgr, cmds, groups, late, ended, heard, ordered>>

\* A datagram that is malformed, of an unknown connection, from another source
\* or of a wrong size is counted; it only shows that the socket works.
Stray ==
    /\ mgr = "run" /\ recvErrs > 0
    /\ recvErrs' = 0
    /\ UNCHANGED <<calls, mgr, cmds, reg, groups, late, behind, strm>>

\* An error of one datagram shows that the socket works; any other lengthens the streak.
on_recv_error(streak, perDatagram) == IF perDatagram THEN 0 ELSE streak + 1

\* A receive error; the last of a streak loses all.
RecvError(perDatagram) ==
    /\ mgr = "run"
    /\ recvErrs' = on_recv_error(recvErrs, perDatagram)
    /\ IF recvErrs' >= MaxErrors
       THEN LET D == {c \in Conns : Registered(c)}
                A == {c \in Conns : <<"add", c>> \in ToSet(cmds)}
            IN /\ Exit
               /\ Drop(D \cup A, D, reg, [c \in Conns |-> "io"])
               /\ UNCHANGED <<call, owed, owner>>
       ELSE UNCHANGED <<calls, mgr, cmds, reg, groups, behind, ev, ended>>
    /\ UNCHANGED <<late, heard, ordered>>

\* An interval passes; a live target may have sent a frame in it.
Time(F) ==
    /\ mgr = "run" /\ late < MaxLate
    /\ F \subseteq {c \in Conns : Registered(c)}
    /\ late' = late + 1
    /\ reg' = [c \in Conns |-> IF Registered(c) THEN [reg[c] EXCEPT !.wd = @ - 1, !.due = @ - 1]
                               ELSE NoConn]
    /\ behind' = [c \in Conns |-> IF c \in F THEN behind[c] + 1 ELSE behind[c]]
    /\ UNCHANGED <<calls, mgr, cmds, groups, recvErrs, strm>>

\* Variant: a connection is dropped without a word.
Tick_silent(res) ==
    /\ mgr = "run" /\ late > 0
    /\ late' = 0
    /\ LET R == {c \in Conns : Registered(c)}
           D == {c \in R : Dead(reg[c], res[c]) \/ poll_watchdog(reg[c])}
       IN Drop(D, {}, [c \in Conns |-> IF c \in R THEN AfterTick(reg[c], res[c]) ELSE NoConn], ev)
    /\ UNCHANGED <<calls, mgr, cmds, recvErrs, heard, ordered>>

\* The scheduler tick: produce, account for the send, look at the watchdog.
Tick(res) ==
    /\ mgr = "run" /\ late > 0
    /\ late' = 0
    /\ LET R == {c \in Conns : Registered(c)}
           Io == {c \in R : Dead(reg[c], res[c])}
           D == Io \cup {c \in R : poll_watchdog(reg[c])}
       IN Drop(D, D, [c \in Conns |-> IF c \in R THEN AfterTick(reg[c], res[c]) ELSE NoConn],
               [c \in Conns |-> IF c \in Io THEN "io" ELSE "timeout"])
    /\ UNCHANGED <<calls, mgr, cmds, recvErrs, heard, ordered>>

-----------------------------------------------------------------------------
(* The callers *)

Goto(c, p) == call' = [call EXCEPT ![c] = p]

ForwardOpen(c) ==
    /\ owner /\ call[c] = "idle"
    /\ Goto(c, "asking")
    /\ UNCHANGED <<ack, owed, owner, task, behind, strm>>

\* The ForwardOpen failed, or was refused.
Refused(c) ==
    /\ call[c] = "asking"
    /\ Goto(c, "failed")
    /\ UNCHANGED <<ack, owed, owner, task, behind, strm>>

\* The target granted it in a reply without a data item, or whose body does not
\* decode: the caller returns the error, and no ForwardClose follows.
Unreadable(c) ==
    /\ call[c] = "asking"
    /\ owed' = [owed EXCEPT ![c] = TRUE] /\ Goto(c, "unread")
    /\ UNCHANGED <<ack, owner, task, behind, strm>>

Granted(c, reply) ==
    /\ call[c] = "asking"
    /\ owed' = [owed EXCEPT ![c] = TRUE]
    /\ Goto(c, IF ReplyAccepted(Open(c), reply, Type[c], TRUE) THEN "sending" ELSE "closing")
    /\ UNCHANGED <<ack, owner, task, behind, strm>>

\* Hand the connection to the task; it may have exited.
SendAdd(c) ==
    /\ call[c] = "sending"
    /\ \/ /\ mgr = "exited" /\ Goto(c, "closing") /\ UNCHANGED cmds
       \/ /\ mgr = "run" /\ Len(cmds) < CmdCap
          /\ Goto(c, "arming") /\ cmds' = Append(cmds, <<"add", c>>)
    /\ UNCHANGED <<ack, owed, owner, mgr, reg, groups, recvErrs, late, behind, strm>>

\* Variant: a task that died in between is taken for an armed connection.
Armed_trusting(c) ==
    /\ call[c] = "arming" /\ ack[c] # "none"
    /\ Goto(c, IF ack[c] = "ok" THEN "open" ELSE "failed")
    /\ UNCHANGED <<ack, owed, owner, task, behind, strm>>

Armed(c) ==
    /\ call[c] = "arming" /\ ack[c] # "none"
    /\ Goto(c, IF ack[c] = "ok" THEN "open" ELSE "closing")
    /\ UNCHANGED <<ack, owed, owner, task, behind, strm>>

BestEffortClose(c) ==
    /\ call[c] = "closing"
    /\ owed' = [owed EXCEPT ![c] = FALSE] /\ Goto(c, "failed")
    /\ UNCHANGED <<ack, owner, task, behind, strm>>

\* The future of forward_open or close is dropped at one of its awaits, or the
\* open handle with the task that holds it: the receiver and the sender of the
\* command queue go, and nothing is sent to the target.
Cancel(c) ==
    /\ call[c] \in {"asking", "closing", "sending", "arming", "open", "removing"}
    /\ Goto(c, "gone") /\ ev' = [ev EXCEPT ![c] = <<>>]
    /\ UNCHANGED <<ack, owed, owner, task, behind, ended, heard, ordered>>

Receive(c) ==
    /\ call[c] = "open" /\ ev[c] # <<>>
    /\ ev' = [ev EXCEPT ![c] = Tail(@)]
    /\ heard' = [heard EXCEPT ![c] = @ \/ IsLost(Head(ev[c]))]
    /\ UNCHANGED <<calls, task, behind, ended, ordered>>

CloseAsk(c) ==
    /\ call[c] = "open"
    /\ owed' = [owed EXCEPT ![c] = FALSE] /\ Goto(c, "removing")
    /\ UNCHANGED <<ack, owner, task, behind, strm>>

CloseRemove(c) ==
    /\ call[c] = "removing"
    /\ Goto(c, "closed") /\ ev' = [ev EXCEPT ![c] = <<>>]
    /\ \/ /\ mgr = "exited" /\ UNCHANGED cmds
       \/ /\ mgr = "run" /\ Len(cmds) < CmdCap
          /\ cmds' = Append(cmds, <<"remove", c>>)
    /\ UNCHANGED <<ack, owed, owner, mgr, reg, groups, recvErrs, late, behind, ended, heard, ordered>>

Shutdown ==
    /\ owner /\ mgr = "run" /\ Len(cmds) < CmdCap
    /\ owner' = FALSE
    /\ cmds' \in {Append(cmds, <<"shutdown">>), cmds}
    /\ UNCHANGED <<call, ack, owed, mgr, reg, groups, recvErrs, late, behind, strm>>

-----------------------------------------------------------------------------
Init ==
    /\ call = [c \in Conns |-> "idle"] /\ ack = [c \in Conns |-> "none"]
    /\ owed = [c \in Conns |-> FALSE] /\ owner = TRUE
    /\ mgr = "run" /\ cmds = <<>> /\ reg = [c \in Conns |-> NoConn] /\ groups = {}
    /\ recvErrs = 0 /\ late = 0
    /\ behind = [c \in Conns |-> 0]
    /\ ev = [c \in Conns |-> <<>>] /\ ended = [c \in Conns |-> FALSE]
    /\ heard = [c \in Conns |-> FALSE] /\ ordered = FALSE

TaskStep ==
    \/ \E c \in Conns : CommandAdd(c) \/ CommandRemove(c)
    \/ CommandsEnd \/ Stray \/ \E k \in BOOLEAN : RecvError(k)
    \/ \E c \in Conns, b \in 0..Reorder : Frame(c, b)
    \/ \E F \in SUBSET Conns : Time(F)
    \/ \E res \in [Conns -> {"ok", "datagram", "socket"}] : Tick(res)

CallStep(c) ==
    \/ ForwardOpen(c) \/ Refused(c) \/ Unreadable(c) \/ SendAdd(c) \/ Armed(c)
    \/ BestEffortClose(c) \/ \E reply \in Replies(c) : Granted(c, reply)
    \/ Cancel(c) \/ Receive(c) \/ CloseAsk(c) \/ CloseRemove(c)

Next == TaskStep \/ Shutdown \/ \E c \in Conns : CallStep(c)

\* The socket task's timer fires and its queue is served; calls end.
Fairness ==
    /\ WF_vars(\E F \in SUBSET Conns : Time(F))
    /\ WF_vars(\E res \in [Conns -> {"ok", "datagram", "socket"}] : Tick(res))

Spec == Init /\ [][Next]_vars /\ Fairness

-----------------------------------------------------------------------------
(* Properties *)

\* The signed window tells new frames from old ones for as long as a connection
\* lives: whatever the network lost or delayed, every frame newer than the last
\* accepted one would be accepted and every other one dropped.  It holds because
\* the watchdog ends a silent connection before the window wraps
\* (IoConnection::consume, poll_watchdog).
WindowSound ==
    \A c \in Conns : Registered(c) /\ reg[c].up =>
        \A b \in 0..Reorder : Accepts(c, b) <=> b < behind[c]

\* A ForwardOpen whose success reply was read is closed again by every failure that
\* follows, whichever check, queue or task failed; nor does a closed connection
\* leave the target producing.  Two ways out of forward_open are not among them: a
\* success reply that cannot be read (EveryFailureCloses), and a caller that is
\* dropped, with its future or with its handle, and sends nothing.
FailedOpenClosed ==
    \A c \in Conns : call[c] \in {"failed", "removing", "closed"} => ~owed[c]

\* forward_open's own comment: "Invariant: any failure after a successful ForwardOpen
\* issues a best-effort ForwardClose".  Refuted: the reply that says so is decoded
\* by `?`, so a caller that cannot read it leaves the target producing.
EveryFailureCloses ==
    \A c \in Conns : call[c] \in {"failed", "unread", "removing", "closed"} => ~owed[c]

\* A stream that ends without the owner having asked for it says why: Lost is in
\* it, also when the queue was full, and the handle of a connection that is not
\* registered any more has an ended stream (manager_task, push_latest_wins).
EndIsTold ==
    \A c \in Conns : call[c] = "open" =>
        /\ ended[c] <=> ~Registered(c)
        /\ ended[c] /\ ~ordered => heard[c] \/ \E i \in DOMAIN ev[c] : IsLost(ev[c][i])

\* A connection that asked for multicast is registered only while the socket is a
\* member of its group (ManagerCommand::Add, remove_connection).
MemberWhileArmed ==
    \A c \in Conns : Registered(c) /\ Type[c] = "multicast" => c \in groups

\* What a connection holds outside the process is released with it and not
\* before: the target's half of it when the call that opened or closed it returns
\* having read the target's answer, and the socket's membership of its group.
ResourcesReleased == FailedOpenClosed /\ MemberWhileArmed

\* A target that falls silent is noticed, although frames it sent before may still
\* be repeated by the network: only an accepted frame feeds the watchdog.
SilenceIsNoticed ==
    \A c \in Conns : []<><<behind'[c] > behind[c]>>_behind \/ <>[]~Registered(c)
=============================================================================
