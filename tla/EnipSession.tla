---------------------------- MODULE EnipSession ----------------------------
(***************************************************************************)
(* The explicit-messaging session of crates/enip/src/client: connect (one  *)
(* budget for dialling, RegisterSession and the optional class-3           *)
(* ForwardOpen), the callers of EipClient::transaction, the bounded        *)
(* command channel, the session actor that owns the byte stream, close()   *)
(* and the last handle's drop.  The target is external: it answers late,   *)
(* twice, with wrong header fields, stops reading, or hangs up.            *)
(* Deadlines are kept as the ticks left to them: 0 is "elapsed", -1 is     *)
(* "elapsed, and REPLY_BACKSTOP_GRACE too".                                *)
(***************************************************************************)
EXTENDS Integers, Sequences, FiniteSets

CONSTANTS Users,          \* requests of the session's users, each issued at most once
          Asks,           \* [Users -> {"cip", "list"}]: send_cip or identity()
          QueueCap,       \* the command channel's capacity (32 in the code)
          RequestTimeout, \* ClientOptions::request_timeout, in ticks
          ConnectTimeout, \* ClientOptions::connect_timeout, in ticks
          MaxConsecutive, \* ClientOptions::max_consecutive_timeouts
          MaxFaults,      \* bound: how often the target misbehaves
          MaxRequests     \* bound: users issue while fewer transactions than this were issued

VARIABLES conn,    \* connect(): phase, the ticks left of its one budget, connected_messaging
          req,     \* the transactions: phase, ticks left, sequence count, verdict
          queue,   \* the mpsc channel: transactions and at most one Unregister
          actor,   \* the SessionActor: phase, transaction in hand
          context, \* next_context: the last correlation context used
          streak,  \* consecutive_timeouts
          closer,  \* close(): phase and the ticks left of the hand-off
          held,    \* whether a client handle (a strong sender) exists
          link,    \* the byte stream: "up", "stalled" (the peer stopped reading) or "eof"
          inbox,   \* request frames the target holds
          wire,    \* reply frames on their way to the actor, in order
          faults,  \* the misbehaviour spent
          torn,    \* history: a partial frame went out
          mute,    \* history: frames written since the last correlated reply
          served   \* history: the requests the target answered as the protocol asks

vars == <<conn, req, queue, actor, context, streak, closer, held, link, inbox, wire,
          faults, torn, mute, served>>

\* The transactions the client issues on its own behalf: the class-3 ForwardOpen, its undo when
\* the echo is wrong, and close()'s ForwardClose.  All are SendRRData.
Own == {"open", "undo", "fclose"}
Reqs == Users \cup Own

ASSUME UsersAssumption == IsFiniteSet(Users) /\ Users \cap (Own \cup {"none", "unregister"}) = {}
ASSUME AsksAssumption == Asks \in [Users -> {"cip", "list"}]
ASSUME TimeoutAssumption == RequestTimeout \in Nat /\ ConnectTimeout \in Nat

\* The encapsulation command of a request: send_cip rides the class-3 connection (SendUnitData)
\* when the session has one and UCMM (SendRRData) otherwise; identity() is a ListIdentity.
Cmd(r) == IF r \in Own THEN "rr"
          ELSE IF Asks[r] = "list" THEN "list"
          ELSE IF conn.class3 THEN "unit" ELSE "rr"
UnregisterCmd == "unregister"

Idle == [ph |-> "new", left |-> 0, seq |-> 0, out |-> "none"]
Active(r) == req[r].ph \in {"sending", "waiting"}

Init ==
    /\ conn \in [ph : {"dial"}, left : {ConnectTimeout}, class3 : BOOLEAN]
    /\ req = [r \in Reqs |-> Idle]
    /\ queue = <<>>
    /\ actor = [ph |-> "none", cur |-> "none"]
    /\ context = 0 /\ streak = 0
    /\ closer = [ph |-> "none", left |-> 0]
    /\ held = TRUE
    /\ link = "up" /\ inbox = {} /\ wire = <<>>
    /\ faults = 0 /\ torn = FALSE /\ mute = 0 /\ served = {}

----------------------------------------------------------------------------
(* Opening a session *)

\* connect_over's validation of the RegisterSession reply, in its order; the first check that
\* fails names the error.
register_verdict(rep) ==
    IF ~rep.context \/ ~rep.command \/ ~rep.options THEN "violation"
    ELSE IF ~rep.status THEN "encap"
    ELSE IF ~rep.handle THEN "violation"
    ELSE IF rep.body = "version" THEN "unsupported"
    ELSE IF rep.body # "exact" THEN "violation"
    ELSE "ok"

RegisterReply == [context : BOOLEAN, command : BOOLEAN, options : BOOLEAN, status : BOOLEAN,
                  handle : BOOLEAN, body : {"exact", "short", "version", "options", "trailing"}]

\* A failed connect drops the provisional handle; whatever it was waiting for is abandoned.
ConnectFails ==
    /\ conn' = [conn EXCEPT !.ph = "failed", !.left = 0]
    /\ held' = FALSE
    /\ req' = [r \in Reqs |->
                  IF Active(r) THEN [req[r] EXCEPT !.ph = "done", !.out = "abandoned"] ELSE req[r]]

\* TcpStream::connect completed within the budget.
Dial == /\ conn.ph = "dial" /\ conn.left > 0
        /\ conn' = [conn EXCEPT !.ph = "register"]
        /\ UNCHANGED <<req, queue, actor, context, streak, closer, held, link, inbox, wire,
                       faults, torn, mute, served>>

\* The RegisterSession exchange; a good reply spawns the actor on the stream.
Register ==
    /\ conn.ph = "register" /\ link = "up"
    /\ \E rep \in RegisterReply :
         IF register_verdict(rep) = "ok"
         THEN /\ conn' = IF conn.class3 THEN [conn EXCEPT !.ph = "class3"]
                        ELSE [conn EXCEPT !.ph = "up", !.left = 0]
              /\ actor' = [actor EXCEPT !.ph = "idle"]
              /\ UNCHANGED <<req, held>>
         ELSE ConnectFails /\ UNCHANGED actor
    /\ UNCHANGED <<queue, context, streak, closer, link, inbox, wire, faults, torn, mute, served>>

\* The dial, the handshake or the ForwardOpen outlived the budget, or the peer hung up.
ConnectEnds ==
    /\ \/ conn.ph \in {"dial", "register", "class3", "undo"} /\ conn.left = 0
       \/ conn.ph = "register" /\ link = "eof"
    /\ ConnectFails
    /\ UNCHANGED <<queue, actor, context, streak, closer, link, inbox, wire, faults, torn, mute, served>>

\* open_class3: what the answer to the ForwardOpen means.  The reply's echo may be wrong
\* (a fault of the target); then a best-effort ForwardClose goes out before the error.
OpenAnswered ==
    /\ conn.ph = "class3" /\ req["open"].ph = "done"
    /\ \/ /\ req["open"].out = "ok"
          /\ conn' = [conn EXCEPT !.ph = "up", !.left = 0]
          /\ UNCHANGED <<req, held, faults>>
       \/ /\ req["open"].out = "ok" /\ faults < MaxFaults
          /\ faults' = faults + 1
          /\ conn' = [conn EXCEPT !.ph = "undo"]
          /\ UNCHANGED <<req, held>>
       \/ /\ req["open"].out # "ok"
          /\ ConnectFails /\ UNCHANGED faults
    /\ UNCHANGED <<queue, actor, context, streak, closer, link, inbox, wire, torn, mute, served>>

UndoAnswered ==
    /\ conn.ph = "undo" /\ req["undo"].ph = "done"
    /\ ConnectFails
    /\ UNCHANGED <<queue, actor, context, streak, closer, link, inbox, wire, faults, torn, mute, served>>

----------------------------------------------------------------------------
(* EipClient::transaction, and the callers' side of it *)

\* The number of requests that already carry a connected sequence count; 0 is never used.
next_sequence == 1 + Cardinality({r \in Users : req[r].seq # 0})

MayIssue(r) == \/ /\ r \in Users /\ conn.ph = "up" /\ held
                  /\ Cardinality({q \in Reqs : req[q].ph # "new"}) < MaxRequests
               \/ r = "open" /\ conn.ph = "class3"
               \/ r = "undo" /\ conn.ph = "undo"
               \/ r = "fclose" /\ closer.ph = "fclose"

\* The deadline is absolute and stamped before the hand-off to the actor, which is tried at once:
\* Closed when the actor is gone, a slot of the channel, or a wait for one.
Issue(r) ==
    /\ MayIssue(r) /\ req[r].ph = "new"
    /\ LET sent == [req EXCEPT ![r].left = RequestTimeout,
                               ![r].seq = IF Cmd(r) = "unit" THEN next_sequence ELSE 0] IN
         \/ /\ actor.ph = "dead"
            /\ req' = [req EXCEPT ![r].ph = "done", ![r].out = "closed"]
            /\ UNCHANGED queue
         \/ /\ actor.ph # "dead" /\ Len(queue) < QueueCap
            /\ req' = [sent EXCEPT ![r].ph = "waiting"]
            /\ queue' = Append(queue, r)
         \/ /\ actor.ph # "dead" /\ Len(queue) >= QueueCap
            /\ req' = [sent EXCEPT ![r].ph = "sending"]
            /\ UNCHANGED queue
    /\ UNCHANGED <<conn, actor, context, streak, closer, held, link, inbox, wire,
                   faults, torn, mute, served>>

\* The wait for a slot ends: the hand-off, Closed, or Timeout at the deadline.
Enqueue(r) ==
    /\ req[r].ph = "sending"
    /\ \/ /\ actor.ph # "dead" /\ Len(queue) < QueueCap
          /\ queue' = Append(queue, r)
          /\ req' = [req EXCEPT ![r].ph = "waiting"]
       \/ /\ actor.ph = "dead"
          /\ req' = [req EXCEPT ![r].ph = "done", ![r].left = 0, ![r].out = "closed"]
          /\ UNCHANGED queue
       \/ /\ actor.ph # "dead" /\ Len(queue) >= QueueCap /\ req[r].left <= 0
          /\ req' = [req EXCEPT ![r].ph = "done", ![r].left = 0, ![r].out = "timeout"]
          /\ UNCHANGED queue
    /\ UNCHANGED <<conn, actor, context, streak, closer, held, link, inbox, wire,
                   faults, torn, mute, served>>

\* deadline + REPLY_BACKSTOP_GRACE elapsed with no verdict from the actor.
Backstop(r) ==
    /\ req[r].ph = "waiting" /\ req[r].left < 0
    /\ req' = [req EXCEPT ![r].ph = "done", ![r].out = "timeout"]
    /\ UNCHANGED <<conn, queue, actor, context, streak, closer, held, link, inbox, wire,
                   faults, torn, mute, served>>

\* A caller drops its future (a cancelled command, a reload).
Abandon(r) ==
    /\ r \in Users /\ Active(r)
    /\ req' = [req EXCEPT ![r].ph = "done", ![r].out = "abandoned"]
    /\ UNCHANGED <<conn, queue, actor, context, streak, closer, held, link, inbox, wire,
                   faults, torn, mute, served>>

----------------------------------------------------------------------------
(* The session actor *)

\* reply_tx.send: the caller that still waits ends with the verdict; one that left loses it.
Ended(rq, r, v) ==
    [rq EXCEPT ![r].left = 0, ![r].ph = "done", ![r].out = IF rq[r].ph = "done" THEN @ ELSE v]
Reply(r, v) == Ended(req, r, v)

\* The actor's end: the socket is dropped with the frames on it, and so is the mpsc receiver,
\* with the reply sender of every queued transaction (its caller sees Closed).  `rq` is the
\* table after the transaction in hand got its verdict.
Die(rq) ==
    /\ actor' = [ph |-> "dead", cur |-> "none"]
    /\ queue' = <<>> /\ inbox' = {} /\ wire' = <<>>
    /\ req' = [r \in Reqs |-> IF r \in {queue[i] : i \in 1..Len(queue)}
                              THEN Ended(rq, r, "closed")[r] ELSE rq[r]]

Rest == [ph |-> "idle", cur |-> "none"]

preflight(r) == IF req[r].ph = "done" THEN "abandoned"
                ELSE IF req[r].left <= 0 THEN "expired" ELSE "run"

\* Variant: a transaction that expired in the queue counts as a silent peer.
Take_countsBacklog ==
    /\ actor.ph = "idle" /\ queue # <<>> /\ Head(queue) \in Reqs
    /\ LET r == Head(queue) IN
         \/ /\ preflight(r) = "run"
            /\ actor' = [ph |-> "write", cur |-> r]
            /\ context' = context + 1
            /\ UNCHANGED <<req, streak>>
         \/ /\ preflight(r) # "run"
            /\ req' = Reply(r, "timeout") /\ streak' = streak + 1
            /\ UNCHANGED <<actor, context>>
    /\ queue' = Tail(queue)
    /\ UNCHANGED <<conn, closer, held, link, inbox, wire, faults, torn, mute, served>>

\* Dequeue and triage; only a transaction that will run burns a context.
Take ==
    /\ actor.ph = "idle" /\ queue # <<>> /\ Head(queue) \in Reqs
    /\ LET r == Head(queue) IN
         \/ /\ preflight(r) = "run"
            /\ actor' = [ph |-> "write", cur |-> r]
            /\ context' = context + 1
            /\ UNCHANGED req
         \/ /\ preflight(r) = "expired"
            /\ req' = Reply(r, "timeout")
            /\ UNCHANGED <<actor, context>>
         \/ /\ preflight(r) = "abandoned"
            /\ UNCHANGED <<req, actor, context>>
    /\ queue' = Tail(queue)
    /\ UNCHANGED <<conn, streak, closer, held, link, inbox, wire, faults, torn, mute, served>>

\* Variant: a write cut short by its deadline is an ordinary request timeout.
Write_timeoutIsLocal ==
    /\ actor.ph = "write"
    /\ LET r == actor.cur IN
         \/ /\ link = "up"
            /\ inbox' = inbox \cup {[ctx |-> context, cmd |-> Cmd(r), seq |-> req[r].seq, for |-> r]}
            /\ actor' = [actor EXCEPT !.ph = "read"]
            /\ UNCHANGED <<req, torn>>
         \/ /\ link = "stalled" /\ req[r].left <= 0
            /\ torn' = TRUE
            /\ req' = Reply(r, "timeout") /\ actor' = Rest
            /\ UNCHANGED inbox
    /\ UNCHANGED <<conn, queue, context, streak, closer, held, link, wire, faults, mute, served>>

\* send_frame: the frame reaches the target, the write fails, or its deadline cuts it short.
Write ==
    /\ actor.ph = "write"
    /\ LET r == actor.cur IN
         \/ /\ link = "up"
            /\ inbox' = inbox \cup {[ctx |-> context, cmd |-> Cmd(r), seq |-> req[r].seq, for |-> r]}
            /\ actor' = [actor EXCEPT !.ph = "read"]
            /\ mute' = mute + 1
            /\ UNCHANGED <<req, queue, torn, wire>>
         \/ /\ link = "eof"
            /\ Die(Reply(r, "lost"))
            /\ UNCHANGED <<torn, mute>>
         \/ /\ link = "stalled" /\ req[r].left <= 0
            /\ torn' = TRUE
            /\ Die(Reply(r, "lost"))
            /\ UNCHANGED mute
    /\ UNCHANGED <<conn, context, streak, closer, held, link, faults, served>>

\* Variant: correlation by command alone, as if contexts were not needed with one request in
\* flight; a late reply answers its successor.
match_reply_anyContext(exp, h) ==
    IF h.cmd # exp.cmd \/ (exp.cmd # "list" /\ ~h.handle) THEN "mismatch" ELSE "match"

\* Whether a reply's header answers the outstanding request, and why not.
match_reply(exp, h) ==
    IF h.ctx # exp.ctx THEN "stale"
    ELSE IF h.cmd # exp.cmd THEN "mismatch"
    ELSE IF exp.cmd # "list" /\ ~h.handle THEN "mismatch"
    ELSE "match"

\* What the caller makes of a correlated reply: parse_explicit_reply, parse_connected_reply
\* and identity() refuse an encapsulation status; the connected one also a foreign sequence.
ReplyVerdict(r, h) ==
    IF h.status # "ok" THEN "encap"
    ELSE IF Cmd(r) = "unit" /\ h.seq # req[r].seq THEN "violation"
    ELSE "ok"

\* One frame read while a request is outstanding: discarded, delivered, or delivered as the
\* session's end (InvalidSessionHandle).
Read ==
    /\ actor.ph = "read" /\ wire # <<>>
    /\ LET h == Head(wire)
           r == actor.cur
           m == IF h.options # 0 THEN "options"
                ELSE match_reply([ctx |-> context, cmd |-> Cmd(r)], h) IN
         \/ /\ m # "match"
            /\ wire' = Tail(wire)
            /\ UNCHANGED <<req, queue, actor, streak, mute, inbox>>
         \/ /\ m = "match" /\ h.status = "invalid_session"
            /\ streak' = 0 /\ mute' = 0
            /\ Die(Reply(r, "poisoned"))
         \/ /\ m = "match" /\ h.status # "invalid_session"
            /\ streak' = 0 /\ mute' = 0
            /\ req' = Reply(r, ReplyVerdict(r, h))
            /\ actor' = Rest
            /\ wire' = Tail(wire)
            /\ UNCHANGED <<queue, inbox>>
    /\ UNCHANGED <<conn, context, closer, held, link, faults, torn, served>>

\* The stream ended under an outstanding request.
ReadEof ==
    /\ actor.ph = "read" /\ wire = <<>> /\ link = "eof"
    /\ Die(Reply(actor.cur, "lost"))
    /\ UNCHANGED <<conn, context, streak, closer, held, link, faults, torn, mute, served>>

\* The deadline elapsed with no frame: a timeout, or the last of the consecutive ones.
ReadTimeout ==
    /\ actor.ph = "read" /\ wire = <<>> /\ link # "eof" /\ req[actor.cur].left <= 0
    /\ streak' = streak + 1
    /\ IF streak' >= MaxConsecutive
       THEN Die(Reply(actor.cur, "lost"))
       ELSE /\ req' = Reply(actor.cur, "timeout")
            /\ actor' = Rest
            /\ UNCHANGED <<queue, inbox, wire>>
    /\ UNCHANGED <<conn, context, closer, held, link, faults, torn, mute, served>>

\* UnRegisterSession: a bounded courtesy write, then the actor and the socket are gone.
Unregister ==
    /\ actor.ph = "idle" /\ queue # <<>> /\ Head(queue) = UnregisterCmd
    /\ Die(req)
    /\ UNCHANGED <<conn, context, streak, closer, held, link, faults, torn, mute, served>>

\* rx.recv() returns None: the last strong sender is gone.
SendersGone ==
    /\ actor.ph = "idle" /\ queue = <<>> /\ ~held
    /\ Die(req)
    /\ UNCHANGED <<conn, context, streak, closer, held, link, faults, torn, mute, served>>

----------------------------------------------------------------------------
(* close() and the handles *)

Close == /\ conn.ph = "up" /\ held /\ closer.ph = "none"
         /\ closer' = IF conn.class3 THEN [closer EXCEPT !.ph = "fclose"]
                      ELSE [ph |-> "handoff", left |-> 1]
         /\ UNCHANGED <<conn, req, queue, actor, context, streak, held, link, inbox, wire,
                        faults, torn, mute, served>>

\* The ForwardClose is best effort: any verdict moves on.
CloseForwardDone ==
    /\ closer.ph = "fclose" /\ req["fclose"].ph = "done"
    /\ closer' = [ph |-> "handoff", left |-> 1]
    /\ UNCHANGED <<conn, req, queue, actor, context, streak, held, link, inbox, wire,
                   faults, torn, mute, served>>

\* The Unregister command finds a slot, or the actor is gone.
CloseHandoff ==
    /\ closer.ph = "handoff"
    /\ \/ /\ actor.ph # "dead" /\ Len(queue) < QueueCap
          /\ queue' = Append(queue, UnregisterCmd)
          /\ closer' = [closer EXCEPT !.ph = "ack"]
       \/ /\ actor.ph = "dead"
          /\ closer' = [ph |-> "done", left |-> 0]
          /\ UNCHANGED queue
    /\ UNCHANGED <<conn, req, actor, context, streak, held, link, inbox, wire, faults, torn, mute, served>>

\* done_tx fired or was dropped with the actor, or CLOSE_HANDOFF_DEADLINE elapsed.
CloseEnds ==
    /\ \/ closer.ph = "ack" /\ actor.ph = "dead"
       \/ closer.ph \in {"handoff", "ack"} /\ closer.left = 0
    /\ closer' = [ph |-> "done", left |-> 0]
    /\ UNCHANGED <<conn, req, queue, actor, context, streak, held, link, inbox, wire,
                   faults, torn, mute, served>>

\* The last client handle is dropped: no call may borrow it any more.
DropHandle ==
    /\ conn.ph = "up" /\ held
    /\ closer.ph \in {"none", "done"}
    /\ \A r \in Reqs : ~Active(r)
    /\ held' = FALSE
    /\ UNCHANGED <<conn, req, queue, actor, context, streak, closer, link, inbox, wire,
                   faults, torn, mute, served>>

----------------------------------------------------------------------------
(* The target (external) and the clock *)

Answer(f) == [ctx |-> f.ctx, cmd |-> f.cmd, seq |-> f.seq, for |-> f.for,
              handle |-> TRUE, options |-> 0, status |-> "ok"]

\* The echoes a request is owed; the discovery commands are not bound to a session, and only
\* connected messages carry a sequence.
Answers(a, f) == /\ a.ctx = f.ctx /\ a.cmd = f.cmd /\ a.options = 0 /\ a.status = "ok"
                 /\ a.handle \/ f.cmd = "list"
                 /\ a.seq = f.seq \/ f.cmd # "unit"

\* An answer to a request it holds, whenever it likes.
PeerReplies ==
    /\ link = "up"
    /\ \E f \in inbox : /\ wire' = Append(wire, Answer(f))
                        /\ inbox' = inbox \ {f}
                        /\ served' = served \cup {f.for}
    /\ UNCHANGED <<conn, req, queue, actor, context, streak, closer, held, link, faults, torn, mute>>

\* A duplicate, a never-issued context, a wrong echo, non-zero options, an encapsulation
\* error, a foreign connected sequence.
PeerMisreplies ==
    /\ link = "up" /\ faults < MaxFaults
    /\ \E f \in inbox :
         \E bad \in { Answer(f),
                      [Answer(f) EXCEPT !.ctx = 0],
                      [Answer(f) EXCEPT !.cmd = IF f.cmd = "rr" THEN "unit" ELSE "rr"],
                      [Answer(f) EXCEPT !.handle = FALSE],
                      [Answer(f) EXCEPT !.options = 1],
                      [Answer(f) EXCEPT !.status = "error"],
                      [Answer(f) EXCEPT !.status = "invalid_session"],
                      [Answer(f) EXCEPT !.seq = f.seq + 1] } :
           /\ wire' = Append(wire, bad)
           /\ served' = IF Answers(bad, f) THEN served \cup {f.for} ELSE served
    /\ faults' = faults + 1
    /\ UNCHANGED <<conn, req, queue, actor, context, streak, closer, held, link, inbox, torn, mute>>

PeerStalls ==
    /\ actor.ph # "dead" /\ link = "up" /\ faults < MaxFaults
    /\ link' = "stalled" /\ faults' = faults + 1
    /\ UNCHANGED <<conn, req, queue, actor, context, streak, closer, held, inbox, wire, torn, mute, served>>

PeerResumes ==
    /\ actor.ph # "dead" /\ link = "stalled" /\ link' = "up"
    /\ UNCHANGED <<conn, req, queue, actor, context, streak, closer, held, inbox, wire,
                   faults, torn, mute, served>>

PeerHangsUp ==
    /\ actor.ph # "dead" /\ link # "eof" /\ faults < MaxFaults
    /\ link' = "eof" /\ faults' = faults + 1
    /\ UNCHANGED <<conn, req, queue, actor, context, streak, closer, held, inbox, wire, torn, mute, served>>

Sooner(n) == IF n > 0 THEN n - 1 ELSE n

Tick ==
    /\ conn' = IF conn.ph \in {"up", "failed"} THEN conn ELSE [conn EXCEPT !.left = Sooner(@)]
    /\ req' = [r \in Reqs |-> IF (Active(r) \/ actor.cur = r) /\ req[r].left >= 0
                              THEN [req[r] EXCEPT !.left = @ - 1] ELSE req[r]]
    /\ closer' = IF closer.ph \in {"handoff", "ack"} THEN [closer EXCEPT !.left = Sooner(@)] ELSE closer
    /\ <<conn, req, closer>>' # <<conn, req, closer>>
    /\ UNCHANGED <<queue, actor, context, streak, held, link, inbox, wire, faults, torn, mute, served>>

----------------------------------------------------------------------------
Connecting == Dial \/ Register \/ ConnectEnds \/ OpenAnswered \/ UndoAnswered
Acting == Take \/ Write \/ Read \/ ReadEof \/ ReadTimeout \/ Unregister \/ SendersGone
Calling(r) == Issue(r) \/ Enqueue(r) \/ Backstop(r) \/ Abandon(r)
Closing == Close \/ CloseForwardDone \/ CloseHandoff \/ CloseEnds \/ DropHandle
Peer == PeerReplies \/ PeerMisreplies \/ PeerStalls \/ PeerResumes \/ PeerHangsUp

Next == \/ Connecting \/ Acting \/ Closing \/ Peer \/ Tick
        \/ \E r \in Reqs : Calling(r)

\* The runtime polls every ready task and time passes; users, the target and the drop of the
\* last handle owe nothing.
Fairness ==
    /\ WF_vars(Tick) /\ WF_vars(Acting)
    /\ WF_vars(ConnectEnds) /\ WF_vars(OpenAnswered) /\ WF_vars(UndoAnswered)
    /\ WF_vars(CloseForwardDone) /\ WF_vars(CloseHandoff) /\ WF_vars(CloseEnds)
    /\ \A r \in Own : WF_vars(Issue(r))
    /\ \A r \in Reqs : WF_vars(Enqueue(r)) /\ WF_vars(Backstop(r))

Spec == Init /\ [][Next]_vars /\ Fairness

----------------------------------------------------------------------------
(* Properties *)

\* The session implements the abstract request/reply service of Rpc: a call ends with
\* the actor's verdict or when its caller gave up.
R == INSTANCE Rpc WITH
       Calls <- Reqs,
       alive <- actor.ph # "dead",
       phase <- [r \in Reqs |-> IF req[r].ph = "new" THEN "new"
                                ELSE IF req[r].ph = "done" THEN req[r].out
                                ELSE "pending"]

\* transaction() as a whole keeps Rpc's promise: a late, duplicated or wrongly labelled reply is
\* never delivered as the answer to another request, ConnectionLost and Closed are only said of a
\* session that is over, and every call ends, whatever the target does.
ImplementsRpc == R!Spec

\* After a request frame was cut short by its deadline the framing is lost: nothing more is ever
\* written to that stream, even when the peer starts reading again (session.rs, "sever, do not
\* quarantine").
TornStreamIsSilent == [][torn => inbox' \subseteq inbox]_vars

\* The kill counter measures the target's silence only: it never exceeds the request frames really
\* written since the last correlated reply, so requests that expired in the command queue cannot
\* declare a responsive target dead.
StreakIsSilence == streak <= mute

\* A session nobody holds ends: neither a failed or cancelled connect nor the drop of the last
\* handle leaves the actor and its socket behind.
NoOrphanActor == ~held ~> actor.ph \in {"none", "dead"}

============================================================================
