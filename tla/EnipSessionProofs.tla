-------------------------- MODULE EnipSessionProofs --------------------------
(***************************************************************************)
(* The explicit-messaging session, for any number of requests, any channel *)
(* capacity and any misbehaviour of the target: every step of it is a step *)
(* of the request/reply service Rpc or invisible to it, a torn stream is   *)
(* never written to again, and the kill counter measures silence only.     *)
(* Beside it: the keepalive feeds the target's watchdog within its window, *)
(* the diagnostics of a connect never decide it, and the event queue loses *)
(* neither an event nor a wake-up.                                         *)
(***************************************************************************)
EXTENDS Enip, QueueTheorems, FiniteSetTheorems, TLAPS

Outs == {"none", "ok", "timeout", "encap", "violation", "abandoned", "lost", "closed", "poisoned"}
Cmds == {"rr", "unit", "list"}
Transaction == [ph : {"new", "sending", "waiting", "done"}, left : Int, seq : Nat, out : Outs]
Request == [ctx : Nat, cmd : Cmds, seq : Nat, for : Reqs]
Response == [ctx : Nat, cmd : Cmds, seq : Nat, for : Reqs, handle : BOOLEAN, options : Nat,
             status : {"ok", "error", "invalid_session"}]

Connection == [ph : {"dial", "register", "class3", "undo", "up", "failed"}, left : Int, class3 : BOOLEAN]

SessionTypes ==
    /\ conn \in Connection
    /\ req \in [Reqs -> Transaction]
    /\ queue \in Seq(Reqs \cup {UnregisterCmd})
    /\ actor \in [ph : {"none", "idle", "write", "read", "dead"}, cur : Reqs \cup {"none"}]
    /\ context \in Nat /\ streak \in Nat /\ mute \in Nat
    /\ closer \in [ph : {"none", "fclose", "handoff", "ack", "done"}, left : Int]
    /\ held \in BOOLEAN /\ torn \in BOOLEAN /\ link \in {"up", "stalled", "eof"}
    /\ inbox \subseteq Request /\ wire \in Seq(Response) /\ served \subseteq Reqs

New(r) == req[r].ph = "new"

\* While connect() runs, only its own transactions exist, one at a time, and
\* there is no actor before the session is registered.
Opening ==
    /\ conn.ph \in {"dial", "register"} => actor.ph = "none" /\ \A r \in Reqs : New(r)
    /\ conn.ph = "class3" => \A r \in Reqs : r # "open" => New(r)
    /\ conn.ph = "undo" => req["open"].ph = "done" /\ \A r \in Reqs : r \notin {"open", "undo"} => New(r)
    /\ conn.ph # "up" => closer.ph = "none"

\* What is queued or in hand was issued.
Issued ==
    /\ \A r \in Reqs : In(r, queue) => ~New(r)
    /\ actor.ph \in {"write", "read"} => actor.cur \in Reqs /\ ~New(actor.cur) /\ context > 0

\* A frame that carries the current context belongs to the request in hand.
OfNow(f) ==
    /\ f.ctx <= context
    /\ actor.ph = "write" => f.ctx < context
    /\ (actor.ph = "read" /\ f.ctx = context) => f.for = actor.cur

\* A reply that nothing in its header gives away.
Genuine(h) ==
    /\ h.ctx # 0 /\ h.options = 0 /\ h.status = "ok" /\ h.cmd = Cmd(h.for)
    /\ h.handle \/ h.cmd = "list"
    /\ h.cmd = "unit" => h.seq = req[h.for].seq

\* The frames on the stream: each request was issued as it says, and a genuine
\* reply was sent by the target for that request.
Correlated ==
    /\ \A f \in inbox : /\ OfNow(f) /\ f.ctx > 0 /\ f.cmd = Cmd(f.for)
                        /\ ~New(f.for) /\ f.seq = req[f.for].seq
    /\ \A h \in Response : In(h, wire) => OfNow(h) /\ ~New(h.for) /\ (Genuine(h) => h.for \in served)

\* A torn stream has no actor, and an unanswered frame is not yet in the streak.
StreamEnds ==
    /\ torn => actor.ph = "dead"
    /\ streak <= mute
    /\ actor.ph = "read" => streak < mute

SessionInv == SessionTypes /\ Opening /\ Issued /\ Correlated /\ StreamEnds

-----------------------------------------------------------------------------
(* The transaction table and the command channel *)

\* The channel that died with its receiver holds nothing.
LEMMA NothingIn == \A x : ~In(x, <<>>)
<1>1. Len(<<>>) = 0
  OBVIOUS
<1> QED BY <1>1 DEF In

\* The sentinels are no requests.
LEMMA Names == "none" \notin Reqs /\ UnregisterCmd \notin Reqs /\ Own \subseteq Reqs /\ Users \subseteq Reqs
BY UsersAssumption DEF Reqs, Own, UnregisterCmd

\* Every request has an encapsulation command.
LEMMA CmdType == SessionTypes => \A r \in Reqs : Cmd(r) \in Cmds
BY AsksAssumption DEF Cmd, Cmds, Reqs, Own, SessionTypes, Connection

\* reply_tx.send: one transaction ends, unless its caller was gone already.
LEMMA EndedFacts ==
    ASSUME NEW rq \in [Reqs -> Transaction], NEW r \in Reqs, NEW v \in Outs
    PROVE  /\ Ended(rq, r, v) \in [Reqs -> Transaction]
           /\ \A x \in Reqs : x # r => Ended(rq, r, v)[x] = rq[x]
           /\ Ended(rq, r, v)[r].ph = "done" /\ Ended(rq, r, v)[r].seq = rq[r].seq
           /\ Ended(rq, r, v)[r].out = IF rq[r].ph = "done" THEN rq[r].out ELSE v
<1> DEFINE t == [ph |-> "done", left |-> 0, seq |-> rq[r].seq, out |-> IF rq[r].ph = "done" THEN rq[r].out ELSE v]
<1>1. rq[r] \in Transaction
  OBVIOUS
<1>2. t \in Transaction
  BY <1>1 DEF Transaction
<1>3. Ended(rq, r, v) = [rq EXCEPT ![r] = t]
  <2> DEFINE o == IF rq[r].ph = "done" THEN rq[r].out ELSE v
             a == [rq EXCEPT ![r] = [rq[r] EXCEPT !.left = 0]]
             b == [a EXCEPT ![r] = [a[r] EXCEPT !.ph = "done"]]
             e == [b EXCEPT ![r] = [b[r] EXCEPT !.out = o]]
  <2>1. a[r] = [rq[r] EXCEPT !.left = 0] /\ b[r] = [a[r] EXCEPT !.ph = "done"] /\ e[r] = [b[r] EXCEPT !.out = o]
    OBVIOUS
  <2>2. e[r] = t
    BY <1>1, <2>1 DEF Transaction
  <2>3. e = [rq EXCEPT ![r] = e[r]]
    OBVIOUS
  <2>4. Ended(rq, r, v) = e
    BY <1>1 DEF Ended, Transaction
  <2> QED BY <2>2, <2>3, <2>4
<1>4. t.ph = "done" /\ t.seq = rq[r].seq /\ t.out = IF rq[r].ph = "done" THEN rq[r].out ELSE v
  OBVIOUS
<1> HIDE DEF t
<1> QED BY <1>2, <1>3, <1>4

\* The actor's end closes every queued transaction.
LEMMA DieFacts ==
    ASSUME SessionTypes, NEW rq \in [Reqs -> Transaction], Die(rq)
    PROVE  /\ actor' = [ph |-> "dead", cur |-> "none"] /\ queue' = <<>> /\ inbox' = {} /\ wire' = <<>>
           /\ req' \in [Reqs -> Transaction]
           /\ \A r \in Reqs : /\ req'[r].seq = rq[r].seq
                              /\ ~In(r, queue) => req'[r] = rq[r]
                              /\ In(r, queue) => /\ req'[r].ph = "done"
                                                 /\ req'[r].out = IF rq[r].ph = "done" THEN rq[r].out ELSE "closed"
<1> DEFINE Q == {queue[i] : i \in 1..Len(queue)}
<1>1. \A r : r \in Q <=> In(r, queue)
  BY DEF In
<1>2. req' = [r \in Reqs |-> IF r \in Q THEN Ended(rq, r, "closed")[r] ELSE rq[r]]
  BY DEF Die
<1>3. "closed" \in Outs
  BY DEF Outs
<1>4. \A r \in Reqs : /\ Ended(rq, r, "closed")[r] \in Transaction
                      /\ Ended(rq, r, "closed")[r].ph = "done" /\ Ended(rq, r, "closed")[r].seq = rq[r].seq
                      /\ Ended(rq, r, "closed")[r].out = IF rq[r].ph = "done" THEN rq[r].out ELSE "closed"
  BY <1>3, EndedFacts
<1> HIDE DEF Q
<1>5. req' \in [Reqs -> Transaction]
  BY <1>2, <1>4
<1> QED BY <1>1, <1>2, <1>4, <1>5 DEF Die

-----------------------------------------------------------------------------
(* Steps of the request/reply service *)

\* What a caller sees of its call.
View == [r \in Reqs |-> IF req[r].ph = "new" THEN "new" ELSE IF req[r].ph = "done" THEN req[r].out ELSE "pending"]

Dead == actor.ph = "dead"

\* Nothing a caller sees changes.
LEMMA RpcStutter ==
    ASSUME View' = View, served' = served, Dead' = Dead
    PROVE  UNCHANGED R!vars
BY DEF R!vars, View, Dead

\* A call begins, or is refused by a session that is over.
LEMMA RpcBegin ==
    ASSUME NEW c \in Reqs, View[c] = "new", NEW v, View' = [View EXCEPT ![c] = v],
           v = "pending" \/ (Dead /\ v = "closed"), served' = served, Dead' = Dead
    PROVE  R!Next
<1>1. R!Begin(c)
  BY DEF R!Begin, R!Final, View, Dead
<1> QED BY <1>1 DEF R!Next

\* The target answers a call that was begun.
LEMMA RpcServe ==
    ASSUME NEW c \in Reqs, View[c] # "new", View' = View, served' = served \cup {c}, Dead' = Dead
    PROVE  R!Next
<1>1. R!Serve(c)
  BY DEF R!Serve, View, Dead
<1> QED BY <1>1 DEF R!Next

\* A call ends with its answer.
LEMMA RpcAnswer ==
    ASSUME NEW c \in Reqs, View[c] = "pending", View' = [View EXCEPT ![c] = "ok"], c \in served, ~Dead,
           served' = served, Dead' = Dead
    PROVE  R!Next
<1>1. R!Answer(c)
  BY DEF R!Answer, View, Dead
<1> QED BY <1>1 DEF R!Next

\* A call ends without one.
LEMMA RpcGiveUp ==
    ASSUME NEW c \in Reqs, View[c] = "pending", NEW v, View' = [View EXCEPT ![c] = v],
           v \in {"timeout", "encap", "violation", "abandoned"} \/ (Dead /\ v = "closed"),
           served' = served, Dead' = Dead
    PROVE  R!Next
<1>1. R!GiveUp(c)
  BY DEF R!GiveUp, R!Local, R!Final, View, Dead
<1> QED BY <1>1 DEF R!Next

\* The session ends under the calls that wait.
LEMMA RpcSever ==
    ASSUME Dead', served' = served,
           \A c \in Reqs : View'[c] = View[c] \/ (View[c] = "pending" /\ View'[c] \in {"lost", "closed", "poisoned"})
    PROVE  R!Next
<1> DEFINE S == {c \in Reqs : View'[c] # View[c]}
           f == [c \in S |-> View'[c]]
<1>1. f \in [S -> {"lost", "closed", "poisoned"}] /\ \A c \in S : View[c] = "pending"
  OBVIOUS
<1>2. View' = [c \in Reqs |-> IF c \in S THEN f[c] ELSE View[c]]
  BY DEF View
<1>3. S \in SUBSET Reqs
  OBVIOUS
<1> HIDE DEF S, f
<1>4. R!Sever
  BY <1>1, <1>2, <1>3 DEF R!Sever, R!Final, View, Dead
<1> QED BY <1>4 DEF R!Next

-----------------------------------------------------------------------------
(* What the parts of the invariant depend on *)

\* No transaction is issued, taken back or given another sequence.
Progress ==
    /\ req' \in [Reqs -> Transaction]
    /\ \A r \in Reqs : /\ req'[r].ph = "new" <=> req[r].ph = "new"
                       /\ req'[r].seq = req[r].seq
                       /\ req[r].ph = "done" => req'[r].ph = "done"

\* A table that is left alone.
LEMMA SameProgress ==
    ASSUME SessionTypes, req' = req
    PROVE  Progress
BY DEF SessionTypes, Progress

\* One transaction that ends.
LEMMA ReplyProgress ==
    ASSUME SessionTypes, NEW r \in Reqs, ~New(r), NEW v \in Outs, req' = Reply(r, v)
    PROVE  /\ Progress
           /\ \A x \in Reqs : x # r => req'[x] = req[x]
           /\ req'[r].ph = "done" /\ req'[r].out = IF req[r].ph = "done" THEN req[r].out ELSE v
<1> DEFINE rq == Reply(r, v)
<1>1. /\ rq \in [Reqs -> Transaction] /\ \A x \in Reqs : x # r => rq[x] = req[x]
      /\ rq[r].ph = "done" /\ rq[r].seq = req[r].seq
      /\ rq[r].out = IF req[r].ph = "done" THEN req[r].out ELSE v
  BY EndedFacts DEF SessionTypes, Reply
<1>2. req' = rq /\ req[r].ph # "new"
  BY DEF New
<1> HIDE DEF rq
<1>3. Progress
  BY <1>1, <1>2 DEF Progress
<1> QED BY <1>1, <1>2, <1>3

\* The actor ends with a verdict for the transaction in hand.
LEMMA DieReply ==
    ASSUME SessionInv, NEW r \in Reqs, ~New(r), NEW v \in Outs, Die(Reply(r, v))
    PROVE  /\ Progress
           /\ \A x \in Reqs : \/ req'[x] = req[x]
                              \/ /\ req'[x].ph = "done" /\ ~New(x)
                                 /\ req'[x].out = IF req[x].ph = "done" THEN req[x].out ELSE IF x = r THEN v ELSE "closed"
<1> DEFINE rq == Reply(r, v)
<1>1. /\ rq \in [Reqs -> Transaction] /\ \A x \in Reqs : x # r => rq[x] = req[x]
      /\ rq[r].ph = "done" /\ rq[r].seq = req[r].seq
      /\ rq[r].out = IF req[r].ph = "done" THEN req[r].out ELSE v
  BY EndedFacts DEF SessionInv, SessionTypes, Reply
<1> HIDE DEF rq
<1>2. Die(rq) /\ SessionTypes /\ \A x \in Reqs : In(x, queue) => ~New(x)
  BY DEF rq, SessionInv, Issued
<1>3. /\ req' \in [Reqs -> Transaction]
      /\ \A x \in Reqs : /\ req'[x].seq = rq[x].seq
                         /\ ~In(x, queue) => req'[x] = rq[x]
                         /\ In(x, queue) => /\ req'[x].ph = "done"
                                            /\ req'[x].out = IF rq[x].ph = "done" THEN rq[x].out ELSE "closed"
  BY <1>1, <1>2, DieFacts
<1> QED BY <1>1, <1>2, <1>3 DEF Progress, New

\* The actor ends with nothing in hand.
LEMMA DieIdle ==
    ASSUME SessionInv, Die(req)
    PROVE  /\ Progress
           /\ \A x \in Reqs : \/ req'[x] = req[x]
                              \/ /\ req'[x].ph = "done" /\ ~New(x)
                                 /\ req'[x].out = IF req[x].ph = "done" THEN req[x].out ELSE "closed"
<1>1. req \in [Reqs -> Transaction] /\ \A x \in Reqs : In(x, queue) => ~New(x)
  BY DEF SessionInv, SessionTypes, Issued
<1>2. /\ req' \in [Reqs -> Transaction]
      /\ \A x \in Reqs : /\ req'[x].seq = req[x].seq
                         /\ ~In(x, queue) => req'[x] = req[x]
                         /\ In(x, queue) => /\ req'[x].ph = "done"
                                            /\ req'[x].out = IF req[x].ph = "done" THEN req[x].out ELSE "closed"
  BY <1>1, DieFacts DEF SessionInv
<1> QED BY <1>1, <1>2 DEF Progress, New

\* connect()'s record when its phase changes, and when it ends with its budget.
LEMMA ConnChange ==
    ASSUME NEW c \in Connection, NEW d, NEW x \in {"register", "class3", "undo", "up", "failed"},
           d = [c EXCEPT !.ph = x] \/ d = [c EXCEPT !.ph = x, !.left = 0]
    PROVE  d \in Connection /\ d.ph = x /\ d.class3 = c.class3
<1>1. /\ [c EXCEPT !.ph = x] \in Connection
      /\ [c EXCEPT !.ph = x].ph = x /\ [c EXCEPT !.ph = x].class3 = c.class3
  BY DEF Connection
<1>2. CASE d = [c EXCEPT !.ph = x]
  BY <1>1, <1>2
<1>3. CASE d = [c EXCEPT !.ph = x, !.left = 0]
  <2> DEFINE e == [c EXCEPT !.ph = x]
  <2>1. d = [e EXCEPT !.left = 0]
    BY <1>3 DEF Connection
  <2>2. e \in Connection /\ e.ph = x /\ e.class3 = c.class3
    BY <1>1
  <2> HIDE DEF e
  <2> QED BY <2>1, <2>2 DEF Connection
<1> QED BY <1>2, <1>3

\* A failed connect gives up on at most the one transaction it waits for.
LEMMA ConnectFailsFacts ==
    ASSUME SessionInv, ConnectFails
    PROVE  /\ Progress /\ conn' \in Connection /\ conn'.ph = "failed"
           /\ conn'.class3 = conn.class3 /\ held' = FALSE
           /\ \A x \in Reqs : \/ req'[x] = req[x] /\ ~Active(x)
                              \/ req'[x].ph = "done" /\ req'[x].out = "abandoned" /\ Active(x)
<1>1. \A t \in Transaction : LET u == [t EXCEPT !.ph = "done", !.out = "abandoned"] IN
          u \in Transaction /\ u.ph = "done" /\ u.out = "abandoned" /\ u.seq = t.seq
  BY DEF Transaction, Outs
<1>2. req \in [Reqs -> Transaction] /\ conn \in Connection
  BY DEF SessionInv, SessionTypes
<1>3. conn' \in Connection /\ conn'.ph = "failed" /\ conn'.class3 = conn.class3 /\ held' = FALSE
  <2>1. conn' = [conn EXCEPT !.ph = "failed", !.left = 0]
    BY DEF ConnectFails
  <2>2. conn' \in Connection /\ conn'.ph = "failed" /\ conn'.class3 = conn.class3
    BY <1>2, <2>1, ConnChange
  <2>3. held' = FALSE
    BY DEF ConnectFails
  <2> QED BY <2>2, <2>3
<1>4. req' = [r \in Reqs |-> IF Active(r) THEN [req[r] EXCEPT !.ph = "done", !.out = "abandoned"] ELSE req[r]]
  BY DEF ConnectFails
<1>5. ASSUME NEW x \in Reqs
      PROVE  /\ req'[x] \in Transaction /\ req'[x].seq = req[x].seq
             /\ \/ req'[x] = req[x] /\ ~Active(x)
                \/ req'[x].ph = "done" /\ req'[x].out = "abandoned" /\ Active(x)
  BY <1>1, <1>2, <1>4
<1>6. Progress
  BY <1>4, <1>5 DEF Progress, Active
<1> QED BY <1>3, <1>5, <1>6

\* Opening depends on the table only through what was issued.
LEMMA OpeningKept ==
    ASSUME SessionInv, Progress, conn'.ph = conn.ph, closer'.ph = closer.ph \/ conn.ph = "up",
           actor'.ph = actor.ph \/ actor.ph # "none"
    PROVE  Opening'
BY Names DEF SessionInv, Opening, Progress, New, Own

\* Issued: the channel and the actor's hand do not take anything new.
LEMMA IssuedKept ==
    ASSUME SessionInv, Progress, \A r \in Reqs : In(r, queue') => In(r, queue),
           actor'.ph \in {"write", "read"} =>
               actor'.cur = actor.cur /\ actor.ph \in {"write", "read"} /\ context' = context
    PROVE  Issued'
BY DEF SessionInv, Issued, Progress, New

\* Correlated: no frame is added.
LEMMA CorrelatedKept ==
    ASSUME SessionInv, Progress, conn'.class3 = conn.class3, inbox' \subseteq inbox,
           \A h \in Response : In(h, wire') => In(h, wire),
           context' = context, served \subseteq served',
           actor'.ph \in {"write", "read"} => actor' = actor
    PROVE  Correlated'
<1>1. \A r \in Reqs : Cmd(r)' = Cmd(r)
  BY DEF Cmd
<1>2. /\ \A f \in inbox : f \in Request /\ f.for \in Reqs
      /\ \A h \in Response : h.for \in Reqs
  BY DEF SessionInv, SessionTypes, Request, Response
<1>3. ASSUME NEW f \in inbox'
      PROVE  OfNow(f)' /\ f.ctx > 0 /\ f.cmd = Cmd(f.for)' /\ ~New(f.for)' /\ f.seq = req'[f.for].seq
  <2>1. f \in inbox /\ f.for \in Reqs /\ Cmd(f.for)' = Cmd(f.for)
    BY <1>1, <1>2, <1>3
  <2> QED BY <2>1 DEF SessionInv, Correlated, OfNow, New, Progress
<1>4. ASSUME NEW h \in Response, In(h, wire')
      PROVE  OfNow(h)' /\ ~New(h.for)' /\ (Genuine(h)' => h.for \in served')
  <2>1. In(h, wire) /\ h.for \in Reqs /\ Cmd(h.for)' = Cmd(h.for)
    BY <1>1, <1>2, <1>4
  <2>2. Genuine(h)' => Genuine(h)
    BY <2>1 DEF Genuine, Progress
  <2> QED BY <2>1, <2>2 DEF SessionInv, Correlated, OfNow, New, Progress
<1> QED BY <1>3, <1>4 DEF Correlated

\* Correlated: the stream is gone.
LEMMA CorrelatedDead ==
    ASSUME inbox' = {}, wire' = <<>>
    PROVE  Correlated'
BY NothingIn DEF Correlated

-----------------------------------------------------------------------------
(* Whole steps: the invariant is kept and the service moves or stands still *)

Sim == R!Next \/ UNCHANGED R!vars

\* Callers see the same when no transaction is issued or ended.
LEMMA SameView ==
    ASSUME \A r \in Reqs : /\ req'[r].ph = "new" <=> req[r].ph = "new"
                           /\ req'[r].ph = "done" <=> req[r].ph = "done"
                           /\ req[r].ph = "done" => req'[r].out = req[r].out
    PROVE  View' = View
BY DEF View

\* One caller sees something else.
LEMMA OneView ==
    ASSUME NEW r \in Reqs, \A x \in Reqs : x # r => req'[x] = req[x]
    PROVE  View' = [View EXCEPT ![r] = View'[r]]
BY DEF View

\* Steps the callers do not see.
LEMMA Unseen ==
    ASSUME View' = View, served' = served, Dead' = Dead
    PROVE  Sim
BY RpcStutter DEF Sim

\* The steps of the target and of close(): the transactions, the actor and
\* connect() are left alone, and no frame is added.
LEMMA Bystander ==
    ASSUME SessionInv, UNCHANGED <<conn, req, actor, context, streak, inbox, wire, torn, mute, served>>,
           closer'.ph = closer.ph \/ conn.ph = "up", closer' \in [ph : {"none", "fclose", "handoff", "ack", "done"}, left : Int],
           queue' \in Seq(Reqs \cup {UnregisterCmd}), \A r \in Reqs : In(r, queue') => In(r, queue),
           held' \in BOOLEAN, link' \in {"up", "stalled", "eof"}
    PROVE  SessionInv' /\ Sim
<1>1. Progress
  BY SameProgress DEF SessionInv
<1>2. Opening' /\ Issued' /\ Correlated'
  BY <1>1, OpeningKept, IssuedKept, CorrelatedKept
<1>3. SessionTypes'
  BY DEF SessionInv, SessionTypes
<1>4. StreamEnds'
  BY DEF SessionInv, StreamEnds
<1>5. View' = View /\ Dead' = Dead
  BY DEF View, Dead
<1> QED BY <1>2, <1>3, <1>4, <1>5, Unseen DEF SessionInv

\* A failed connect: the one transaction it waited for is given up.
LEMMA FailStep ==
    ASSUME SessionInv, ConnectFails, conn.ph \in {"dial", "register", "class3", "undo"},
           UNCHANGED <<queue, actor, context, streak, closer, link, inbox, wire, torn, mute, served>>
    PROVE  SessionInv' /\ Sim
<1>1. /\ Progress /\ conn' \in Connection /\ conn'.ph = "failed" /\ conn'.class3 = conn.class3 /\ held' = FALSE
      /\ \A x \in Reqs : \/ req'[x] = req[x] /\ ~Active(x)
                         \/ req'[x].ph = "done" /\ req'[x].out = "abandoned" /\ Active(x)
  BY ConnectFailsFacts
<1>2. Issued' /\ Correlated'
  BY <1>1, IssuedKept, CorrelatedKept
<1>3. Opening'
  BY <1>1 DEF SessionInv, Opening
<1>4. SessionTypes'
  BY <1>1 DEF SessionInv, SessionTypes, Progress
<1>5. StreamEnds'
  BY DEF SessionInv, StreamEnds
<1>6. PICK c \in Reqs : \A x \in Reqs : x # c => ~Active(x)
  <2>1. "open" \in Reqs /\ "undo" \in Reqs
    BY Names DEF Own
  <2>2. \A x \in Reqs : New(x) => ~Active(x)
    BY DEF New, Active
  <2>3. req["open"].ph = "done" => ~Active("open")
    BY DEF Active
  <2> QED BY <2>1, <2>2, <2>3 DEF SessionInv, Opening
<1>7. \A x \in Reqs : x # c => req'[x] = req[x]
  BY <1>1, <1>6
<1>8. Dead' = Dead
  BY DEF Dead
<1>9. CASE Active(c)
  <2>1. View[c] = "pending" /\ View'[c] = "abandoned"
    BY <1>1, <1>9 DEF Active, View
  <2>2. View' = [View EXCEPT ![c] = "abandoned"]
    BY <1>7, <2>1, OneView
  <2> QED BY <1>2, <1>3, <1>4, <1>5, <1>8, <2>1, <2>2, RpcGiveUp DEF SessionInv, Sim
<1>10. CASE ~Active(c)
  <2>1. \A x \in Reqs : req'[x] = req[x]
    BY <1>1, <1>7, <1>10
  <2>2. View' = View
    BY <2>1, SameView
  <2> QED BY <1>2, <1>3, <1>4, <1>5, <1>8, <2>2, Unseen DEF SessionInv
<1> QED BY <1>9, <1>10

\* The actor ends with a verdict for the transaction in hand, or with none.
LEMMA DieStep ==
    ASSUME SessionInv, actor.ph # "none", actor.ph # "dead",
           \/ Die(req)
           \/ \E r \in Reqs, v \in {"lost", "poisoned"} : ~New(r) /\ Die(Reply(r, v)),
           UNCHANGED <<conn, context, closer, held, link, served>>,
           streak' \in Nat, mute' \in Nat, streak' <= mute', torn' \in BOOLEAN
    PROVE  SessionInv' /\ Sim
<1>1. /\ Progress
      /\ \A x \in Reqs : \/ req'[x] = req[x]
                         \/ /\ req'[x].ph = "done" /\ ~New(x)
                            /\ req'[x].out = req[x].out \/ req[x].ph # "done"
                            /\ req[x].ph # "done" => req'[x].out \in {"lost", "poisoned", "closed"}
  <2>1. CASE Die(req)
    BY <2>1, DieIdle
  <2>2. CASE \E r \in Reqs, v \in {"lost", "poisoned"} : ~New(r) /\ Die(Reply(r, v))
    <3>1. PICK r \in Reqs, v \in {"lost", "poisoned"} : ~New(r) /\ Die(Reply(r, v))
      BY <2>2
    <3>2. v \in Outs
      BY DEF Outs
    <3>3. /\ Progress
          /\ \A x \in Reqs : \/ req'[x] = req[x]
                             \/ /\ req'[x].ph = "done" /\ ~New(x)
                                /\ req'[x].out = IF req[x].ph = "done" THEN req[x].out ELSE IF x = r THEN v ELSE "closed"
      BY <3>1, <3>2, DieReply
    <3> QED BY <3>3
  <2> QED BY <2>1, <2>2
<1>2. actor' = [ph |-> "dead", cur |-> "none"] /\ queue' = <<>> /\ inbox' = {} /\ wire' = <<>>
  BY DEF Die
<1>3. Opening' /\ Correlated'
  BY <1>1, <1>2, OpeningKept, CorrelatedDead
<1>4. Issued'
  BY <1>1, <1>2, IssuedKept, NothingIn
<1>5. SessionTypes'
  <2>1. <<>> \in Seq(Reqs \cup {UnregisterCmd}) /\ <<>> \in Seq(Response)
    OBVIOUS
  <2> QED BY <1>1, <1>2, <2>1 DEF SessionInv, SessionTypes, Progress
<1>6. StreamEnds'
  BY <1>2 DEF StreamEnds
<1>7. Dead'
  BY <1>2 DEF Dead
<1>8. \A c \in Reqs : View'[c] = View[c] \/ (View[c] = "pending" /\ View'[c] \in {"lost", "closed", "poisoned"})
  BY <1>1 DEF View, New
<1>9. R!Next
  BY <1>7, <1>8, RpcSever
<1> QED BY <1>3, <1>4, <1>5, <1>6, <1>9 DEF SessionInv, Sim

\* A call that waits, or whose caller left, is given a verdict by a session that goes on; "ok"
\* needs the target's answer, Closed a session that is over.
LEMMA VerdictSim ==
    ASSUME NEW r \in Reqs, ~New(r), \A x \in Reqs : x # r => req'[x] = req[x],
           req'[r].ph = "done", NEW v, req'[r].out = IF req[r].ph = "done" THEN req[r].out ELSE v,
           \/ v \in {"timeout", "encap", "violation", "abandoned"}
           \/ v = "ok" /\ r \in served /\ ~Dead
           \/ v = "closed" /\ Dead,
           served' = served, Dead' = Dead
    PROVE  Sim
<1>1. CASE req[r].ph = "done"
  <2>1. View' = View
    BY <1>1, SameView
  <2> QED BY <2>1, Unseen
<1>2. CASE req[r].ph # "done"
  <2>1. View[r] = "pending" /\ View'[r] = v
    BY <1>2 DEF View, New
  <2>2. View' = [View EXCEPT ![r] = v]
    BY <2>1, OneView
  <2> QED BY <2>1, <2>2, RpcGiveUp, RpcAnswer DEF Sim
<1> QED BY <1>1, <1>2

-----------------------------------------------------------------------------
(* Opening a session *)

\* Nothing is issued, queued or on the stream at the start.
LEMMA InitSession == Init => SessionInv /\ R!Init
<1> SUFFICES ASSUME Init PROVE SessionInv /\ R!Init
  OBVIOUS
<1>1. Idle \in Transaction /\ Idle.ph = "new"
  BY DEF Idle, Transaction, Outs
<1>2. req \in [Reqs -> Transaction] /\ \A r \in Reqs : New(r)
  BY <1>1 DEF Init, New
<1>3. conn \in Connection /\ conn.ph = "dial"
  BY TimeoutAssumption DEF Init, Connection
<1>4. closer.ph = "none" /\ actor.ph = "none" /\ queue = <<>> /\ wire = <<>> /\ inbox = {} /\ torn = FALSE
  BY DEF Init
<1>5. SessionTypes
  <2>0. held \in BOOLEAN /\ torn \in BOOLEAN
    BY Zenon DEF Init
  <2>1. /\ actor \in [ph : {"none", "idle", "write", "read", "dead"}, cur : Reqs \cup {"none"}]
        /\ closer \in [ph : {"none", "fclose", "handoff", "ack", "done"}, left : Int]
    BY DEF Init
  <2>2. queue \in Seq(Reqs \cup {UnregisterCmd}) /\ wire \in Seq(Response)
    BY DEF Init
  <2>3. link \in {"up", "stalled", "eof"} /\ inbox \subseteq Request /\ served \subseteq Reqs
    BY DEF Init
  <2>4. context \in Nat /\ streak \in Nat /\ mute \in Nat
    BY DEF Init
  <2> QED BY <1>2, <1>3, <2>0, <2>1, <2>2, <2>3, <2>4 DEF SessionTypes
<1>6. Opening /\ Issued /\ Correlated /\ StreamEnds
  BY <1>2, <1>3, <1>4, NothingIn DEF Opening, Issued, Correlated, StreamEnds, Init
<1>7. [r \in Reqs |-> IF req[r].ph = "new" THEN "new" ELSE IF req[r].ph = "done" THEN req[r].out ELSE "pending"]
      = [r \in Reqs |-> "new"]
  BY <1>2 DEF New
<1>8. R!Init
  BY <1>7 DEF R!Init, Init
<1> QED BY <1>5, <1>6, <1>8 DEF SessionInv

\* connect() goes on: no transaction changes and the actor is at most started.
LEMMA ConnectStep ==
    ASSUME SessionInv, conn' \in Connection, conn'.class3 = conn.class3, Opening',
           UNCHANGED <<req, queue, context, streak, closer, held, link, inbox, wire, torn, mute, served>>,
           actor' = actor \/ (actor.ph = "none" /\ actor'.ph = "idle" /\ actor'.cur = actor.cur),
           actor' \in [ph : {"none", "idle", "write", "read", "dead"}, cur : Reqs \cup {"none"}]
    PROVE  SessionInv' /\ Sim
<1>1. Progress
  BY SameProgress DEF SessionInv
<1>2. Issued' /\ Correlated'
  BY <1>1, IssuedKept, CorrelatedKept
<1>3. SessionTypes'
  BY DEF SessionInv, SessionTypes
<1>4. StreamEnds'
  BY DEF SessionInv, StreamEnds
<1>5. View' = View /\ Dead' = Dead
  BY DEF View, Dead
<1> QED BY <1>2, <1>3, <1>4, <1>5, Unseen DEF SessionInv

\* Dialling, RegisterSession, and what the answers to the connection's own requests lead to.
LEMMA ConnectingStep == SessionInv /\ Connecting => SessionInv' /\ Sim
<1> SUFFICES ASSUME SessionInv, Connecting PROVE SessionInv' /\ Sim
  OBVIOUS
<1>0. conn \in Connection /\ actor \in [ph : {"none", "idle", "write", "read", "dead"}, cur : Reqs \cup {"none"}]
  BY DEF SessionInv, SessionTypes
<1>1. CASE Dial
  <2>1. conn' = [conn EXCEPT !.ph = "register"] /\ conn.ph = "dial" /\ actor' = actor
    BY <1>1 DEF Dial
  <2>2. conn' \in Connection /\ conn'.ph = "register" /\ conn'.class3 = conn.class3
    BY <1>0, <2>1, ConnChange
  <2>3. Opening'
    BY <1>1, <2>1, <2>2 DEF Dial, SessionInv, Opening, New
  <2> QED BY <1>0, <1>1, <2>1, <2>2, <2>3, ConnectStep DEF Dial
<1>2. CASE Register
  <2>1. conn.ph = "register" /\ actor.ph = "none" /\ \A r \in Reqs : New(r)
    BY <1>2 DEF Register, SessionInv, Opening
  <2>2. CASE ConnectFails /\ UNCHANGED actor
    BY <1>2, <2>1, <2>2, FailStep DEF Register
  <2>3. CASE /\ conn' = IF conn.class3 THEN [conn EXCEPT !.ph = "class3"] ELSE [conn EXCEPT !.ph = "up", !.left = 0]
             /\ actor' = [actor EXCEPT !.ph = "idle"] /\ UNCHANGED <<req, held>>
    <3>1. conn' \in Connection /\ conn'.ph \in {"class3", "up"} /\ conn'.class3 = conn.class3
      <4>1. conn' = [conn EXCEPT !.ph = "class3"] \/ conn' = [conn EXCEPT !.ph = "up", !.left = 0]
        BY <2>3
      <4>2. CASE conn' = [conn EXCEPT !.ph = "class3"]
        BY <1>0, <4>2, ConnChange
      <4>3. CASE conn' = [conn EXCEPT !.ph = "up", !.left = 0]
        BY <1>0, <4>3, ConnChange
      <4> QED BY <4>1, <4>2, <4>3
    <3>2. /\ actor' \in [ph : {"none", "idle", "write", "read", "dead"}, cur : Reqs \cup {"none"}]
          /\ actor'.ph = "idle" /\ actor'.cur = actor.cur
      BY <1>0, <2>3
    <3>3. Opening'
      BY <1>2, <2>1, <2>3, <3>1 DEF Register, SessionInv, Opening, New
    <3> QED BY <1>2, <2>1, <2>3, <3>1, <3>2, <3>3, ConnectStep DEF Register
  <2> QED BY <1>2, <2>2, <2>3 DEF Register
<1>3. CASE ConnectEnds
  BY <1>3, FailStep DEF ConnectEnds
<1>4. CASE OpenAnswered
  <2>1. conn.ph = "class3" /\ req["open"].ph = "done" /\ actor' = actor
    BY <1>4 DEF OpenAnswered
  <2>2. CASE ConnectFails
    BY <1>4, <2>1, <2>2, FailStep DEF OpenAnswered
  <2>3. CASE conn' = [conn EXCEPT !.ph = "up", !.left = 0] /\ UNCHANGED <<req, held>>
    <3>1. conn' \in Connection /\ conn'.ph = "up" /\ conn'.class3 = conn.class3
      BY <1>0, <2>3, ConnChange
    <3>2. Opening'
      BY <3>1 DEF Opening
    <3> QED BY <1>0, <1>4, <2>1, <2>3, <3>1, <3>2, ConnectStep DEF OpenAnswered
  <2>4. CASE conn' = [conn EXCEPT !.ph = "undo"] /\ UNCHANGED <<req, held>>
    <3>1. conn' \in Connection /\ conn'.ph = "undo" /\ conn'.class3 = conn.class3
      BY <1>0, <2>4, ConnChange
    <3>2. Opening'
      BY <1>4, <2>1, <2>4, <3>1 DEF OpenAnswered, SessionInv, Opening, New
    <3> QED BY <1>0, <1>4, <2>1, <2>4, <3>1, <3>2, ConnectStep DEF OpenAnswered
  <2> QED BY <1>4, <2>2, <2>3, <2>4 DEF OpenAnswered
<1>5. CASE UndoAnswered
  BY <1>5, FailStep DEF UndoAnswered
<1> QED BY <1>1, <1>2, <1>3, <1>4, <1>5 DEF Connecting

-----------------------------------------------------------------------------
(* close(), the target's mischief and the clock *)

\* close() and the drop of the last handle.
LEMMA ClosingStep == SessionInv /\ Closing => SessionInv' /\ Sim
<1> SUFFICES ASSUME SessionInv, Closing PROVE SessionInv' /\ Sim
  OBVIOUS
<1>0. /\ closer \in [ph : {"none", "fclose", "handoff", "ack", "done"}, left : Int]
      /\ queue \in Seq(Reqs \cup {UnregisterCmd}) /\ held \in BOOLEAN /\ link \in {"up", "stalled", "eof"}
      /\ closer.ph # "none" => conn.ph = "up"
  BY DEF SessionInv, SessionTypes, Opening
<1>1. CASE Close
  <2>1. closer' \in [ph : {"none", "fclose", "handoff", "ack", "done"}, left : Int]
    BY <1>0, <1>1 DEF Close
  <2> QED BY <1>0, <1>1, <2>1, Bystander DEF Close
<1>2. CASE CloseForwardDone
  BY <1>0, <1>2, Bystander DEF CloseForwardDone
<1>3. CASE CloseHandoff
  <2>1. closer' \in [ph : {"none", "fclose", "handoff", "ack", "done"}, left : Int]
    BY <1>0, <1>3 DEF CloseHandoff
  <2>2. queue' \in Seq(Reqs \cup {UnregisterCmd}) /\ \A r \in Reqs : In(r, queue') => In(r, queue)
    <3>1. CASE queue' = queue
      BY <1>0, <3>1
    <3>2. CASE queue' = Append(queue, UnregisterCmd)
      BY <1>0, <3>2, AppendIn, Names
    <3> QED BY <1>3, <3>1, <3>2 DEF CloseHandoff
  <2> QED BY <1>0, <1>3, <2>1, <2>2, Bystander DEF CloseHandoff
<1>4. CASE CloseEnds
  BY <1>0, <1>4, Bystander DEF CloseEnds
<1>5. CASE DropHandle
  BY <1>0, <1>5, Bystander DEF DropHandle
<1> QED BY <1>1, <1>2, <1>3, <1>4, <1>5 DEF Closing

\* Adding a frame: the old ones stay as they were, the new one is checked.
LEMMA CorrelatedMore ==
    ASSUME SessionInv, Progress, conn' = conn, req' = req, context' = context, actor' = actor,
           served \subseteq served', inbox' \subseteq inbox, NEW h \in Response, wire' = Append(wire, h),
           OfNow(h), ~New(h.for), Genuine(h) => h.for \in served'
    PROVE  Correlated' /\ wire' \in Seq(Response)
<1>1. wire \in Seq(Response) /\ inbox \subseteq Request
  BY DEF SessionInv, SessionTypes
<1>2. wire' \in Seq(Response) /\ \A g : In(g, wire') <=> In(g, wire) \/ g = h
  BY <1>1, AppendIn
<1>3. ASSUME NEW f \in inbox'
      PROVE  OfNow(f)' /\ f.ctx > 0 /\ f.cmd = Cmd(f.for)' /\ ~New(f.for)' /\ f.seq = req'[f.for].seq
  BY <1>3 DEF SessionInv, Correlated, OfNow, New, Cmd
<1>4. ASSUME NEW g \in Response, In(g, wire')
      PROVE  OfNow(g)' /\ ~New(g.for)' /\ (Genuine(g)' => g.for \in served')
  <2>1. OfNow(g)' = OfNow(g) /\ New(g.for)' = New(g.for) /\ Genuine(g)' = Genuine(g)
    BY DEF OfNow, New, Genuine, Cmd
  <2>2. CASE In(g, wire)
    BY <2>1, <2>2 DEF SessionInv, Correlated
  <2>3. CASE g = h
    BY <2>1, <2>3
  <2> QED BY <1>2, <1>4, <2>2, <2>3
<1> QED BY <1>2, <1>3, <1>4 DEF Correlated

\* An answer as the protocol asks, and the target's other replies.
LEMMA PeerStep == SessionInv /\ Peer => SessionInv' /\ Sim
<1> SUFFICES ASSUME SessionInv, Peer PROVE SessionInv' /\ Sim
  OBVIOUS
<1>0. /\ closer \in [ph : {"none", "fclose", "handoff", "ack", "done"}, left : Int]
      /\ queue \in Seq(Reqs \cup {UnregisterCmd}) /\ held \in BOOLEAN /\ link \in {"up", "stalled", "eof"}
      /\ inbox \subseteq Request /\ served \subseteq Reqs
  BY DEF SessionInv, SessionTypes
<1>1. ASSUME NEW f \in inbox, NEW bad, wire' = Append(wire, bad), bad \in Response,
             bad.for = f.for, bad.ctx \in {0, f.ctx}, bad.ctx = 0 \/ (Genuine(bad) => f.for \in served'),
             served' = served \/ served' = served \cup {f.for}, inbox' \subseteq inbox,
             UNCHANGED <<conn, req, queue, actor, context, streak, closer, held, link, torn, mute>>
      PROVE  SessionInv' /\ Sim
  <2>1. Progress
    BY SameProgress, <1>1 DEF SessionInv
  <2>2. f \in Request /\ f.for \in Reqs /\ OfNow(f) /\ ~New(f.for) /\ f.ctx > 0 /\ f.ctx \in Nat /\ context \in Nat
    BY <1>0 DEF SessionInv, SessionTypes, Correlated, Request
  <2>3. OfNow(bad) /\ ~New(bad.for)
    <3>1. context > 0
      BY <2>2 DEF OfNow
    <3> QED BY <1>1, <2>2, <3>1 DEF OfNow
  <2>4. Genuine(bad) => bad.for \in served'
    BY <1>1 DEF Genuine
  <2>5. Correlated' /\ wire' \in Seq(Response)
    BY <1>1, <2>1, <2>3, <2>4, CorrelatedMore
  <2>6. Opening' /\ Issued'
    BY <1>1, <2>1, OpeningKept, IssuedKept
  <2>7. SessionTypes'
    BY <1>0, <1>1, <2>2, <2>5 DEF SessionInv, SessionTypes
  <2>8. StreamEnds'
    BY <1>1 DEF SessionInv, StreamEnds
  <2>9. View' = View /\ Dead' = Dead /\ View[f.for] # "new"
    <3>1. View' = View /\ Dead' = Dead
      BY <1>1 DEF View, Dead
    <3>2. req[f.for].ph # "new" /\ req[f.for] \in Transaction
      BY <2>2 DEF New, SessionInv, SessionTypes
    <3>3. View[f.for] = IF req[f.for].ph = "done" THEN req[f.for].out ELSE "pending"
      BY <2>2, <3>2 DEF View
    <3>4. req[f.for].out # "new"
      BY <3>2 DEF Transaction, Outs
    <3> QED BY <3>1, <3>3, <3>4
  <2>10. Sim
    <3>1. CASE served' = served
      BY <2>9, <3>1, Unseen
    <3>2. CASE served' = served \cup {f.for}
      BY <2>2, <2>9, <3>2, RpcServe DEF Sim
    <3> QED BY <1>1, <3>1, <3>2
  <2> QED BY <2>5, <2>6, <2>7, <2>8, <2>10 DEF SessionInv
<1>2. \A f \in inbox : /\ Answer(f) \in Response /\ Answer(f).for = f.for /\ Answer(f).ctx = f.ctx
                      /\ f \in Request /\ f.cmd = Cmd(f.for) /\ f.seq = req[f.for].seq
  BY <1>0 DEF SessionInv, Correlated, Answer, Request, Response
<1>3. CASE PeerReplies
  <2>1. PICK f \in inbox : wire' = Append(wire, Answer(f)) /\ inbox' = inbox \ {f} /\ served' = served \cup {f.for}
    BY <1>3 DEF PeerReplies
  <2>2. UNCHANGED <<conn, req, queue, actor, context, streak, closer, held, link, torn, mute>>
    BY <1>3 DEF PeerReplies
  <2> QED BY <1>1, <1>2, <2>1, <2>2
<1>4. CASE PeerMisreplies
  <2> DEFINE Bad(f) == { Answer(f),
                      [Answer(f) EXCEPT !.ctx = 0],
                      [Answer(f) EXCEPT !.cmd = IF f.cmd = "rr" THEN "unit" ELSE "rr"],
                      [Answer(f) EXCEPT !.handle = FALSE],
                      [Answer(f) EXCEPT !.options = 1],
                      [Answer(f) EXCEPT !.status = "error"],
                      [Answer(f) EXCEPT !.status = "invalid_session"],
                      [Answer(f) EXCEPT !.seq = f.seq + 1] }
  <2>0. PICK f \in inbox : \E bad \in Bad(f) :
          wire' = Append(wire, bad) /\ served' = IF Answers(bad, f) THEN served \cup {f.for} ELSE served
    BY <1>4 DEF PeerMisreplies
  <2>1. PICK bad \in Bad(f) :
          wire' = Append(wire, bad) /\ served' = IF Answers(bad, f) THEN served \cup {f.for} ELSE served
    BY <2>0
  <2>2. UNCHANGED <<conn, req, queue, actor, context, streak, closer, held, link, torn, mute>> /\ inbox' = inbox
    BY <1>4 DEF PeerMisreplies
  <2>3. /\ bad \in Response /\ bad.for = f.for /\ bad.ctx \in {0, f.ctx}
    <3> DEFINE a == Answer(f)
    <3>1. a \in Response /\ a.for = f.for /\ a.ctx = f.ctx /\ f.seq + 1 \in Nat
      BY <1>2 DEF Request
    <3>2. \/ bad = a \/ bad = [a EXCEPT !.ctx = 0] \/ bad = [a EXCEPT !.cmd = "unit"] \/ bad = [a EXCEPT !.cmd = "rr"]
          \/ bad = [a EXCEPT !.handle = FALSE] \/ bad = [a EXCEPT !.options = 1]
          \/ bad = [a EXCEPT !.status = "error"] \/ bad = [a EXCEPT !.status = "invalid_session"]
          \/ bad = [a EXCEPT !.seq = f.seq + 1]
      BY <2>1
    <3> HIDE DEF a
    <3>3. CASE bad = a \/ bad = [a EXCEPT !.ctx = 0]
      BY <3>1, <3>3 DEF Response
    <3>4. CASE bad = [a EXCEPT !.cmd = "unit"] \/ bad = [a EXCEPT !.cmd = "rr"]
      BY <3>1, <3>4 DEF Response, Cmds
    <3>5. CASE bad = [a EXCEPT !.handle = FALSE]
      BY <3>1, <3>5 DEF Response
    <3>6. CASE bad = [a EXCEPT !.options = 1] \/ bad = [a EXCEPT !.seq = f.seq + 1]
      BY <3>1, <3>6 DEF Response
    <3>7. CASE bad = [a EXCEPT !.status = "error"] \/ bad = [a EXCEPT !.status = "invalid_session"]
      BY <3>1, <3>7 DEF Response
    <3> QED BY <3>2, <3>3, <3>4, <3>5, <3>6, <3>7
  <2>4. bad.ctx = 0 \/ (Genuine(bad) => f.for \in served')
    <3>1. Genuine(bad) /\ bad.ctx = f.ctx => Answers(bad, f)
      BY <1>2, <2>3 DEF Genuine, Answers
    <3> QED BY <2>1, <2>3, <3>1
  <2>5. served' = served \/ served' = served \cup {f.for}
    BY <2>1
  <2> QED BY <1>1, <2>1, <2>2, <2>3, <2>4, <2>5
<1>5. CASE PeerStalls
  BY <1>0, <1>5, Bystander DEF PeerStalls
<1>6. CASE PeerResumes
  BY <1>0, <1>6, Bystander DEF PeerResumes
<1>7. CASE PeerHangsUp
  BY <1>0, <1>7, Bystander DEF PeerHangsUp
<1> QED BY <1>3, <1>4, <1>5, <1>6, <1>7 DEF Peer

\* Time passes: deadlines move, and nothing else.
LEMMA TickStep == SessionInv /\ Tick => SessionInv' /\ Sim
<1> SUFFICES ASSUME SessionInv, Tick PROVE SessionInv' /\ Sim
  OBVIOUS
<1>0. /\ conn \in Connection /\ req \in [Reqs -> Transaction]
      /\ closer \in [ph : {"none", "fclose", "handoff", "ack", "done"}, left : Int]
  BY DEF SessionInv, SessionTypes
<1>1. conn' \in Connection /\ conn'.ph = conn.ph /\ conn'.class3 = conn.class3
  <2>1. conn' = conn \/ conn' = [conn EXCEPT !.left = Sooner(conn.left)]
    BY DEF Tick
  <2>2. Sooner(conn.left) \in Int
    BY <1>0 DEF Sooner, Connection
  <2> QED BY <1>0, <2>1, <2>2 DEF Connection
<1>2. closer' \in [ph : {"none", "fclose", "handoff", "ack", "done"}, left : Int] /\ closer'.ph = closer.ph
  <2>1. closer' = closer \/ closer' = [closer EXCEPT !.left = Sooner(closer.left)]
    BY DEF Tick
  <2>2. Sooner(closer.left) \in Int
    BY <1>0 DEF Sooner
  <2> QED BY <1>0, <2>1, <2>2
<1>3. \A t \in Transaction : LET u == [t EXCEPT !.left = @ - 1] IN
          u \in Transaction /\ u.ph = t.ph /\ u.seq = t.seq /\ u.out = t.out
  BY DEF Transaction
<1>4. \A r \in Reqs : req'[r] \in Transaction /\ req'[r].ph = req[r].ph /\ req'[r].seq = req[r].seq /\ req'[r].out = req[r].out
  BY <1>0, <1>3 DEF Tick
<1>5. Progress
  BY <1>4 DEF Tick, Progress
<1>6. UNCHANGED <<queue, actor, context, streak, held, link, inbox, wire, torn, mute, served>>
  BY DEF Tick
<1>7. Opening' /\ Issued' /\ Correlated'
  BY <1>1, <1>2, <1>5, <1>6, OpeningKept, IssuedKept, CorrelatedKept
<1>8. SessionTypes'
  BY <1>1, <1>2, <1>5, <1>6 DEF SessionInv, SessionTypes, Progress
<1>9. StreamEnds'
  BY <1>6 DEF SessionInv, StreamEnds
<1>10. View' = View /\ Dead' = Dead
  BY <1>4, <1>6, SameView DEF Dead
<1> QED BY <1>6, <1>7, <1>8, <1>9, <1>10, Unseen DEF SessionInv

-----------------------------------------------------------------------------
(* The callers *)

\* One transaction of the table gets another phase and verdict.
LEMMA OneChange ==
    ASSUME NEW rq \in [Reqs -> Transaction], NEW r \in Reqs, NEW p \in {"sending", "waiting", "done"},
           NEW v \in Outs, NEW n \in Nat, NEW l \in Int
    PROVE  LET z == [rq EXCEPT ![r] = [ph |-> p, left |-> l, seq |-> n, out |-> v]] IN
             /\ z \in [Reqs -> Transaction] /\ \A x \in Reqs : x # r => z[x] = rq[x]
             /\ z[r].ph = p /\ z[r].out = v /\ z[r].seq = n /\ z[r].left = l
BY DEF Transaction

\* A caller stops waiting, or gets its slot: the rest of the session stays.
LEMMA CallerStep ==
    ASSUME SessionInv, NEW r \in Reqs, ~New(r), req[r].ph # "done", NEW p \in {"waiting", "done"}, NEW v \in Outs, NEW l \in Int,
           req' = [req EXCEPT ![r] = [ph |-> p, left |-> l, seq |-> req[r].seq, out |-> v]],
           p = "done" => v \in {"timeout", "abandoned"} \/ (v = "closed" /\ Dead),
           queue' = queue \/ queue' = Append(queue, r),
           UNCHANGED <<conn, actor, context, streak, closer, held, link, inbox, wire, torn, mute, served>>
    PROVE  SessionInv' /\ Sim
<1>0. req \in [Reqs -> Transaction] /\ req[r].seq \in Nat /\ queue \in Seq(Reqs \cup {UnregisterCmd})
  BY DEF SessionInv, SessionTypes, Transaction
<1>1. /\ req' \in [Reqs -> Transaction] /\ \A x \in Reqs : x # r => req'[x] = req[x]
      /\ req'[r].ph = p /\ req'[r].out = v /\ req'[r].seq = req[r].seq
  BY <1>0, OneChange
<1>2. Progress
  BY <1>1 DEF Progress, New
<1>3. queue' \in Seq(Reqs \cup {UnregisterCmd}) /\ \A x : In(x, queue') => In(x, queue) \/ x = r
  <2>1. CASE queue' = Append(queue, r)
    BY <1>0, <2>1, AppendIn
  <2> QED BY <1>0, <2>1
<1>4. Issued'
  BY <1>1, <1>2, <1>3 DEF SessionInv, Issued, Progress, New
<1>5. Opening' /\ Correlated'
  BY <1>2, OpeningKept, CorrelatedKept
<1>6. SessionTypes'
  BY <1>1, <1>3 DEF SessionInv, SessionTypes
<1>7. StreamEnds'
  BY DEF SessionInv, StreamEnds
<1>8. Dead' = Dead
  BY DEF Dead
<1>9. CASE p = "done"
  <2>1. Sim
    BY <1>1, <1>8, <1>9, VerdictSim
  <2> QED BY <1>4, <1>5, <1>6, <1>7, <2>1 DEF SessionInv
<1>10. CASE p # "done"
  <2>1. View' = View
    BY <1>1, <1>10, SameView DEF New
  <2> QED BY <1>4, <1>5, <1>6, <1>7, <1>8, <2>1, Unseen DEF SessionInv
<1> QED BY <1>9, <1>10

\* The connected sequence count is a number.
LEMMA SequenceType == next_sequence \in Nat
<1>1. IsFiniteSet({r \in Users : req[r].seq # 0})
  BY UsersAssumption, FS_Subset
<1> QED BY <1>1, FS_CardinalityType DEF next_sequence

\* A transaction is stamped and handed to the actor, or refused.
LEMMA IssueStep ==
    ASSUME SessionInv, NEW r \in Reqs, Issue(r)
    PROVE  SessionInv' /\ Sim
<1>0. /\ req \in [Reqs -> Transaction] /\ queue \in Seq(Reqs \cup {UnregisterCmd})
      /\ req[r] \in Transaction /\ req[r].ph = "new" /\ MayIssue(r)
      /\ UNCHANGED <<conn, actor, context, streak, closer, held, link, inbox, wire, torn, mute, served>>
  BY DEF SessionInv, SessionTypes, Issue
<1>1. PICK n \in Nat : n = IF Cmd(r) = "unit" THEN next_sequence ELSE 0
  BY SequenceType
<1>2. \E p \in {"sending", "waiting", "done"}, v \in Outs, m \in Nat, l \in Int :
          /\ req' = [req EXCEPT ![r] = [ph |-> p, left |-> l, seq |-> m, out |-> v]]
          /\ p = "done" => v = "closed" /\ Dead
          /\ queue' = queue \/ queue' = Append(queue, r)
  <2> DEFINE a == [req EXCEPT ![r] = [req[r] EXCEPT !.left = RequestTimeout]]
             posted == [a EXCEPT ![r] = [a[r] EXCEPT !.seq = n]]
             Put(p) == [posted EXCEPT ![r] = [posted[r] EXCEPT !.ph = p]]
             Made(p) == [ph |-> p, left |-> RequestTimeout, seq |-> n, out |-> req[r].out]
             b == [req EXCEPT ![r] = [req[r] EXCEPT !.ph = "done"]]
             over == [b EXCEPT ![r] = [b[r] EXCEPT !.out = "closed"]]
  <2>1. \/ actor.ph = "dead" /\ req' = over /\ queue' = queue
        \/ req' = Put("waiting") /\ queue' = Append(queue, r)
        \/ req' = Put("sending") /\ queue' = queue
    BY <1>0, <1>1 DEF Issue
  <2>2. ASSUME NEW p PROVE Put(p) = [req EXCEPT ![r] = Made(p)]
    <3>1. a[r] = [req[r] EXCEPT !.left = RequestTimeout] /\ posted[r] = [a[r] EXCEPT !.seq = n] /\ Put(p)[r] = [posted[r] EXCEPT !.ph = p]
      BY <1>0
    <3>2. Put(p)[r] = Made(p)
      BY <1>0, <3>1 DEF Transaction
    <3>3. Put(p) = [req EXCEPT ![r] = Put(p)[r]]
      BY <1>0
    <3> QED BY <3>2, <3>3
  <2>3. over = [req EXCEPT ![r] = [ph |-> "done", left |-> req[r].left, seq |-> req[r].seq, out |-> "closed"]]
    <3>1. b[r] = [req[r] EXCEPT !.ph = "done"] /\ over[r] = [b[r] EXCEPT !.out = "closed"]
      BY <1>0
    <3>2. over[r] = [ph |-> "done", left |-> req[r].left, seq |-> req[r].seq, out |-> "closed"]
      BY <1>0, <3>1 DEF Transaction
    <3>3. over = [req EXCEPT ![r] = over[r]]
      BY <1>0
    <3> QED BY <3>2, <3>3
  <2>4. RequestTimeout \in Int /\ req[r].out \in Outs /\ req[r].left \in Int /\ req[r].seq \in Nat /\ "closed" \in Outs
    BY <1>0, TimeoutAssumption DEF Transaction, Outs
  <2> HIDE DEF Put, over
  <2>5. CASE actor.ph = "dead" /\ req' = over /\ queue' = queue
    BY <2>3, <2>4, <2>5 DEF Dead
  <2>6. CASE req' = Put("waiting") /\ queue' = Append(queue, r)
    BY <2>2, <2>4, <2>6
  <2>7. CASE req' = Put("sending") /\ queue' = queue
    BY <2>2, <2>4, <2>7
  <2> QED BY <2>1, <2>5, <2>6, <2>7
<1>3. PICK p \in {"sending", "waiting", "done"}, v \in Outs, m \in Nat, l \in Int :
          /\ req' = [req EXCEPT ![r] = [ph |-> p, left |-> l, seq |-> m, out |-> v]]
          /\ p = "done" => v = "closed" /\ Dead
          /\ queue' = queue \/ queue' = Append(queue, r)
  BY <1>2
<1>4. /\ req' \in [Reqs -> Transaction] /\ \A x \in Reqs : x # r => req'[x] = req[x]
      /\ req'[r].ph = p /\ req'[r].out = v
  BY <1>0, <1>3, OneChange
<1>5. queue' \in Seq(Reqs \cup {UnregisterCmd}) /\ \A x : In(x, queue') => In(x, queue) \/ x = r
  <2>1. CASE queue' = Append(queue, r)
    BY <1>0, <2>1, AppendIn
  <2> QED BY <1>0, <1>3, <2>1
<1>6. Opening'
  <2>1. /\ conn.ph \in {"dial", "register"} => FALSE
        /\ conn.ph = "class3" => r = "open"
        /\ conn.ph = "undo" => r = "undo"
    BY <1>0 DEF SessionInv, Opening, MayIssue
  <2>2. \A x \in Reqs : x # r => (New(x)' <=> New(x))
    BY <1>4 DEF New
  <2>3. "open" \in Reqs /\ ("open" # r => req'["open"] = req["open"])
    BY <1>4, Names DEF Own
  <2> QED BY <1>0, <2>1, <2>2, <2>3 DEF SessionInv, Opening
<1>7. Issued'
  BY <1>0, <1>4, <1>5 DEF SessionInv, Issued, New
<1>8. Correlated'
  <2>1. ASSUME NEW f \in inbox'
        PROVE  OfNow(f)' /\ f.ctx > 0 /\ f.cmd = Cmd(f.for)' /\ ~New(f.for)' /\ f.seq = req'[f.for].seq
    <3>1. f \in Request /\ f.for \in Reqs /\ ~New(f.for) /\ f.for # r
      BY <1>0, <2>1 DEF SessionInv, SessionTypes, Correlated, New, Request
    <3>2. OfNow(f) /\ f.ctx > 0 /\ f.cmd = Cmd(f.for) /\ f.seq = req[f.for].seq
      BY <1>0, <2>1 DEF SessionInv, Correlated
    <3> QED BY <1>0, <1>4, <3>1, <3>2 DEF OfNow, Cmd, New
  <2>2. ASSUME NEW g \in Response, In(g, wire')
        PROVE  OfNow(g)' /\ ~New(g.for)' /\ (Genuine(g)' => g.for \in served')
    <3>1. g.for \in Reqs /\ ~New(g.for) /\ g.for # r /\ OfNow(g) /\ (Genuine(g) => g.for \in served)
      BY <1>0, <2>2 DEF SessionInv, Correlated, New, Response
    <3>2. req'[g.for] = req[g.for]
      BY <1>4, <3>1
    <3>3. Genuine(g)' => Genuine(g)
      BY <1>0, <3>2 DEF Genuine, Cmd
    <3> QED BY <1>0, <3>1, <3>2, <3>3 DEF OfNow, New
  <2> QED BY <2>1, <2>2 DEF Correlated
<1>9. SessionTypes'
  BY <1>0, <1>4, <1>5 DEF SessionInv, SessionTypes
<1>10. StreamEnds'
  BY <1>0 DEF SessionInv, StreamEnds
<1>11. Sim
  <2>1. View[r] = "new" /\ View'[r] = (IF p = "done" THEN "closed" ELSE "pending") /\ Dead' = Dead
    BY <1>0, <1>3, <1>4 DEF View, Dead
  <2>2. View' = [View EXCEPT ![r] = View'[r]]
    BY <1>4, OneView
  <2> QED BY <1>0, <1>3, <2>1, <2>2, RpcBegin DEF Sim
<1> QED BY <1>6, <1>7, <1>8, <1>9, <1>10, <1>11 DEF SessionInv

\* The wait for a slot ends, the backstop fires, a caller leaves.
LEMMA CallingStep ==
    ASSUME SessionInv, NEW r \in Reqs, Calling(r)
    PROVE  SessionInv' /\ Sim
<1>0. req \in [Reqs -> Transaction] /\ req[r] \in Transaction /\ req[r].left \in Int /\ req[r].out \in Outs
  BY DEF SessionInv, SessionTypes, Transaction
<1> DEFINE To(p, l, v) == [req EXCEPT ![r] = [ph |-> p, left |-> l, seq |-> req[r].seq, out |-> v]]
<1>1. /\ [req EXCEPT ![r].ph = "waiting"] = To("waiting", req[r].left, req[r].out)
      /\ \A v : [req EXCEPT ![r].ph = "done", ![r].out = v] = To("done", req[r].left, v)
      /\ \A v : [req EXCEPT ![r].ph = "done", ![r].left = 0, ![r].out = v] = To("done", 0, v)
  <2>1. [req EXCEPT ![r].ph = "waiting"] = To("waiting", req[r].left, req[r].out)
    <3> DEFINE z == [req EXCEPT ![r] = [req[r] EXCEPT !.ph = "waiting"]]
    <3>1. z[r] = [ph |-> "waiting", left |-> req[r].left, seq |-> req[r].seq, out |-> req[r].out]
      BY <1>0 DEF Transaction
    <3>2. z = [req EXCEPT ![r] = z[r]] /\ [req EXCEPT ![r].ph = "waiting"] = z
      BY <1>0
    <3> QED BY <3>1, <3>2
  <2>2. ASSUME NEW v PROVE [req EXCEPT ![r].ph = "done", ![r].out = v] = To("done", req[r].left, v)
    <3> DEFINE b == [req EXCEPT ![r] = [req[r] EXCEPT !.ph = "done"]]
               z == [b EXCEPT ![r] = [b[r] EXCEPT !.out = v]]
    <3>1. b[r] = [req[r] EXCEPT !.ph = "done"] /\ z[r] = [b[r] EXCEPT !.out = v]
      BY <1>0
    <3>2. z[r] = [ph |-> "done", left |-> req[r].left, seq |-> req[r].seq, out |-> v]
      BY <1>0, <3>1 DEF Transaction
    <3>3. z = [req EXCEPT ![r] = z[r]] /\ [req EXCEPT ![r].ph = "done", ![r].out = v] = z
      BY <1>0
    <3> QED BY <3>2, <3>3
  <2>3. ASSUME NEW v PROVE [req EXCEPT ![r].ph = "done", ![r].left = 0, ![r].out = v] = To("done", 0, v)
    <3> DEFINE b == [req EXCEPT ![r] = [req[r] EXCEPT !.ph = "done"]]
               c == [b EXCEPT ![r] = [b[r] EXCEPT !.left = 0]]
               z == [c EXCEPT ![r] = [c[r] EXCEPT !.out = v]]
    <3>1. b[r] = [req[r] EXCEPT !.ph = "done"] /\ c[r] = [b[r] EXCEPT !.left = 0] /\ z[r] = [c[r] EXCEPT !.out = v]
      BY <1>0
    <3>2. z[r] = [ph |-> "done", left |-> 0, seq |-> req[r].seq, out |-> v]
      BY <1>0, <3>1 DEF Transaction
    <3>3. z = [req EXCEPT ![r] = z[r]] /\ [req EXCEPT ![r].ph = "done", ![r].left = 0, ![r].out = v] = z
      BY <1>0
    <3> QED BY <3>2, <3>3
  <2> QED BY <2>1, <2>2, <2>3
<1>2. CASE Issue(r)
  BY <1>2, IssueStep
<1>3. CASE Enqueue(r)
  <2>1. /\ req[r].ph = "sending" /\ ~New(r)
        /\ UNCHANGED <<conn, actor, context, streak, closer, held, link, inbox, wire, torn, mute, served>>
    BY <1>3 DEF Enqueue, New
  <2>2. CASE queue' = Append(queue, r) /\ req' = [req EXCEPT ![r].ph = "waiting"]
    <3>1. req' = To("waiting", req[r].left, req[r].out)
      BY <1>1, <2>2
    <3> QED BY <1>0, <2>1, <2>2, <3>1, CallerStep
  <2>3. CASE actor.ph = "dead" /\ req' = [req EXCEPT ![r].ph = "done", ![r].left = 0, ![r].out = "closed"] /\ queue' = queue
    <3>0. PICK l \in Int : l = 0
      OBVIOUS
    <3>1. req' = To("done", l, "closed") /\ "closed" \in Outs /\ Dead
      BY <1>1, <2>3, <3>0 DEF Outs, Dead
    <3> QED BY <1>0, <2>1, <2>3, <3>1, CallerStep
  <2>4. CASE req' = [req EXCEPT ![r].ph = "done", ![r].left = 0, ![r].out = "timeout"] /\ queue' = queue
    <3>0. PICK l \in Int : l = 0
      OBVIOUS
    <3>1. req' = To("done", l, "timeout") /\ "timeout" \in Outs
      BY <1>1, <2>4, <3>0 DEF Outs
    <3> QED BY <1>0, <2>1, <2>4, <3>1, CallerStep
  <2> QED BY <1>3, <2>2, <2>3, <2>4 DEF Enqueue
<1>4. CASE Backstop(r)
  <2>1. /\ req[r].ph = "waiting" /\ ~New(r) /\ queue' = queue
        /\ UNCHANGED <<conn, actor, context, streak, closer, held, link, inbox, wire, torn, mute, served>>
    BY <1>4 DEF Backstop, New
  <2>2. req' = To("done", req[r].left, "timeout") /\ "timeout" \in Outs
    BY <1>1, <1>4 DEF Outs, Backstop
  <2> QED BY <1>0, <2>1, <2>2, CallerStep
<1>5. CASE Abandon(r)
  <2>1. /\ req[r].ph # "done" /\ ~New(r) /\ queue' = queue
        /\ UNCHANGED <<conn, actor, context, streak, closer, held, link, inbox, wire, torn, mute, served>>
    BY <1>5 DEF Abandon, New, Active
  <2>2. req' = To("done", req[r].left, "abandoned") /\ "abandoned" \in Outs
    BY <1>1, <1>5 DEF Outs, Abandon
  <2> QED BY <1>0, <2>1, <2>2, CallerStep
<1> QED BY <1>2, <1>3, <1>4, <1>5 DEF Calling

-----------------------------------------------------------------------------
(* The session actor *)

\* The transaction in hand or at the head gets a verdict and the session goes on.
LEMMA VerdictStep ==
    ASSUME SessionInv, NEW r \in Reqs, ~New(r), NEW v \in Outs, req' = Reply(r, v),
           \/ v \in {"timeout", "encap", "violation"}
           \/ v = "ok" /\ r \in served,
           actor.ph # "dead", actor.ph # "none", actor' = Rest \/ (actor' = actor /\ actor.ph = "idle"),
           UNCHANGED <<conn, context, closer, held, link, inbox, torn, served>>,
           queue' \in Seq(Reqs \cup {UnregisterCmd}), \A x : In(x, queue') => In(x, queue),
           wire' \in Seq(Response), \A h : In(h, wire') => In(h, wire),
           streak' \in Nat, mute' \in Nat, streak' <= mute'
    PROVE  SessionInv' /\ Sim
<1>1. /\ Progress /\ \A x \in Reqs : x # r => req'[x] = req[x]
      /\ req'[r].ph = "done" /\ req'[r].out = IF req[r].ph = "done" THEN req[r].out ELSE v
  BY ReplyProgress DEF SessionInv
<1>2. actor'.ph = "idle" /\ actor' \in [ph : {"none", "idle", "write", "read", "dead"}, cur : Reqs \cup {"none"}]
  BY DEF Rest, SessionInv, SessionTypes
<1>3. Opening'
  BY <1>1, <1>2, OpeningKept
<1>4. Issued'
  BY <1>1, <1>2, IssuedKept
<1>5. Correlated'
  BY <1>1, <1>2, CorrelatedKept
<1>6. SessionTypes'
  BY <1>1, <1>2 DEF SessionInv, SessionTypes, Progress
<1>7. StreamEnds'
  BY <1>2 DEF SessionInv, StreamEnds
<1>8. ~Dead /\ Dead' = Dead
  BY <1>2 DEF Dead
<1>9. Sim
  BY <1>1, <1>8, VerdictSim
<1> QED BY <1>3, <1>4, <1>5, <1>6, <1>7, <1>9 DEF SessionInv

\* Dequeue and triage.
LEMMA TakeStep == SessionInv /\ Take => SessionInv' /\ Sim
<1> SUFFICES ASSUME SessionInv, Take PROVE SessionInv' /\ Sim
  OBVIOUS
<1> DEFINE r == Head(queue)
<1>0. /\ queue \in Seq(Reqs \cup {UnregisterCmd}) /\ queue # <<>> /\ r \in Reqs /\ actor.ph = "idle"
      /\ UNCHANGED <<conn, streak, closer, held, link, inbox, wire, torn, mute, served>>
      /\ queue' = Tail(queue) /\ wire \in Seq(Response) /\ req \in [Reqs -> Transaction]
      /\ context \in Nat /\ streak \in Nat /\ mute \in Nat /\ streak <= mute
  BY DEF SessionInv, SessionTypes, Take, StreamEnds
<1>1. queue' \in Seq(Reqs \cup {UnregisterCmd}) /\ (\A x : In(x, queue') => In(x, queue)) /\ In(r, queue)
  <2>1. /\ Tail(queue) \in Seq(Reqs \cup {UnregisterCmd}) /\ \A x : In(x, Tail(queue)) => In(x, queue)
        /\ Len(queue) \in Nat \ {0} /\ queue[1] = Head(queue)
    BY <1>0, TailIn
  <2> QED BY <1>0, <2>1 DEF In
<1>2. ~New(r)
  BY <1>0, <1>1 DEF SessionInv, Issued
<1>3. CASE preflight(r) = "run" /\ actor' = [ph |-> "write", cur |-> r] /\ context' = context + 1 /\ UNCHANGED req
  <2> HIDE DEF r
  <2>1. Progress
    BY <1>3, SameProgress DEF SessionInv
  <2>2. actor'.ph = "write" /\ actor'.cur = r /\ context' > 0 /\ context' \in Nat
    BY <1>0, <1>3
  <2>3. Opening'
    BY <1>0, <2>1, <2>2, OpeningKept
  <2>4. Issued'
    BY <1>0, <1>1, <1>2, <1>3, <2>2 DEF SessionInv, Issued, New
  <2>5. Correlated'
    <3>1. ASSUME NEW f, f.ctx \in Nat, OfNow(f)
          PROVE  OfNow(f)'
      BY <1>0, <1>3, <2>2, <3>1 DEF OfNow
    <3>2. \A f \in inbox : f.ctx \in Nat
      BY DEF SessionInv, SessionTypes, Request
    <3>3. \A h \in Response : h.ctx \in Nat
      BY DEF Response
    <3>4. \A x : New(x)' = New(x) /\ Cmd(x)' = Cmd(x)
      BY <1>0, <1>3 DEF New, Cmd
    <3>5. \A h : Genuine(h)' = Genuine(h)
      BY <1>0, <1>3 DEF Genuine, Cmd
    <3> QED BY <1>0, <1>3, <3>1, <3>2, <3>3, <3>4, <3>5 DEF SessionInv, Correlated
  <2>6. SessionTypes'
    BY <1>0, <1>1, <1>3, <2>2 DEF SessionInv, SessionTypes
  <2>7. StreamEnds'
    BY <1>0, <2>2 DEF SessionInv, StreamEnds
  <2>8. View' = View /\ Dead' = Dead
    BY <1>0, <1>3, <2>2 DEF View, Dead
  <2> QED BY <1>0, <2>3, <2>4, <2>5, <2>6, <2>7, <2>8, Unseen DEF SessionInv
<1>4. CASE req' = Reply(r, "timeout") /\ UNCHANGED <<actor, context>>
  <2>1. "timeout" \in Outs
    BY DEF Outs
  <2> HIDE DEF r
  <2> QED BY <1>0, <1>1, <1>2, <1>4, <2>1, VerdictStep
<1>5. CASE UNCHANGED <<req, actor, context>>
  <2>1. /\ closer \in [ph : {"none", "fclose", "handoff", "ack", "done"}, left : Int]
        /\ held \in BOOLEAN /\ link \in {"up", "stalled", "eof"}
    BY DEF SessionInv, SessionTypes
  <2> QED BY <1>0, <1>1, <1>5, <2>1, Bystander
<1> QED BY <1>3, <1>4, <1>5 DEF Take

\* send_frame: the request reaches the target, or the session ends with it.
LEMMA WriteStep == SessionInv /\ Write => SessionInv' /\ Sim
<1> SUFFICES ASSUME SessionInv, Write PROVE SessionInv' /\ Sim
  OBVIOUS
<1> DEFINE r == actor.cur
           f == [ctx |-> context, cmd |-> Cmd(r), seq |-> req[r].seq, for |-> r]
<1>0. /\ actor.ph = "write" /\ r \in Reqs /\ ~New(r) /\ context > 0 /\ context \in Nat
      /\ UNCHANGED <<conn, context, streak, closer, held, link, served>>
      /\ streak \in Nat /\ mute \in Nat /\ streak <= mute /\ torn \in BOOLEAN
      /\ actor \in [ph : {"none", "idle", "write", "read", "dead"}, cur : Reqs \cup {"none"}]
  BY DEF SessionInv, SessionTypes, Issued, StreamEnds, Write
<1>1. CASE /\ inbox' = inbox \cup {f} /\ actor' = [actor EXCEPT !.ph = "read"] /\ mute' = mute + 1
           /\ UNCHANGED <<req, queue, torn, wire>>
  <2>1. Progress
    BY <1>1, SameProgress DEF SessionInv
  <2>2. /\ actor'.ph = "read" /\ actor'.cur = r
        /\ actor' \in [ph : {"none", "idle", "write", "read", "dead"}, cur : Reqs \cup {"none"}]
    BY <1>0, <1>1
  <2>3. f \in Request
    <3>1. req[r].seq \in Nat /\ Cmd(r) \in Cmds
      BY <1>0, CmdType DEF SessionInv, SessionTypes, Transaction
    <3> QED BY <1>0, <3>1 DEF Request
  <2>4. f.ctx = context /\ f.for = r /\ f.cmd = Cmd(r) /\ f.seq = req[r].seq
    OBVIOUS
  <2> HIDE DEF r, f
  <2>5. Opening'
    BY <1>0, <2>1, <2>2, OpeningKept
  <2>6. Issued'
    BY <1>0, <1>1, <2>2 DEF SessionInv, Issued, New
  <2>7. Correlated'
    <3>1. ASSUME NEW g, g.ctx \in Nat, OfNow(g)
          PROVE  OfNow(g)'
      BY <1>0, <2>2, <3>1 DEF OfNow
    <3>2. \A g \in inbox : g.ctx \in Nat
      BY DEF SessionInv, SessionTypes, Request
    <3>3. \A h \in Response : h.ctx \in Nat
      BY DEF Response
    <3>4. \A x : New(x)' = New(x) /\ Cmd(x)' = Cmd(x)
      BY <1>0, <1>1 DEF New, Cmd
    <3>5. \A h : Genuine(h)' = Genuine(h)
      BY <1>0, <1>1 DEF Genuine, Cmd
    <3>6. ASSUME NEW g, g = f
          PROVE  OfNow(g)' /\ g.for = r /\ g.ctx = context /\ g.cmd = Cmd(g.for) /\ g.seq = req[g.for].seq
      BY <1>0, <2>2, <2>4, <3>6 DEF OfNow
    <3>7. ASSUME NEW g \in inbox'
          PROVE  OfNow(g)' /\ g.ctx > 0 /\ g.cmd = Cmd(g.for)' /\ ~New(g.for)' /\ g.seq = req'[g.for].seq
      <4>1. CASE g \in inbox
        BY <1>1, <3>1, <3>2, <3>4, <4>1 DEF SessionInv, Correlated
      <4>2. CASE g = f
        BY <1>0, <1>1, <3>4, <3>6, <4>2
      <4> QED BY <1>1, <3>7, <4>1, <4>2
    <3> QED BY <1>0, <1>1, <3>1, <3>3, <3>4, <3>5, <3>7 DEF SessionInv, Correlated
  <2>8. SessionTypes'
    BY <1>0, <1>1, <2>2, <2>3 DEF SessionInv, SessionTypes
  <2>9. StreamEnds'
    BY <1>0, <1>1, <2>2 DEF SessionInv, StreamEnds
  <2>10. View' = View /\ Dead' = Dead
    BY <1>0, <1>1, <2>2 DEF View, Dead
  <2> QED BY <1>0, <2>5, <2>6, <2>7, <2>8, <2>9, <2>10, Unseen DEF SessionInv
<1>2. CASE Die(Reply(r, "lost")) /\ mute' = mute /\ torn' \in BOOLEAN
  <2> HIDE DEF r
  <2> QED BY <1>0, <1>2, DieStep
<1>3. \/ /\ inbox' = inbox \cup {f} /\ actor' = [actor EXCEPT !.ph = "read"] /\ mute' = mute + 1
         /\ UNCHANGED <<req, queue, torn, wire>>
      \/ Die(Reply(r, "lost")) /\ mute' = mute /\ (torn' = torn \/ torn' = TRUE)
  BY DEF Write
<1>4. (torn' = torn \/ torn' = TRUE) => torn' \in BOOLEAN
  BY <1>0
<1> QED BY <1>1, <1>2, <1>3, <1>4

\* One frame read under an outstanding request.
LEMMA ReadStep == SessionInv /\ Read => SessionInv' /\ Sim
<1> SUFFICES ASSUME SessionInv, Read PROVE SessionInv' /\ Sim
  OBVIOUS
<1> DEFINE h == Head(wire)
           r == actor.cur
           m == IF h.options # 0 THEN "options" ELSE match_reply([ctx |-> context, cmd |-> Cmd(r)], h)
<1>0. /\ actor.ph = "read" /\ r \in Reqs /\ ~New(r) /\ context > 0 /\ context \in Nat
      /\ UNCHANGED <<conn, context, closer, held, link, torn, served>>
      /\ streak \in Nat /\ mute \in Nat /\ streak <= mute /\ torn \in BOOLEAN
      /\ wire \in Seq(Response) /\ wire # <<>> /\ queue \in Seq(Reqs \cup {UnregisterCmd})
  BY DEF SessionInv, SessionTypes, Issued, StreamEnds, Read
<1>1. /\ Tail(wire) \in Seq(Response) /\ (\A x : In(x, Tail(wire)) => In(x, wire)) /\ In(h, wire) /\ h \in Response
  <2>1. /\ Tail(wire) \in Seq(Response) /\ \A x : In(x, Tail(wire)) => In(x, wire)
        /\ Len(wire) \in Nat \ {0} /\ wire[1] = Head(wire)
    BY <1>0, TailIn
  <2> QED BY <1>0, <2>1 DEF In
<1>2. OfNow(h) /\ (Genuine(h) => h.for \in served)
  BY <1>1 DEF SessionInv, Correlated
<1>3. \/ wire' = Tail(wire) /\ UNCHANGED <<req, queue, actor, streak, mute, inbox>>
      \/ streak' = 0 /\ mute' = 0 /\ Die(Reply(r, "poisoned"))
      \/ /\ m = "match" /\ streak' = 0 /\ mute' = 0 /\ req' = Reply(r, ReplyVerdict(r, h)) /\ actor' = Rest
         /\ wire' = Tail(wire) /\ UNCHANGED <<queue, inbox>>
  BY DEF Read
<1>4. m = "match" /\ ReplyVerdict(r, h) = "ok" => r \in served
  <2> SUFFICES ASSUME m = "match", ReplyVerdict(r, h) = "ok" PROVE r \in served
    OBVIOUS
  <2>1. h.options = 0 /\ h.ctx = context /\ h.cmd = Cmd(r) /\ (h.handle \/ h.cmd = "list")
    <3>1. h.options = 0 /\ match_reply([ctx |-> context, cmd |-> Cmd(r)], h) = "match"
      OBVIOUS
    <3> HIDE DEF h, r, m
    <3> QED BY <3>1 DEF match_reply
  <2>2. h.for = r
    BY <1>0, <1>2, <2>1 DEF OfNow
  <2>3. h.status = "ok" /\ (Cmd(r) = "unit" => h.seq = req[r].seq)
    <3> HIDE DEF h, r, m
    <3> QED BY DEF ReplyVerdict
  <2>4. Genuine(h)
    <3> HIDE DEF h, r, m
    <3> QED BY <1>0, <2>1, <2>2, <2>3 DEF Genuine
  <2> QED BY <1>2, <2>2, <2>4
<1>5. ReplyVerdict(r, h) \in {"encap", "violation", "ok"}
  BY DEF ReplyVerdict
<1> HIDE DEF h, r, m
<1>6. CASE wire' = Tail(wire) /\ UNCHANGED <<req, queue, actor, streak, mute, inbox>>
  <2>1. Progress
    BY <1>6, SameProgress DEF SessionInv
  <2>2. Opening' /\ Issued' /\ Correlated'
    BY <1>0, <1>1, <1>6, <2>1, OpeningKept, IssuedKept, CorrelatedKept
  <2>3. SessionTypes'
    BY <1>0, <1>1, <1>6 DEF SessionInv, SessionTypes
  <2>4. StreamEnds'
    BY <1>0, <1>6 DEF SessionInv, StreamEnds
  <2>5. View' = View /\ Dead' = Dead
    BY <1>6 DEF View, Dead
  <2> QED BY <1>0, <2>2, <2>3, <2>4, <2>5, Unseen DEF SessionInv
<1>7. CASE streak' = 0 /\ mute' = 0 /\ Die(Reply(r, "poisoned"))
  BY <1>0, <1>7, DieStep
<1>8. CASE /\ m = "match" /\ streak' = 0 /\ mute' = 0 /\ req' = Reply(r, ReplyVerdict(r, h)) /\ actor' = Rest
           /\ wire' = Tail(wire) /\ UNCHANGED <<queue, inbox>>
  <2>1. PICK v \in Outs : v = ReplyVerdict(r, h) /\ v \in {"encap", "violation", "ok"}
    BY <1>5 DEF Outs
  <2>2. wire' \in Seq(Response) /\ (\A x : In(x, wire') => In(x, wire)) /\ queue' \in Seq(Reqs \cup {UnregisterCmd})
        /\ \A x : In(x, queue') => In(x, queue)
    BY <1>0, <1>1, <1>8
  <2> QED BY <1>0, <1>4, <1>8, <2>1, <2>2, VerdictStep
<1> QED BY <1>3, <1>6, <1>7, <1>8

\* The actor's steps.
LEMMA ActingStep == SessionInv /\ Acting => SessionInv' /\ Sim
<1> SUFFICES ASSUME SessionInv, Acting PROVE SessionInv' /\ Sim
  OBVIOUS
<1>0. /\ streak \in Nat /\ mute \in Nat /\ streak <= mute /\ torn \in BOOLEAN
      /\ actor.ph = "read" => actor.cur \in Reqs /\ ~New(actor.cur) /\ streak < mute
      /\ wire \in Seq(Response) /\ queue \in Seq(Reqs \cup {UnregisterCmd})
  BY DEF SessionInv, SessionTypes, Issued, StreamEnds
<1>1. CASE Take
  BY <1>1, TakeStep
<1>2. CASE Write
  BY <1>2, WriteStep
<1>3. CASE Read
  BY <1>3, ReadStep
<1>4. CASE ReadEof
  BY <1>0, <1>4, DieStep DEF ReadEof
<1>5. CASE ReadTimeout
  <2> DEFINE r == actor.cur
  <2>1. /\ actor.ph = "read" /\ streak' = streak + 1 /\ r \in Reqs /\ ~New(r)
        /\ UNCHANGED <<conn, context, closer, held, link, torn, mute, served>>
        /\ \/ Die(Reply(r, "lost"))
           \/ req' = Reply(r, "timeout") /\ actor' = Rest /\ UNCHANGED <<queue, inbox, wire>>
    BY <1>0, <1>5 DEF ReadTimeout
  <2>2. streak' \in Nat /\ mute' \in Nat /\ streak' <= mute' /\ "timeout" \in Outs /\ torn' \in BOOLEAN
    BY <1>0, <2>1 DEF Outs
  <2> HIDE DEF r
  <2>3. CASE Die(Reply(r, "lost"))
    BY <2>1, <2>2, <2>3, DieStep
  <2>4. CASE req' = Reply(r, "timeout") /\ actor' = Rest /\ UNCHANGED <<queue, inbox, wire>>
    BY <1>0, <2>1, <2>2, <2>4, VerdictStep
  <2> QED BY <2>1, <2>3, <2>4
<1>6. CASE Unregister
  BY <1>0, <1>6, DieStep DEF Unregister
<1>7. CASE SendersGone
  BY <1>0, <1>7, DieStep DEF SendersGone
<1> QED BY <1>1, <1>2, <1>3, <1>4, <1>5, <1>6, <1>7 DEF Acting

\* Steps that change nothing.
LEMMA IdleStep == SessionInv /\ UNCHANGED vars => SessionInv' /\ Sim
<1> SUFFICES ASSUME SessionInv, UNCHANGED vars PROVE SessionInv' /\ Sim
  OBVIOUS
<1>1. /\ closer \in [ph : {"none", "fclose", "handoff", "ack", "done"}, left : Int]
      /\ queue \in Seq(Reqs \cup {UnregisterCmd}) /\ held \in BOOLEAN /\ link \in {"up", "stalled", "eof"}
  BY DEF SessionInv, SessionTypes
<1> QED BY <1>1, Bystander DEF vars

\* Every step keeps the invariant and is a step of the service, or invisible to it.
LEMMA SessionStep == SessionInv /\ [Next]_vars => SessionInv' /\ Sim
BY ConnectingStep, ActingStep, ClosingStep, PeerStep, TickStep, CallingStep, IdleStep DEF Next

-----------------------------------------------------------------------------
(* The theorems *)

\* Whatever the target does, a frame that carries the current context belongs to the request in
\* hand, a reply with nothing wrong in its header was sent for the request it names, a torn
\* stream has no actor, and an unanswered frame is not yet in the streak.
THEOREM SessionInvariance == Spec => []SessionInv
<1>1. Init => SessionInv
  BY InitSession
<1>2. SessionInv /\ [Next]_vars => SessionInv'
  BY SessionStep
<1> QED BY <1>1, <1>2, PTL DEF Spec

\* EipClient::transaction implements the request/reply service step by step: a late, duplicated or
\* mislabelled reply never answers another call, a call's verdict is final, and ConnectionLost,
\* Closed and the session-is-invalid verdict are only said of a session that is over.
THEOREM SessionImplementsRpc == Spec => R!Init /\ [][R!Next]_(R!vars)
<1>1. Init => SessionInv /\ R!Init
  BY InitSession
<1>2. SessionInv /\ [Next]_vars => SessionInv'
  BY SessionStep
<1>3. SessionInv /\ [Next]_vars => [R!Next]_(R!vars)
  BY SessionStep DEF Sim
<1> QED BY <1>1, <1>2, <1>3, PTL DEF Spec

\* Once a request frame was cut short, nothing is ever written to that stream again, also when the
\* peer starts reading once more.
THEOREM TornIsSilent == Spec => TornStreamIsSilent
<1>1. SessionInv /\ [Next]_vars => [torn => inbox' \subseteq inbox]_vars
  <2> SUFFICES ASSUME SessionInv, Next, torn PROVE inbox' \subseteq inbox
    OBVIOUS
  <2>1. actor.ph = "dead"
    BY DEF SessionInv, StreamEnds
  <2>2. CASE Connecting
    BY <2>2 DEF Connecting, Dial, Register, ConnectEnds, OpenAnswered, UndoAnswered
  <2>3. CASE Acting
    BY <2>1, <2>3 DEF Acting, Take, Write, Read, ReadEof, ReadTimeout, Unregister, SendersGone
  <2>4. CASE Closing
    BY <2>4 DEF Closing, Close, CloseForwardDone, CloseHandoff, CloseEnds, DropHandle
  <2>5. CASE Peer
    BY <2>5 DEF Peer, PeerReplies, PeerMisreplies, PeerStalls, PeerResumes, PeerHangsUp
  <2>6. CASE Tick
    BY <2>6 DEF Tick
  <2>7. ASSUME NEW r \in Reqs, Calling(r) PROVE inbox' \subseteq inbox
    BY <2>7 DEF Calling, Issue, Enqueue, Backstop, Abandon
  <2> QED BY <2>2, <2>3, <2>4, <2>5, <2>6, <2>7 DEF Next
<1>2. Spec => [][Next]_vars
  BY PTL DEF Spec
<1> QED BY <1>1, <1>2, SessionInvariance, PTL DEF TornStreamIsSilent

\* The kill counter never exceeds the frames written since the last correlated reply, so requests
\* that expired in the command channel cannot declare a responsive target dead.
THEOREM StreakMeasuresSilence == Spec => []StreakIsSilence
<1>1. SessionInv => StreakIsSilence
  BY DEF SessionInv, StreamEnds, StreakIsSilence
<1> QED BY <1>1, SessionInvariance, PTL

-----------------------------------------------------------------------------
(* The keepalive *)

\* What the target still may take to see a class-3 request, at most: the time to
\* the next probe, the request ahead of it, and the losses so far.
KeepTypes ==
    /\ api \in ReplyApis /\ idle \in Nat /\ quiet \in Nat /\ lost \in 0..MaxLost
    /\ flight \in [kind : {"none", "class3", "ucmm", "probe"}, left : 0..RequestTimeout, seen : BOOLEAN]
    /\ flight.kind = "none" => flight = Keep!Free
    /\ probe \in {"sleep", "queued", "flight", "gone"} /\ (probe = "flight" <=> flight.kind = "probe")
    /\ wake \in Nat /\ handle \in BOOLEAN
    /\ probe = "gone" => ~handle

\* The time a request that was lost costs: its own deadline and that of the request ahead of the next probe.
Losses == 2 * (RequestTimeout * lost)

KeepFed ==
    /\ quiet <= idle + RequestTimeout
    /\ flight.kind \in {"class3", "probe"} /\ flight.seen => quiet + flight.left <= RequestTimeout
    /\ probe = "sleep" => quiet + wake <= Keep!next_keepalive_at + RequestTimeout + Losses
    /\ probe = "queued" => quiet + flight.left <= Keep!next_keepalive_at + 2 * RequestTimeout + Losses
    /\ probe = "flight" /\ ~flight.seen =>
           quiet + flight.left <= Keep!next_keepalive_at + RequestTimeout + Losses

KeepInv == KeepTypes /\ KeepFed

\* The window, the due time and the margin between them.
LEMMA KeepWindow ==
    ASSUME api \in ReplyApis
    PROVE  /\ Keep!class3_inactivity_window \in Nat /\ Keep!next_keepalive_at \in Nat
           /\ Keep!next_keepalive_at + 2 * RequestTimeout + 2 * (RequestTimeout * MaxLost)
                  <= Keep!class3_inactivity_window
<1> DEFINE i == Keep!class3_negotiated_interval
           w == Keep!class3_inactivity_window
<1>1. i \in Nat /\ Multiplier \in Nat /\ RequestTimeout \in Nat /\ MaxLost \in Nat
  BY KeepaliveMargin DEF Keep!Timing, Keep!class3_negotiated_interval
<1>2. w \in Nat
  BY <1>1 DEF Keep!class3_inactivity_window
<1>3. RequestTimeout * (2 + 2 * MaxLost) <= w - (3 * w) \div 4
  BY KeepaliveMargin DEF Keep!Margin, Keep!class3_inactivity_window, Keep!class3_negotiated_interval
<1>4. Keep!next_keepalive_at = (3 * w) \div 4
  BY DEF Keep!next_keepalive_at
<1> HIDE DEF i, w
<1>5. (3 * w) \div 4 \in Nat
  BY <1>2
<1>6. RequestTimeout * (2 + 2 * MaxLost) = 2 * RequestTimeout + 2 * (RequestTimeout * MaxLost)
  BY <1>1
<1>7. RequestTimeout * MaxLost \in Nat
  BY <1>1
<1> QED BY <1>1, <1>2, <1>3, <1>4, <1>5, <1>6, <1>7 DEF w

\* What a number of losses costs.
LEMMA LossCost ==
    ASSUME NEW t \in Nat, NEW m \in Nat, NEW n \in 0..m
    PROVE  t * n \in Nat /\ t * n <= t * m /\ t * (n + 1) = t * n + t
<1>1. n \in Nat /\ m - n \in Nat
  OBVIOUS
<1>2. t * (m - n) \in Nat
  BY <1>1
<1>3. t * m = t * n + t * (m - n)
  BY <1>1
<1>4. t * n \in Nat /\ t * m \in Nat
  BY <1>1
<1>5. t * (n + 1) = t * n + t
  BY <1>1
<1> QED BY <1>2, <1>3, <1>4, <1>5

\* The sums the bound is made of.
LEMMA KeepSums ==
    ASSUME NEW n \in Nat, NEW t \in Nat, NEW l \in Nat, NEW m \in Nat, NEW q \in Nat, NEW p \in Nat, NEW i \in Nat, NEW w \in Nat
    PROVE  /\ q <= i + t /\ i + w <= n => q + w <= n + t + l
           /\ p <= q /\ q + w <= n + t + l /\ m >= l => p + w <= n + t + m
           /\ p <= q /\ q <= n + 2 * t + l /\ m = l + 2 * t => p + t <= n + t + m
OBVIOUS

\* The facts of a state that the steps need.
LEMMA KeepFacts ==
    ASSUME KeepInv
    PROVE  /\ RequestTimeout \in Nat /\ MaxLost \in Nat /\ MaxSleep \in Nat /\ Losses \in Nat
           /\ Keep!class3_inactivity_window \in Nat /\ Keep!next_keepalive_at \in Nat
           /\ probe # "gone" => quiet <= Keep!class3_inactivity_window
           /\ probe # "gone" => Keep!next_keepalive_at + 2 * RequestTimeout + Losses <= Keep!class3_inactivity_window
<1>1. /\ Keep!class3_inactivity_window \in Nat /\ Keep!next_keepalive_at \in Nat
      /\ Keep!next_keepalive_at + 2 * RequestTimeout + 2 * (RequestTimeout * MaxLost)
             <= Keep!class3_inactivity_window
  BY KeepWindow DEF KeepInv, KeepTypes
<1>2. RequestTimeout \in Nat /\ MaxLost \in Nat /\ MaxSleep \in Nat
  BY KeepaliveMargin DEF Keep!Timing
<1>3. RequestTimeout * lost \in Nat /\ RequestTimeout * lost <= RequestTimeout * MaxLost /\ RequestTimeout * MaxLost \in Nat
  <2>1. lost \in 0..MaxLost
    BY DEF KeepInv, KeepTypes
  <2> QED BY <1>2, <2>1, LossCost
<1>4. Losses \in Nat /\ Keep!next_keepalive_at + 2 * RequestTimeout + Losses <= Keep!class3_inactivity_window
  BY <1>1, <1>2, <1>3 DEF Losses
<1>5. ASSUME probe # "gone" PROVE quiet <= Keep!class3_inactivity_window
  <2>1. flight.left \in Nat /\ wake \in Nat /\ quiet \in Nat
    BY <1>2 DEF KeepInv, KeepTypes
  <2>2. CASE probe = "sleep"
    BY <1>1, <1>2, <1>4, <2>1, <2>2 DEF KeepInv, KeepFed
  <2>3. CASE probe = "queued"
    BY <1>1, <1>2, <1>4, <2>1, <2>3 DEF KeepInv, KeepFed
  <2>4. CASE probe = "flight" /\ flight.seen
    BY <1>1, <1>2, <1>4, <2>1, <2>4 DEF KeepInv, KeepFed, KeepTypes
  <2>5. CASE probe = "flight" /\ ~flight.seen
    BY <1>1, <1>2, <1>4, <2>1, <2>5 DEF KeepInv, KeepFed
  <2> QED BY <1>5, <2>2, <2>3, <2>4, <2>5 DEF KeepInv, KeepTypes
<1> QED BY <1>1, <1>2, <1>4, <1>5

\* SleepFor never sleeps past the time the probe is due.
LEMMA SleepBound ==
    ASSUME NEW i \in Nat, Keep!next_keepalive_at \in Nat, MaxSleep \in Nat
    PROVE  /\ Keep!SleepFor(i) \in Nat
           /\ i < Keep!next_keepalive_at => i + Keep!SleepFor(i) <= Keep!next_keepalive_at
           /\ i >= Keep!next_keepalive_at => Keep!SleepFor(i) = 0
BY DEF Keep!SleepFor, Keep!Least

\* A request leaves: seen, it restarts the target's clock; lost, it is counted.
LEMMA KeepOut ==
    ASSUME KeepInv, NEW k \in {"class3", "ucmm", "probe"}, Keep!Out(k), flight = Keep!Free, UNCHANGED <<api, idle>>
    PROVE  /\ quiet' \in Nat /\ quiet' <= quiet /\ lost' \in 0..MaxLost /\ Losses' \in Nat
           /\ flight' \in [kind : {"none", "class3", "ucmm", "probe"}, left : 0..RequestTimeout, seen : BOOLEAN]
           /\ flight'.kind = k /\ flight'.left = RequestTimeout /\ flight'.seen \in BOOLEAN
           /\ k \in {"class3", "probe"} /\ flight'.seen => quiet' = 0
           /\ Losses' >= Losses
           /\ ~flight'.seen => Losses' = Losses + 2 * RequestTimeout
           /\ Keep!next_keepalive_at' = Keep!next_keepalive_at
<1>0. RequestTimeout \in Nat /\ MaxLost \in Nat /\ quiet \in Nat /\ lost \in 0..MaxLost
  BY KeepFacts DEF KeepInv, KeepTypes
<1>1. PICK s \in BOOLEAN :
        /\ ~s => lost < MaxLost
        /\ lost' = (IF s THEN lost ELSE lost + 1)
        /\ quiet' = (IF s /\ k # "ucmm" THEN 0 ELSE quiet)
        /\ flight' = [kind |-> k, left |-> RequestTimeout, seen |-> s]
  BY DEF Keep!Out
<1>2. /\ flight' \in [kind : {"none", "class3", "ucmm", "probe"}, left : 0..RequestTimeout, seen : BOOLEAN]
      /\ flight'.kind = k /\ flight'.left = RequestTimeout /\ flight'.seen = s
  BY <1>0, <1>1
<1>3. quiet' \in Nat /\ quiet' <= quiet /\ lost' \in 0..MaxLost /\ (k \in {"class3", "probe"} /\ s => quiet' = 0)
  BY <1>0, <1>1
<1>4. RequestTimeout * lost \in Nat /\ RequestTimeout * (lost + 1) = RequestTimeout * lost + RequestTimeout
  BY <1>0, LossCost
<1>5. Losses' \in Nat /\ Losses' >= Losses /\ (~s => Losses' = Losses + 2 * RequestTimeout)
  BY <1>0, <1>1, <1>4 DEF Losses
<1>6. Keep!next_keepalive_at' = Keep!next_keepalive_at
  BY DEF Keep!next_keepalive_at, Keep!class3_inactivity_window, Keep!class3_negotiated_interval
<1> QED BY <1>2, <1>3, <1>5, <1>6

\* Before the first exchange the target's clock and the tracker agree.
LEMMA KeepInit == Keep!Init => KeepInv
<1> SUFFICES ASSUME Keep!Init PROVE KeepInv
  OBVIOUS
<1>1. /\ Keep!next_keepalive_at \in Nat /\ MaxSleep \in Nat /\ MaxLost \in Nat /\ RequestTimeout \in Nat
  BY KeepWindow, KeepaliveMargin DEF Keep!Init, Keep!Timing
<1>2. Losses = 0
  BY <1>1 DEF Losses, Keep!Init
<1>3. Keep!SleepFor(0) \in Nat /\ Keep!SleepFor(0) <= Keep!next_keepalive_at
  BY <1>1, SleepBound
<1>4. KeepTypes
  BY <1>1, <1>3 DEF KeepTypes, Keep!Init, Keep!Free
<1>5. KeepFed
  BY <1>1, <1>2, <1>3 DEF KeepFed, Keep!Init, Keep!Free
<1> QED BY <1>4, <1>5 DEF KeepInv

\* Each step of the keepalive keeps the bound on the target's clock.
LEMMA KeepStep == KeepInv /\ [Keep!Next]_(Keep!vars) => KeepInv'
<1> SUFFICES ASSUME KeepInv, [Keep!Next]_(Keep!vars) PROVE KeepInv'
  OBVIOUS
<1> DEFINE T == RequestTimeout
           N == Keep!next_keepalive_at
           W == Keep!class3_inactivity_window
<1>0. /\ T \in Nat /\ MaxSleep \in Nat /\ Losses \in Nat /\ W \in Nat /\ N \in Nat
      /\ probe # "gone" => quiet <= W /\ N + 2 * T + Losses <= W
      /\ KeepTypes /\ KeepFed
      /\ idle \in Nat /\ quiet \in Nat /\ wake \in Nat /\ flight.left \in 0..T /\ flight.seen \in BOOLEAN
  BY KeepFacts DEF KeepInv, KeepTypes
<1>q. quiet <= idle + T
  BY <1>0 DEF KeepFed
<1>00. ASSUME UNCHANGED api PROVE N' = N /\ W' = W
  BY <1>00 DEF Keep!next_keepalive_at, Keep!class3_inactivity_window, Keep!class3_negotiated_interval
<1>l. ASSUME UNCHANGED lost PROVE Losses' = Losses
  BY <1>l DEF Losses
<1>f. Keep!Free.kind = "none" /\ Keep!Free.left = 0
      /\ Keep!Free \in [kind : {"none", "class3", "ucmm", "probe"}, left : 0..RequestTimeout, seen : BOOLEAN]
  BY <1>0 DEF Keep!Free
<1>1. ASSUME NEW k \in {"class3", "ucmm"}, Keep!Send(k) PROVE KeepInv'
  <2>1. flight = Keep!Free /\ Keep!Out(k) /\ probe # "queued" /\ UNCHANGED <<api, idle, probe, wake, handle>>
    BY <1>1 DEF Keep!Send
  <2>2. /\ quiet' \in Nat /\ quiet' <= quiet /\ lost' \in 0..MaxLost /\ Losses' \in Nat
        /\ flight' \in [kind : {"none", "class3", "ucmm", "probe"}, left : 0..RequestTimeout, seen : BOOLEAN]
        /\ flight'.kind = k /\ flight'.left = T
        /\ k = "class3" /\ flight'.seen => quiet' = 0
        /\ Losses' >= Losses /\ N' = N
    BY <2>1, KeepOut
  <2>3. probe # "flight"
    BY <1>0, <1>f, <2>1 DEF KeepTypes
  <2>4. KeepTypes'
    BY <1>0, <2>1, <2>2, <2>3 DEF KeepTypes
  <2>7. quiet' <= idle' + T
    BY <1>0, <1>q, <2>1, <2>2
  <2>8. k = "class3" /\ flight'.seen => quiet' + flight'.left <= T
    BY <1>0, <2>2
  <2>9. probe = "sleep" => quiet' + wake <= N' + T + Losses'
    <3>1. /\ T \in Nat /\ N \in Nat /\ Losses \in Nat /\ quiet \in Nat /\ wake \in Nat
          /\ probe = "sleep" => quiet + wake <= N + T + Losses
      BY <1>0 DEF KeepFed
    <3> QED BY <2>2, <3>1, KeepSums
  <2>5. KeepFed'
    BY <2>1, <2>2, <2>3, <2>7, <2>8, <2>9 DEF KeepFed
  <2> QED BY <2>4, <2>5 DEF KeepInv
<1>2. CASE Keep!SendProbe
  <2>1. flight = Keep!Free /\ Keep!Out("probe") /\ probe = "queued" /\ probe' = "flight" /\ UNCHANGED <<api, idle, wake, handle>>
    BY <1>2 DEF Keep!SendProbe
  <2>2. /\ quiet' \in Nat /\ quiet' <= quiet /\ lost' \in 0..MaxLost /\ Losses' \in Nat
        /\ flight' \in [kind : {"none", "class3", "ucmm", "probe"}, left : 0..RequestTimeout, seen : BOOLEAN]
        /\ flight'.kind = "probe" /\ flight'.left = T
        /\ flight'.seen => quiet' = 0
        /\ ~flight'.seen => Losses' = Losses + 2 * T
        /\ N' = N
    BY <2>1, KeepOut
  <2>4. KeepTypes'
    BY <1>0, <2>1, <2>2 DEF KeepTypes
  <2>6. quiet <= N + 2 * T + Losses
    BY <1>0, <1>f, <2>1 DEF KeepFed
  <2>7. quiet' <= idle' + T
    BY <1>0, <1>q, <2>1, <2>2
  <2>8. flight'.seen => quiet' + flight'.left <= T
    BY <1>0, <2>2
  <2>9. ~flight'.seen => quiet' + flight'.left <= N' + T + Losses'
    <3>1. T \in Nat /\ N \in Nat /\ Losses \in Nat /\ quiet \in Nat
      BY <1>0
    <3> QED BY <2>2, <2>6, <3>1, KeepSums
  <2>5. KeepFed'
    BY <2>1, <2>7, <2>8, <2>9 DEF KeepFed
  <2> QED BY <2>4, <2>5 DEF KeepInv
<1>3. ASSUME NEW i \in Nat, Keep!Loop(i), flight' = Keep!Free, UNCHANGED <<api, quiet, handle, lost>>,
             probe = "flight" \/ probe = "sleep", idle' = i, quiet <= i + T, quiet <= N + T + Losses
      PROVE KeepInv'
  <2>1. /\ Keep!SleepFor(i) \in Nat
        /\ i < N => i + Keep!SleepFor(i) <= N
        /\ i >= N => Keep!SleepFor(i) = 0
    BY <1>0, SleepBound
  <2>2. handle \in BOOLEAN /\ N' = N /\ Losses' = Losses
    BY <1>0, <1>00, <1>l, <1>3 DEF KeepTypes
  <2>3. CASE handle
    <3>1. probe' = "sleep" /\ wake' = Keep!SleepFor(i)
      BY <1>3, <2>3 DEF Keep!Loop
    <3>2. KeepTypes'
      BY <1>0, <1>f, <1>3, <2>1, <3>1 DEF KeepTypes
    <3>3. quiet' + wake' <= N + T + Losses
      BY <1>0, <1>3, <2>1, <3>1
    <3>4. KeepFed'
      <4>1. flight'.kind = "none" /\ quiet' <= idle' + T /\ quiet' + wake' <= N' + T + Losses'
        BY <1>f, <1>3, <2>2, <3>3
      <4> QED BY <3>1, <4>1 DEF KeepFed
    <3> QED BY <3>2, <3>4 DEF KeepInv
  <2>4. CASE ~handle
    <3>1. probe' = "gone" /\ wake' = wake
      BY <1>3, <2>4 DEF Keep!Loop
    <3>2. KeepTypes'
      BY <1>0, <1>f, <1>3, <2>4, <3>1 DEF KeepTypes
    <3>4. KeepFed'
      BY <1>0, <1>f, <1>3, <3>1 DEF KeepFed
    <3> QED BY <3>2, <3>4 DEF KeepInv
  <2> QED BY <2>3, <2>4
<1>4. ASSUME flight' = Keep!Free, UNCHANGED <<api, quiet, handle, lost, probe, wake>>, probe # "flight",
             idle' \in Nat, quiet <= idle' + T
      PROVE KeepInv'
  <2>2. N' = N /\ Losses' = Losses
    BY <1>00, <1>l, <1>4
  <2>3. KeepTypes'
    BY <1>0, <1>f, <1>4 DEF KeepTypes
  <2>5. probe = "queued" => quiet + 0 <= N + 2 * T + Losses
    BY <1>0 DEF KeepFed
  <2>6. probe = "sleep" => quiet + wake <= N + T + Losses
    BY <1>0 DEF KeepFed
  <2>4. KeepFed'
    BY <1>f, <1>4, <2>2, <2>5, <2>6 DEF KeepFed
  <2> QED BY <2>3, <2>4 DEF KeepInv
<1>5. CASE Keep!Answered
  <2>1. /\ flight.kind # "none" /\ flight.seen /\ flight' = Keep!Free /\ UNCHANGED <<api, quiet, handle, lost>>
        /\ idle' = IF flight.kind \in {"class3", "probe"} THEN 0 ELSE idle
        /\ IF flight.kind = "probe" THEN Keep!Loop(idle') ELSE UNCHANGED <<probe, wake>>
    BY <1>5 DEF Keep!Answered, Keep!touch
  <2>2. idle' \in Nat /\ quiet <= idle' + T
    BY <1>0, <2>1 DEF KeepFed
  <2>3. CASE flight.kind = "probe"
    <3>1. probe = "flight" /\ quiet <= T /\ idle' = 0
      BY <1>0, <2>1, <2>3 DEF KeepTypes, KeepFed
    <3> QED BY <1>0, <1>3, <2>1, <2>2, <2>3, <3>1
  <2>4. CASE flight.kind # "probe"
    <3>1. probe # "flight"
      BY <1>0, <2>4 DEF KeepTypes
    <3> QED BY <1>4, <2>1, <2>2, <2>4, <3>1
  <2> QED BY <2>3, <2>4
<1>6. CASE Keep!TimedOut
  <2>1. /\ flight.kind # "none" /\ flight.left = 0 /\ flight' = Keep!Free /\ UNCHANGED <<api, idle, quiet, handle, lost>>
        /\ IF flight.kind = "probe" THEN Keep!Loop(idle) ELSE UNCHANGED <<probe, wake>>
    BY <1>6 DEF Keep!TimedOut
  <2>2. quiet <= idle + T
    BY <1>0 DEF KeepFed
  <2>3. CASE flight.kind = "probe"
    <3>1. probe = "flight"
      BY <1>0, <2>3 DEF KeepTypes
    <3>2. quiet <= N + T + Losses
      <4>1. CASE flight.seen
        BY <1>0, <2>1, <2>3, <4>1 DEF KeepFed
      <4>2. CASE ~flight.seen
        BY <1>0, <2>1, <3>1, <4>2 DEF KeepFed
      <4> QED BY <4>1, <4>2
    <3> QED BY <1>0, <1>3, <2>1, <2>2, <2>3, <3>1, <3>2
  <2>4. CASE flight.kind # "probe"
    <3>1. probe # "flight"
      BY <1>0, <2>4 DEF KeepTypes
    <3> QED BY <1>0, <1>4, <2>1, <2>2, <2>4, <3>1
  <2> QED BY <2>3, <2>4
<1>7. CASE Keep!Wake
  <2>1. probe = "sleep" /\ wake = 0 /\ UNCHANGED <<api, idle, quiet, flight, handle, lost>>
    BY <1>7 DEF Keep!Wake
  <2>2. N' = N /\ Losses' = Losses /\ quiet <= N + T + Losses /\ quiet <= idle + T /\ flight.kind # "probe"
    BY <1>0, <1>00, <1>l, <2>1 DEF KeepFed, KeepTypes
  <2>3. CASE probe' = "gone" /\ ~handle /\ wake' = wake
    <3>1. KeepTypes'
      BY <1>0, <2>1, <2>2, <2>3 DEF KeepTypes
    <3>2. KeepFed'
      BY <1>0, <2>1, <2>2, <2>3 DEF KeepFed
    <3> QED BY <3>1, <3>2 DEF KeepInv
  <2>4. CASE probe' = "queued" /\ wake' = wake
    <3>1. KeepTypes'
      BY <1>0, <2>1, <2>2, <2>4 DEF KeepTypes
    <3>2. quiet' + flight'.left <= N + 2 * T + Losses
      BY <1>0, <2>1, <2>2
    <3>3. KeepFed'
      BY <1>0, <2>1, <2>2, <2>4, <3>2 DEF KeepFed
    <3> QED BY <3>1, <3>3 DEF KeepInv
  <2>5. CASE Keep!Loop(idle) /\ handle /\ ~Keep!keepalive_due
    <3>1. probe' = "sleep" /\ wake' = Keep!SleepFor(idle) /\ idle < N
      BY <1>0, <2>5 DEF Keep!Loop, Keep!keepalive_due
    <3>2. wake' \in Nat /\ idle + wake' <= N
      BY <1>0, <3>1, SleepBound
    <3>3. KeepTypes'
      BY <1>0, <2>1, <2>2, <3>1, <3>2 DEF KeepTypes
    <3>4. quiet' + wake' <= N + T + Losses
      <4>1. quiet' = quiet /\ quiet \in Nat /\ idle \in Nat /\ N \in Nat /\ T \in Nat /\ Losses \in Nat
        BY <1>0, <2>1
      <4> QED BY <1>q, <3>2, <4>1, KeepSums
    <3>5. KeepFed'
      BY <1>0, <2>1, <2>2, <3>1, <3>4 DEF KeepFed
    <3> QED BY <3>3, <3>5 DEF KeepInv
  <2> QED BY <1>7, <2>3, <2>4, <2>5 DEF Keep!Wake
<1>8. CASE Keep!SessionLost
  <2>1. /\ probe' = "gone" /\ flight' = Keep!Free /\ handle' = FALSE
        /\ UNCHANGED <<api, idle, quiet, wake, lost>>
    BY <1>8 DEF Keep!SessionLost
  <2>2. KeepTypes'
    BY <1>0, <1>f, <2>1 DEF KeepTypes
  <2>3. KeepFed'
    BY <1>0, <1>f, <2>1 DEF KeepFed
  <2> QED BY <2>2, <2>3 DEF KeepInv
<1>9. CASE Keep!Drop
  <2>1. handle' = FALSE /\ UNCHANGED <<api, idle, quiet, flight, probe, wake, lost>>
    BY <1>9 DEF Keep!Drop
  <2>2. KeepTypes'
    BY <1>0, <2>1 DEF KeepTypes
  <2>3. N' = N /\ Losses' = Losses
    BY <1>00, <1>l, <2>1
  <2>4. KeepFed'
    BY <1>0, <2>1, <2>3 DEF KeepFed
  <2> QED BY <2>2, <2>4 DEF KeepInv
<1>10. CASE Keep!Tick
  <2>1. /\ ~Keep!Ready /\ probe # "gone"
        /\ idle' = Keep!Later(idle) /\ quiet' = Keep!Later(quiet)
        /\ flight' = IF flight = Keep!Free THEN flight ELSE [flight EXCEPT !.left = @ - 1]
        /\ wake' = IF probe = "sleep" THEN wake - 1 ELSE wake
        /\ UNCHANGED <<api, probe, handle, lost>>
    BY <1>10 DEF Keep!Tick
  <2>2. N' = N /\ Losses' = Losses
    BY <1>00, <1>l, <2>1
  <2>3. quiet <= W /\ N + 2 * T + Losses <= W
    BY <1>0, <2>1
  <2>4. idle' \in Nat /\ quiet' = quiet + 1 /\ (idle' = idle + 1 \/ (idle' = idle /\ idle > W))
    BY <1>0, <2>1, <2>3 DEF Keep!Later
  <2>5. probe = "sleep" => wake' \in Nat /\ wake' = wake - 1
    BY <1>0, <2>1 DEF Keep!Ready
  <2>6. /\ flight' \in [kind : {"none", "class3", "ucmm", "probe"}, left : 0..T, seen : BOOLEAN]
        /\ flight'.kind = flight.kind /\ flight'.seen = flight.seen
        /\ flight.kind # "none" => flight'.left = flight.left - 1
        /\ flight.kind = "none" => flight' = Keep!Free
    <3>1. CASE flight = Keep!Free
      BY <1>0, <1>f, <2>1, <3>1 DEF KeepTypes
    <3>2. CASE flight # Keep!Free
      <4>1. flight.kind # "none" /\ flight.left - 1 \in 0..T
        BY <1>0, <2>1, <3>2 DEF KeepTypes, Keep!Ready
      <4>2. flight \in [kind : {"none", "class3", "ucmm", "probe"}, left : 0..T, seen : BOOLEAN]
        BY <1>0 DEF KeepTypes
      <4> QED BY <2>1, <3>2, <4>1, <4>2
    <3> QED BY <3>1, <3>2
  <2>7. KeepTypes'
    BY <1>0, <2>1, <2>4, <2>5, <2>6 DEF KeepTypes
  <2>8. probe = "queued" => flight.kind # "none"
    BY <1>0, <2>1 DEF KeepTypes, Keep!Ready
  <2> HIDE DEF N, W
  <2>9. quiet' <= idle' + T
    <3>1. CASE idle' = idle + 1
      BY <1>0, <1>q, <2>4, <3>1
    <3>2. CASE idle' = idle /\ idle > W
      <4>1. W \in Nat /\ quiet <= W /\ T \in Nat /\ idle \in Nat /\ quiet \in Nat
        BY <1>0, <2>3
      <4> HIDE DEF T
      <4> QED BY <2>4, <3>2, <4>1
    <3> QED BY <2>4, <3>1, <3>2
  <2>10. KeepFed'
    <3>1. flight'.kind \in {"class3", "probe"} /\ flight'.seen => quiet' + flight'.left <= T
      BY <1>0, <2>4, <2>6 DEF KeepFed
    <3>2. probe' = "sleep" => quiet' + wake' <= N' + T + Losses'
      BY <1>0, <2>1, <2>2, <2>4, <2>5 DEF KeepFed, N
    <3>3. probe' = "queued" => quiet' + flight'.left <= N' + 2 * T + Losses'
      BY <1>0, <2>1, <2>2, <2>4, <2>6, <2>8 DEF KeepFed, N
    <3>4. probe' = "flight" /\ ~flight'.seen => quiet' + flight'.left <= N' + T + Losses'
      BY <1>0, <2>1, <2>2, <2>4, <2>6 DEF KeepFed, KeepTypes, N
    <3> QED BY <2>9, <3>1, <3>2, <3>3, <3>4 DEF KeepFed, N
  <2> QED BY <2>7, <2>10 DEF KeepInv
<1>11. CASE UNCHANGED Keep!vars
  <2>1. UNCHANGED <<api, idle, quiet, flight, probe, wake, handle, lost>>
    BY <1>11 DEF Keep!vars
  <2>2. KeepTypes'
    BY <1>0, <2>1 DEF KeepTypes
  <2>3. N' = N /\ Losses' = Losses
    BY <1>00, <1>l, <2>1
  <2>4. KeepFed'
    BY <1>0, <2>1, <2>3 DEF KeepFed
  <2> QED BY <2>2, <2>4 DEF KeepInv
<1> QED BY <1>1, <1>2, <1>5, <1>6, <1>7, <1>8, <1>9, <1>10, <1>11 DEF Keep!Next

-----------------------------------------------------------------------------
(* The connect attempt *)

\* Where an attempt is and what it has to show for it.
ConnectPhases ==
    /\ phase \in {"tcp", "tls", "register", "class3", "posture", "identity", "forward_open",
                  "probe_tcp", "probe", "done"}
    /\ mode \in {"plain", "tls", "push"} /\ named \in BOOLEAN
    /\ phase \in {"tcp", "tls", "register", "class3"} => ~opened /\ err = "none"
    /\ phase \in {"posture", "identity", "forward_open"} => opened /\ err = "none"
    /\ phase = "forward_open" => mode = "push"
    /\ named \/ phase \in {"probe_tcp", "probe"} =>
           ~opened /\ mode = "plain" /\ Attempt!is_registration_failure(err)
    /\ opened /\ mode # "push" /\ phase = "done" => result = "ok" \/ (result = "timeout" /\ now >= AttemptTimeout)
    /\ err # "none" /\ phase = "done" /\ result # "timeout" => result = Attempt!map_enip_error(err)

ObjectNames == {"cip", "eip", "cert"}
Rank(o) == CASE o = "cip" -> 1 [] o = "eip" -> 2 [] o = "cert" -> 3

\* An object's attribute that the device answers, of an object that is there.
Serves(p) == p[2] \in device[p[1]] /\ (p[1] = "cert" \/ 1 \in device[p[1]])

\* What lies before the <<object, attribute>> at.
Before(p, at) == Rank(p[1]) < at[1] \/ (Rank(p[1]) = at[1] /\ p[2] < at[2])

ReadUpTo(at) == {p \in ObjectNames \X (1..Attrs) : Serves(p) /\ Before(p, at)}

\* The posture is read in order, and nothing is reported before the whole of it.
ConnectPosture ==
    /\ phase \in {"tcp", "tls", "register", "class3", "posture"} =>
           /\ attr \in (1..3) \X (1..Attrs)
           /\ read = ReadUpTo(attr)
           /\ attr[2] > 1 /\ attr[1] # 3 => 1 \in device[Attempt!Object]
           /\ posture = Attempt!map_target_posture({})
    /\ phase \in {"tcp", "tls", "register", "class3"} => attr = <<1, 1>>
    /\ Attempt!PostureWhole

ConnectInv == ConnectPhases /\ ConnectPosture

\* A failed open ends the attempt with the class of its error, or asks the peer for its name.
LEMMA AttemptFails ==
    ASSUME ConnectPhases, NEW e, e # "none", Attempt!Fail(e),
           phase \in {"tcp", "tls", "register", "class3", "forward_open"},
           UNCHANGED <<mode, now, opened, named>>
    PROVE  ConnectPhases'
<1>1. ~named /\ (phase # "forward_open" => ~opened) /\ (opened => mode = "push")
  BY DEF ConnectPhases, Attempt!is_registration_failure
<1>2. mode \in {"plain", "tls", "push"} /\ named \in BOOLEAN
  BY DEF ConnectPhases
<1>3. CASE Attempt!identity_of_unregisterable_peer(e)
  <2>1. err' = e /\ phase' = "probe_tcp" /\ mode = "plain" /\ Attempt!is_registration_failure(e)
    BY <1>3 DEF Attempt!Fail, Attempt!Goto, Attempt!identity_of_unregisterable_peer
  <2>2. Attempt!is_registration_failure(err')
    BY <2>1
  <2> QED BY <1>1, <1>2, <2>1, <2>2 DEF ConnectPhases, Attempt!is_registration_failure
<1>4. CASE ~Attempt!identity_of_unregisterable_peer(e)
  <2>1. err' = e /\ phase' = "done" /\ result' = Attempt!map_enip_error(e)
    BY <1>4 DEF Attempt!Fail, Attempt!End
  <2>2. result' = Attempt!map_enip_error(err)'
    BY <2>1 DEF Attempt!map_enip_error
  <2> QED BY <1>1, <1>2, <2>1, <2>2 DEF ConnectPhases
<1> QED BY <1>3, <1>4

\* The steps of the open.
LEMMA OpeningPhases ==
    ASSUME ConnectPhases, Attempt!Same,
           \/ \E e \in {"none", "io"} : Attempt!Tcp(e)
           \/ \E e \in {"none"} \cup Attempt!TlsErrors : Attempt!TlsHandshake(e)
           \/ \E e \in {"none"} \cup Attempt!RegisterErrors : Attempt!Register(e)
           \/ \E e \in {"none"} \cup Attempt!OpenErrors : Attempt!Class3(e)
           \/ Attempt!OpenTimeout
    PROVE  ConnectPhases'
<1>0. UNCHANGED <<mode, now>>
  BY DEF Attempt!Same
<1>1. mode \in {"plain", "tls", "push"} /\ named \in BOOLEAN
  BY DEF ConnectPhases
<1>2. phase \in {"tcp", "tls", "register", "class3"} => ~opened /\ err = "none" /\ ~named
  BY DEF ConnectPhases, Attempt!is_registration_failure
<1>3. ASSUME UNCHANGED <<opened, err, named>>, ~opened, err = "none", ~named,
             phase' \in {"tls", "register", "class3"}
      PROVE ConnectPhases'
  BY <1>0, <1>1, <1>3 DEF ConnectPhases
<1>4. ASSUME Attempt!Opened, UNCHANGED <<err, named>>, err = "none", ~named
      PROVE ConnectPhases'
  <2>1. opened' = TRUE /\ phase' \in {"identity", "posture"}
    BY <1>4 DEF Attempt!Opened, Attempt!Goto
  <2> QED BY <1>0, <1>1, <1>4, <2>1 DEF ConnectPhases
<1>5. ASSUME NEW e \in {"none", "io"}, Attempt!Tcp(e) PROVE ConnectPhases'
  <2>1. phase = "tcp" /\ UNCHANGED named
    BY <1>5 DEF Attempt!Tcp
  <2>2. CASE e = "none"
    BY <1>2, <1>3, <1>5, <2>1, <2>2 DEF Attempt!Tcp, Attempt!Goto
  <2>3. CASE e # "none"
    BY <1>0, <1>5, <2>1, <2>3, AttemptFails DEF Attempt!Tcp
  <2> QED BY <2>2, <2>3
<1>6. ASSUME NEW e \in {"none"} \cup Attempt!TlsErrors, Attempt!TlsHandshake(e) PROVE ConnectPhases'
  <2>1. phase = "tls" /\ UNCHANGED <<opened, named>>
    BY <1>6 DEF Attempt!TlsHandshake
  <2>2. CASE e = "none"
    BY <1>2, <1>3, <1>6, <2>1, <2>2 DEF Attempt!TlsHandshake, Attempt!Goto
  <2>3. CASE e # "none"
    BY <1>0, <1>6, <2>1, <2>3, AttemptFails DEF Attempt!TlsHandshake
  <2> QED BY <2>2, <2>3
<1>7. ASSUME NEW e \in {"none"} \cup Attempt!RegisterErrors, Attempt!Register(e) PROVE ConnectPhases'
  <2>1. phase = "register" /\ UNCHANGED named
    BY <1>7 DEF Attempt!Register
  <2>2. CASE e = "none" /\ connected
    BY <1>2, <1>3, <1>7, <2>1, <2>2 DEF Attempt!Register, Attempt!Goto
  <2>3. CASE e = "none" /\ ~connected
    BY <1>2, <1>4, <1>7, <2>1, <2>3 DEF Attempt!Register
  <2>4. CASE e # "none"
    BY <1>0, <1>7, <2>1, <2>4, AttemptFails DEF Attempt!Register
  <2> QED BY <2>2, <2>3, <2>4
<1>8. ASSUME NEW e \in {"none"} \cup Attempt!OpenErrors, Attempt!Class3(e) PROVE ConnectPhases'
  <2>1. phase = "class3" /\ UNCHANGED named
    BY <1>8 DEF Attempt!Class3
  <2>2. CASE e = "none"
    BY <1>2, <1>4, <1>8, <2>1, <2>2 DEF Attempt!Class3
  <2>3. CASE e # "none"
    BY <1>0, <1>8, <2>1, <2>3, AttemptFails DEF Attempt!Class3
  <2> QED BY <2>2, <2>3
<1>9. CASE Attempt!OpenTimeout
  <2>1. /\ UNCHANGED <<opened, named>>
        /\ \E e \in {"timeout_connect", "timeout_tls", "timeout_register", "timeout_request"} : Attempt!Fail(e)
        /\ phase \in {"tcp", "tls", "register", "class3"}
    BY <1>9 DEF Attempt!OpenTimeout
  <2>2. PICK e : e # "none" /\ Attempt!Fail(e)
    BY <2>1
  <2> QED BY <1>0, <2>1, <2>2, AttemptFails
<1> QED BY <1>5, <1>6, <1>7, <1>8, <1>9

\* Every step of an attempt is one of its five kinds.
LEMMA AttemptNext ==
    ASSUME Attempt!Next
    PROVE  \/ /\ Attempt!Same
              /\ \/ \E e \in {"none", "io"} : Attempt!Tcp(e)
                 \/ \E e \in {"none"} \cup Attempt!TlsErrors : Attempt!TlsHandshake(e)
                 \/ \E e \in {"none"} \cup Attempt!RegisterErrors : Attempt!Register(e)
                 \/ \E e \in {"none"} \cup Attempt!OpenErrors : Attempt!Class3(e)
                 \/ Attempt!OpenTimeout
           \/ Attempt!PostureReply \/ Attempt!PostureFails
           \/ /\ phase \in {"probe_tcp", "probe", "identity", "forward_open"} /\ Attempt!Same /\ Attempt!NoPosture
              /\ \/ \E ok \in BOOLEAN : Attempt!ProbeTcp(ok) \/ Attempt!list_identity_over(ok) \/ Attempt!read_identity(ok)
                 \/ Attempt!ProbeTimeout \/ Attempt!IdentityTimeout \/ Attempt!ForwardOpenTimeout
                 \/ \E e \in {"none", "io", "closed"} \cup Attempt!OpenErrors : Attempt!ForwardOpen(e)
           \/ Attempt!Elapsed \/ Attempt!Breaks \/ Attempt!Tick
<1>1. ASSUME NEW e, Attempt!Tcp(e) \/ Attempt!TlsHandshake(e) \/ Attempt!Register(e) \/ Attempt!Class3(e)
      PROVE Attempt!Same
  BY <1>1 DEF Attempt!Tcp, Attempt!TlsHandshake, Attempt!Register, Attempt!Class3
<1>2. Attempt!OpenTimeout => Attempt!Same
  BY DEF Attempt!OpenTimeout
<1>3. ASSUME NEW ok, Attempt!ProbeTcp(ok) \/ Attempt!list_identity_over(ok) \/ Attempt!read_identity(ok)
      PROVE phase \in {"probe_tcp", "probe", "identity", "forward_open"} /\ Attempt!Same /\ Attempt!NoPosture
  BY <1>3 DEF Attempt!ProbeTcp, Attempt!list_identity_over, Attempt!read_identity
<1>4. ASSUME Attempt!ProbeTimeout \/ Attempt!IdentityTimeout \/ Attempt!ForwardOpenTimeout
      PROVE phase \in {"probe_tcp", "probe", "identity", "forward_open"} /\ Attempt!Same /\ Attempt!NoPosture
  BY <1>4 DEF Attempt!ProbeTimeout, Attempt!IdentityTimeout, Attempt!ForwardOpenTimeout
<1>5. ASSUME NEW e, Attempt!ForwardOpen(e)
      PROVE phase \in {"probe_tcp", "probe", "identity", "forward_open"} /\ Attempt!Same /\ Attempt!NoPosture
  BY <1>5 DEF Attempt!ForwardOpen
<1> QED BY <1>1, <1>2, <1>3, <1>4, <1>5 DEF Attempt!Next

\* Each step keeps what the phases say.
LEMMA ConnectPhasesStep == ConnectPhases /\ [Attempt!Next]_(Attempt!vars) => ConnectPhases'
<1> SUFFICES ASSUME ConnectPhases, [Attempt!Next]_(Attempt!vars) PROVE ConnectPhases'
  OBVIOUS
<1>0. mode \in {"plain", "tls", "push"} /\ named \in BOOLEAN
  BY DEF ConnectPhases
<1>p. ASSUME phase' = "identity" \/ phase' = "posture", phase = "posture", UNCHANGED <<mode, opened, err, named>>
      PROVE ConnectPhases'
  BY <1>0, <1>p DEF ConnectPhases, Attempt!is_registration_failure
<1>e. ASSUME NEW b \in BOOLEAN, phase \in {"probe_tcp", "probe"}, named' = b, phase' = "done",
             result' = Attempt!map_enip_error(err), UNCHANGED <<mode, opened, err>>
      PROVE ConnectPhases'
  <2>1. ~opened /\ mode = "plain" /\ Attempt!is_registration_failure(err)
    BY <1>e DEF ConnectPhases
  <2>2. result' = Attempt!map_enip_error(err)' /\ Attempt!is_registration_failure(err)'
    BY <1>e, <2>1 DEF Attempt!map_enip_error, Attempt!is_registration_failure
  <2> QED BY <1>0, <1>e, <2>1, <2>2 DEF ConnectPhases
<1>i. ASSUME Attempt!Same, phase = "identity", UNCHANGED <<opened, err, named>>,
             IF mode = "push" THEN phase' = "forward_open" ELSE phase' = "done" /\ result' = "ok"
      PROVE ConnectPhases'
  <2>1. opened /\ err = "none" /\ ~named /\ UNCHANGED mode
    BY <1>i DEF ConnectPhases, Attempt!Same
  <2> QED BY <1>0, <1>i, <2>1 DEF ConnectPhases
<1>1. CASE Attempt!PostureReply
  BY <1>1, <1>p DEF Attempt!PostureReply, Attempt!Identity, Attempt!Goto, Attempt!Same
<1>2. CASE Attempt!PostureFails
  BY <1>2, <1>p DEF Attempt!PostureFails, Attempt!Identity, Attempt!Goto, Attempt!Same
<1>3. ASSUME NEW ok \in BOOLEAN, Attempt!ProbeTcp(ok) PROVE ConnectPhases'
  <2>1. phase = "probe_tcp" /\ UNCHANGED <<mode, opened, err>>
    BY <1>3 DEF Attempt!ProbeTcp, Attempt!Same
  <2>2. CASE ok
    <3>1. phase' = "probe" /\ UNCHANGED named
      BY <1>3, <2>2 DEF Attempt!ProbeTcp, Attempt!Goto
    <3>2. Attempt!is_registration_failure(err)' <=> Attempt!is_registration_failure(err)
      BY <2>1 DEF Attempt!is_registration_failure
    <3> QED BY <1>0, <2>1, <3>1, <3>2 DEF ConnectPhases
  <2>3. CASE ~ok
    BY <1>3, <1>e, <2>1, <2>3 DEF Attempt!ProbeTcp, Attempt!ProbeEnds, Attempt!End
  <2> QED BY <2>2, <2>3
<1>4. ASSUME NEW ok \in BOOLEAN, Attempt!list_identity_over(ok) PROVE ConnectPhases'
  BY <1>4, <1>e DEF Attempt!list_identity_over, Attempt!ProbeEnds, Attempt!End, Attempt!Same
<1>5. CASE Attempt!ProbeTimeout
  BY <1>5, <1>e DEF Attempt!ProbeTimeout, Attempt!ProbeEnds, Attempt!End, Attempt!Same
<1>6. ASSUME NEW ok \in BOOLEAN, Attempt!read_identity(ok) PROVE ConnectPhases'
  BY <1>6, <1>i DEF Attempt!read_identity, Attempt!IdentityEnds, Attempt!Goto, Attempt!End
<1>7. CASE Attempt!IdentityTimeout
  BY <1>7, <1>i DEF Attempt!IdentityTimeout, Attempt!IdentityEnds, Attempt!Goto, Attempt!End
<1>8. ASSUME NEW e \in {"none", "io", "closed"} \cup Attempt!OpenErrors, Attempt!ForwardOpen(e) PROVE ConnectPhases'
  <2>1. phase = "forward_open" /\ UNCHANGED <<mode, now, opened, named>>
    BY <1>8 DEF Attempt!ForwardOpen, Attempt!Same
  <2>2. CASE e = "none"
    <3>1. phase' = "done" /\ UNCHANGED err /\ mode = "push" /\ err = "none" /\ ~named
      BY <1>8, <2>1, <2>2 DEF Attempt!ForwardOpen, Attempt!End, ConnectPhases
    <3> QED BY <1>0, <2>1, <3>1 DEF ConnectPhases
  <2>3. CASE e # "none"
    BY <1>8, <2>1, <2>3, AttemptFails DEF Attempt!ForwardOpen
  <2> QED BY <2>2, <2>3
<1>9. CASE Attempt!ForwardOpenTimeout
  BY <1>9, AttemptFails DEF Attempt!ForwardOpenTimeout, Attempt!Same
<1>10. CASE Attempt!Elapsed
  <2>1. phase' = "done" /\ result' = "timeout" /\ now' >= AttemptTimeout /\ UNCHANGED <<mode, opened, err, named>>
    BY <1>10 DEF Attempt!Elapsed, Attempt!End, Attempt!Same
  <2>2. Attempt!is_registration_failure(err)' <=> Attempt!is_registration_failure(err)
    BY <2>1 DEF Attempt!is_registration_failure
  <2> QED BY <1>0, <2>1, <2>2 DEF ConnectPhases
<1>11. CASE Attempt!Breaks \/ Attempt!Tick
  <2>1. phase # "done" /\ UNCHANGED <<phase, mode, opened, err, named, result>>
    BY <1>11 DEF Attempt!Breaks, Attempt!Tick, Attempt!Same
  <2>2. Attempt!is_registration_failure(err)' <=> Attempt!is_registration_failure(err)
    BY <2>1 DEF Attempt!is_registration_failure
  <2> QED BY <1>0, <2>1, <2>2 DEF ConnectPhases
<1>12. CASE UNCHANGED Attempt!vars
  <2>1. UNCHANGED <<phase, mode, opened, err, named, result, now>>
    BY <1>12 DEF Attempt!vars
  <2>2. /\ Attempt!is_registration_failure(err)' <=> Attempt!is_registration_failure(err)
        /\ Attempt!map_enip_error(err)' = Attempt!map_enip_error(err)
    BY <2>1 DEF Attempt!is_registration_failure, Attempt!map_enip_error
  <2> QED BY <1>0, <2>1, <2>2 DEF ConnectPhases
<1> QED BY <1>1, <1>2, <1>3, <1>4, <1>5, <1>6, <1>7, <1>8, <1>9, <1>10, <1>11, <1>12, AttemptNext, OpeningPhases

\* The objects in the order they are read.
LEMMA ObjectRank ==
    /\ \A i \in 1..3 : Attempt!Objects[i] \in ObjectNames /\ Rank(Attempt!Objects[i]) = i
    /\ \A o \in ObjectNames : Rank(o) \in 1..3 /\ o = Attempt!Objects[Rank(o)]
    /\ \A i \in 1..3 : Attempt!Objects[i] = "cert" <=> i = 3
BY DEF Attempt!Objects, ObjectNames, Rank

\* Nothing comes before the first attribute, and everything before the end.
LEMMA ReadEnds ==
    /\ Attrs \in Nat => ReadUpTo(<<1, 1>>) = {}
    /\ ReadUpTo(<<4, 1>>) = {p \in ObjectNames \X (1..Attrs) : Serves(p)}
<1>1. ASSUME NEW p \in ObjectNames \X (1..Attrs) PROVE Rank(p[1]) \in 1..3 /\ p[2] \in 1..Attrs
  <2>1. p[1] \in ObjectNames /\ p[2] \in 1..Attrs
    OBVIOUS
  <2> QED BY <2>1, ObjectRank
<1>2. ASSUME NEW p \in ObjectNames \X (1..Attrs), Attrs \in Nat PROVE ~Before(p, <<1, 1>>)
  BY <1>1, <1>2 DEF Before
<1>3. ASSUME NEW p \in ObjectNames \X (1..Attrs) PROVE Before(p, <<4, 1>>)
  BY <1>1 DEF Before
<1> QED BY <1>2, <1>3 DEF ReadUpTo

\* One answer moves the reading on by one attribute, or past an object that is not there.
LEMMA ReadMore ==
    ASSUME Attrs \in Nat, attr \in (1..3) \X (1..Attrs), read = ReadUpTo(attr),
           attr[2] > 1 /\ attr[1] # 3 => 1 \in device[Attempt!Object],
           NEW ok, ok = (attr[2] \in device[Attempt!Object]),
           NEW g, g = IF ok THEN read \cup {<<Attempt!Object, attr[2]>>} ELSE read
    PROVE  /\ g = ReadUpTo(Attempt!NextAttr(ok))
           /\ \/ Attempt!NextAttr(ok) = <<attr[1] + 1, 1>>
              \/ /\ Attempt!NextAttr(ok) = <<attr[1], attr[2] + 1>> /\ attr[2] + 1 \in 1..Attrs
                 /\ attr[1] # 3 => 1 \in device[Attempt!Object]
<1> DEFINE i == attr[1]
           a == attr[2]
           o == Attempt!Object
           n == Attempt!NextAttr(ok)
<1>1. i \in 1..3 /\ a \in 1..Attrs /\ o = Attempt!Objects[i]
  BY DEF Attempt!Object
<1>2. o \in ObjectNames /\ Rank(o) = i /\ (o = "cert" <=> i = 3)
  BY <1>1, ObjectRank
<1>3. ok \in BOOLEAN /\ (Attempt!Gate <=> a = 1 /\ i # 3)
  BY <1>2 DEF Attempt!Gate
<1>4. n = IF (a = 1 /\ i # 3 /\ ~ok) \/ a = Attrs THEN <<i + 1, 1>> ELSE <<i, a + 1>>
  BY <1>3 DEF Attempt!NextAttr
<1>5. \/ n = <<i + 1, 1>> /\ ((a = 1 /\ i # 3 /\ ~ok) \/ a = Attrs)
      \/ n = <<i, a + 1>> /\ a # Attrs /\ ~(a = 1 /\ i # 3 /\ ~ok)
  BY <1>4
<1>6. <<o, a>> \in ObjectNames \X (1..Attrs)
  BY <1>1, <1>2
<1>7. ok => Serves(<<o, a>>)
  <2> SUFFICES ASSUME ok PROVE a \in device[o] /\ (o = "cert" \/ 1 \in device[o])
    BY DEF Serves
  <2>1. a \in device[o]
    OBVIOUS
  <2>2. CASE a = 1
    BY <2>1, <2>2
  <2>3. CASE a > 1
    BY <1>2, <2>1, <2>3
  <2> QED BY <1>1, <2>1, <2>2, <2>3
<1>8. ASSUME NEW p \in ObjectNames \X (1..Attrs), Serves(p)
      PROVE Before(p, n) <=> Before(p, attr) \/ (p = <<o, a>>)
  <2>1. p[1] \in ObjectNames /\ p[2] \in 1..Attrs /\ p = <<p[1], p[2]>>
    OBVIOUS
  <2>2. Rank(p[1]) \in 1..3 /\ (Rank(p[1]) = i <=> p[1] = o)
    BY <1>1, <1>2, <2>1, ObjectRank
  <2>3. p = <<o, a>> <=> Rank(p[1]) = i /\ p[2] = a
    BY <2>1, <2>2
  <2>4. Before(p, attr) <=> Rank(p[1]) < i \/ (Rank(p[1]) = i /\ p[2] < a)
    BY DEF Before
  <2>5. CASE n = <<i, a + 1>>
    <3>1. Before(p, n) <=> Rank(p[1]) < i \/ (Rank(p[1]) = i /\ p[2] < a + 1)
      BY <2>5 DEF Before
    <3> HIDE DEF i, a, o, n
    <3> QED BY <1>1, <2>1, <2>2, <2>3, <2>4, <3>1
  <2>6. CASE n = <<i + 1, 1>> /\ a = Attrs
    <3>1. Before(p, n) <=> Rank(p[1]) < i + 1 \/ (Rank(p[1]) = i + 1 /\ p[2] < 1)
      BY <2>6 DEF Before
    <3> HIDE DEF i, a, o, n
    <3> QED BY <1>1, <2>1, <2>2, <2>3, <2>4, <2>6, <3>1
  <2>7. CASE n = <<i + 1, 1>> /\ a = 1 /\ i # 3 /\ ~ok
    <3>1. Before(p, n) <=> Rank(p[1]) < i + 1 \/ (Rank(p[1]) = i + 1 /\ p[2] < 1)
      BY <2>7 DEF Before
    <3>2. 1 \notin device[o] /\ o # "cert"
      BY <1>2, <2>7
    <3>3. p[1] # o
      BY <1>8, <3>2 DEF Serves
    <3> HIDE DEF i, a, o, n
    <3> QED BY <1>1, <2>1, <2>2, <2>3, <2>4, <2>7, <3>1, <3>3
  <2> QED BY <1>5, <2>5, <2>6, <2>7
<1>9. g = ReadUpTo(n)
  <2>1. ok \/ ~Serves(<<o, a>>)
    BY DEF Serves
  <2>2. ASSUME NEW p PROVE p \in g <=> p \in ReadUpTo(n)
    <3>1. p \in g <=> p \in ReadUpTo(attr) \/ (ok /\ p = <<o, a>>)
      BY <1>3
    <3> HIDE DEF i, a, o, n
    <3> QED BY <1>6, <1>7, <1>8, <2>1, <3>1 DEF ReadUpTo
  <2> QED BY <2>2
<1>10. a # 1 => a > 1
  BY <1>1
<1>11. n = <<i, a + 1>> /\ a # Attrs /\ ~(a = 1 /\ i # 3 /\ ~ok) => a + 1 \in 1..Attrs /\ (i # 3 => 1 \in device[o])
  <2>1. a # Attrs => a + 1 \in 1..Attrs
    BY <1>1
  <2> QED BY <1>10, <2>1
<1> QED BY <1>5, <1>9, <1>11

\* Outside the reading the posture stays what it was.
LEMMA PostureSame ==
    ASSUME ConnectPosture, UNCHANGED <<device, attr, read, posture>>,
           \/ /\ phase \in {"tcp", "tls", "register", "class3"}
              /\ phase' \notin {"tcp", "tls", "register", "class3"} \/ phase' = phase \/ attr = <<1, 1>>
           \/ phase' \notin {"tcp", "tls", "register", "class3", "posture"}
           \/ phase' = phase
    PROVE  ConnectPosture'
<1>1. ReadUpTo(attr)' = ReadUpTo(attr) /\ Attempt!Object' = Attempt!Object /\ Attempt!PostureWhole' = Attempt!PostureWhole
  BY DEF ReadUpTo, Serves, Before, Attempt!Object, Attempt!PostureWhole
<1>2. Attempt!map_target_posture({})' = Attempt!map_target_posture({})
  BY DEF Attempt!map_target_posture
<1> QED BY <1>1, <1>2 DEF ConnectPosture

\* Each step keeps the reading in order, and a broken one shows nothing.
LEMMA ConnectPostureStep == ConnectPosture /\ [Attempt!Next]_(Attempt!vars) => ConnectPosture'
<1> SUFFICES ASSUME ConnectPosture, [Attempt!Next]_(Attempt!vars) PROVE ConnectPosture'
  OBVIOUS
<1>0. Attrs \in Nat /\ Attrs > 0 /\ Shown \subseteq ObjectNames \X (1..Attrs)
  BY ShownAreRead DEF Attempt!Shows, ObjectNames
<1>1. ASSUME Attempt!Same,
           \/ \E e \in {"none", "io"} : Attempt!Tcp(e)
           \/ \E e \in {"none"} \cup Attempt!TlsErrors : Attempt!TlsHandshake(e)
           \/ \E e \in {"none"} \cup Attempt!RegisterErrors : Attempt!Register(e)
           \/ \E e \in {"none"} \cup Attempt!OpenErrors : Attempt!Class3(e)
           \/ Attempt!OpenTimeout
      PROVE ConnectPosture'
  <2>1. phase \in {"tcp", "tls", "register", "class3"} /\ Attempt!NoPosture
    BY <1>1 DEF Attempt!Tcp, Attempt!TlsHandshake, Attempt!Register, Attempt!Class3, Attempt!OpenTimeout
  <2>2. attr = <<1, 1>> /\ UNCHANGED <<device, attr, read, posture>>
    BY <1>1, <2>1 DEF ConnectPosture, Attempt!NoPosture, Attempt!Same
  <2> QED BY <2>1, <2>2, PostureSame
<1>2. CASE Attempt!PostureReply
  <2> DEFINE ok == attr[2] \in device[Attempt!Object]
             g == IF ok THEN read \cup {<<Attempt!Object, attr[2]>>} ELSE read
             n == Attempt!NextAttr(ok)
  <2>1. /\ phase = "posture" /\ read' = g /\ attr' = n /\ device' = device
        /\ IF n[1] > 3 THEN posture' = Attempt!map_target_posture(g) /\ phase' = "identity"
           ELSE posture' = posture /\ phase' = "posture"
    BY <1>2 DEF Attempt!PostureReply, Attempt!Identity, Attempt!Goto, Attempt!Same
  <2>2. /\ attr \in (1..3) \X (1..Attrs) /\ read = ReadUpTo(attr)
        /\ attr[2] > 1 /\ attr[1] # 3 => 1 \in device[Attempt!Object]
        /\ posture = Attempt!map_target_posture({})
    BY <2>1 DEF ConnectPosture
  <2>3. /\ g = ReadUpTo(n)
        /\ \/ n = <<attr[1] + 1, 1>>
           \/ /\ n = <<attr[1], attr[2] + 1>> /\ attr[2] + 1 \in 1..Attrs
              /\ attr[1] # 3 => 1 \in device[Attempt!Object]
    <3> HIDE DEF ok, g, n
    <3>1. ok = (attr[2] \in device[Attempt!Object]) /\ g = IF ok THEN read \cup {<<Attempt!Object, attr[2]>>} ELSE read
      BY DEF ok, g
    <3> QED BY <1>0, <2>2, <3>1, ReadMore DEF n
  <2>4. attr[1] \in 1..3 /\ attr[2] \in 1..Attrs
    BY <2>2
  <2> HIDE DEF ok, g, n
  <2>5. CASE n[1] > 3
    <3>1. n = <<4, 1>> /\ phase' = "identity" /\ posture' = Attempt!map_target_posture(g)
      BY <2>1, <2>3, <2>4, <2>5
    <3>2. g = {p \in ObjectNames \X (1..Attrs) : Serves(p)}
      BY <2>3, <3>1, ReadEnds
    <3>3. g \cap Shown = {p \in Shown : Serves(p)}
      BY <1>0, <3>2
    <3>4. posture'.shown = {p \in Shown : Serves(p)}
      BY <3>1, <3>3 DEF Attempt!map_target_posture
    <3>5. Attempt!PostureWhole'
      BY <2>1, <3>4 DEF Attempt!PostureWhole, Serves
    <3> QED BY <3>1, <3>5 DEF ConnectPosture
  <2>6. CASE ~(n[1] > 3)
    <3>1. posture' = posture /\ phase' = "posture"
      BY <2>1, <2>6
    <3>2. n \in (1..3) \X (1..Attrs) /\ (n[2] > 1 /\ n[1] # 3 => n[1] = attr[1] /\ 1 \in device[Attempt!Object])
      <4>1. CASE n = <<attr[1] + 1, 1>>
        <5>1. n[1] = attr[1] + 1 /\ n[2] = 1
          BY <4>1
        <5>2. attr[1] + 1 \in 1..3 /\ 1 \in 1..Attrs
          BY <1>0, <2>4, <2>6, <5>1
        <5> QED BY <4>1, <5>1, <5>2
      <4>2. CASE n = <<attr[1], attr[2] + 1>> /\ attr[2] + 1 \in 1..Attrs /\ (attr[1] # 3 => 1 \in device[Attempt!Object])
        BY <2>4, <4>2
      <4> QED BY <2>3, <4>1, <4>2
    <3>3. read' = ReadUpTo(attr)'
      BY <2>1, <2>3 DEF ReadUpTo, Serves, Before
    <3>4. n[1] = attr[1] => Attempt!Object' = Attempt!Object
      BY <2>1 DEF Attempt!Object
    <3>5. Attempt!PostureWhole' /\ posture' = Attempt!map_target_posture({})'
      BY <2>1, <2>2, <3>1 DEF Attempt!PostureWhole, Attempt!map_target_posture, ConnectPosture
    <3> QED BY <2>1, <3>1, <3>2, <3>3, <3>4, <3>5 DEF ConnectPosture
  <2> QED BY <2>5, <2>6
<1>3. CASE Attempt!PostureFails
  <2>1. UNCHANGED <<device, attr, read, posture>> /\ phase' = "identity"
    BY <1>3 DEF Attempt!PostureFails, Attempt!PostureDropped, Attempt!Identity, Attempt!Goto, Attempt!Same
  <2> QED BY <2>1, PostureSame
<1>4. ASSUME phase \in {"probe_tcp", "probe", "identity", "forward_open"}, Attempt!Same, Attempt!NoPosture,
           \/ \E ok \in BOOLEAN : Attempt!ProbeTcp(ok) \/ Attempt!list_identity_over(ok) \/ Attempt!read_identity(ok)
           \/ Attempt!ProbeTimeout \/ Attempt!IdentityTimeout \/ Attempt!ForwardOpenTimeout
           \/ \E e \in {"none", "io", "closed"} \cup Attempt!OpenErrors : Attempt!ForwardOpen(e)
      PROVE ConnectPosture'
  <2>1. UNCHANGED <<device, attr, read, posture>>
    BY <1>4 DEF Attempt!Same, Attempt!NoPosture
  <2>2. phase' \in {"probe_tcp", "probe", "forward_open", "done"}
    BY <1>4 DEF Attempt!ProbeTcp, Attempt!list_identity_over, Attempt!read_identity, Attempt!ProbeTimeout,
                Attempt!IdentityTimeout, Attempt!ForwardOpenTimeout, Attempt!ForwardOpen, Attempt!ProbeEnds,
                Attempt!IdentityEnds, Attempt!Goto, Attempt!End, Attempt!Fail
  <2> QED BY <2>1, <2>2, PostureSame
<1>5. CASE Attempt!Elapsed
  <2>1. UNCHANGED <<device, attr, read, posture>> /\ phase' = "done"
    BY <1>5 DEF Attempt!Elapsed, Attempt!End, Attempt!Same, Attempt!NoPosture
  <2> QED BY <2>1, PostureSame
<1>6. CASE Attempt!Breaks \/ Attempt!Tick \/ UNCHANGED Attempt!vars
  <2>1. UNCHANGED <<device, attr, read, posture>> /\ phase' = phase
    BY <1>6 DEF Attempt!Breaks, Attempt!Tick, Attempt!vars, Attempt!Same, Attempt!NoPosture
  <2> QED BY <2>1, PostureSame
<1> QED BY <1>1, <1>2, <1>3, <1>4, <1>5, <1>6, AttemptNext

\* An attempt begins with nothing opened and nothing read.
LEMMA ConnectInit == Attempt!Init => ConnectInv
<1> SUFFICES ASSUME Attempt!Init PROVE ConnectInv
  OBVIOUS
<1>1. ConnectPhases
  BY DEF Attempt!Init, ConnectPhases
<1>2. Attrs \in Nat /\ Attrs > 0
  BY ShownAreRead DEF Attempt!Shows
<1>3. attr = <<1, 1>> /\ attr \in (1..3) \X (1..Attrs) /\ ~(attr[2] > 1) /\ read = ReadUpTo(attr)
  BY <1>2, ReadEnds DEF Attempt!Init
<1>4. posture = Attempt!map_target_posture({}) /\ Attempt!PostureWhole
  BY DEF Attempt!Init, Attempt!PostureWhole, Attempt!map_target_posture
<1> QED BY <1>1, <1>3, <1>4 DEF ConnectInv, ConnectPosture

\* What the phases and the reading say is what the diagnostics promise.
LEMMA ConnectSound == ConnectInv => Attempt!PostureWhole /\ Attempt!DiagnosticsInform
BY DEF ConnectInv, ConnectPosture, ConnectPhases, Attempt!DiagnosticsInform, Attempt!is_registration_failure

-----------------------------------------------------------------------------
(* The event queue *)

QueueTypes ==
    /\ deque \in Seq(Nat) /\ received \in Seq(Nat) /\ pushed \in Nat /\ calls \in Nat
    /\ tx \in {"ready", "pushed", "closed", "gone"} /\ txClosed \in BOOLEAN /\ permit \in BOOLEAN
    /\ (tx \in {"closed", "gone"} <=> txClosed)
    /\ rx \in {"call", "created", "enabled", "asleep", "ended"}
    /\ fut \in [st : {"none", "init", "waiting", "woken", "done"}, saw : Nat]
    /\ rx \in {"enabled", "asleep"} => fut.st \in {"waiting", "woken", "done"}

\* Received and queued are what was sent, in order and once.
QueueInOrder ==
    /\ Len(received) + Len(deque) = pushed
    /\ \A i \in 1..Len(received) : received[i] = i
    /\ \A i \in 1..Len(deque) : deque[i] = Len(received) + i

\* A receiver that sleeps on something to receive, or on the end of the stream,
\* is woken or the sender still owes the wake-up; one that ended left nothing.
NoWakeupLost ==
    /\ rx = "asleep" /\ fut.st = "waiting" /\ deque # <<>> => tx = "pushed"
    /\ rx = "asleep" /\ fut.st = "waiting" /\ txClosed => tx = "closed"
    /\ rx = "ended" => deque = <<>> /\ txClosed

QueueInv == QueueTypes /\ QueueInOrder /\ NoWakeupLost

\* What is received and what is queued, together.
LEMMA QueueSums ==
    ASSUME NEW a \in Nat, NEW b \in Nat, NEW p \in Nat, a + b = p
    PROVE  a + (b + 1) = p + 1 /\ (a + 1) + (b - 1) = p
OBVIOUS

\* The queue starts empty.
LEMMA QueueInit == Queue!Init => QueueInv
<1> SUFFICES ASSUME Queue!Init PROVE QueueInv
  OBVIOUS
<1>1. <<>> \in Seq(Nat) /\ Len(<<>>) = 0
  OBVIOUS
<1>2. fut \in [st : {"none", "init", "waiting", "woken", "done"}, saw : Nat]
  BY DEF Queue!Init, Queue!NoFuture
<1>3. (tx \in {"closed", "gone"}) <=> txClosed
  BY DEF Queue!Init
<1>4. QueueTypes
  BY <1>1, <1>2, <1>3 DEF Queue!Init, QueueTypes
<1>5. QueueInOrder
  BY <1>1 DEF Queue!Init, QueueInOrder
<1>6. NoWakeupLost
  BY DEF Queue!Init, NoWakeupLost
<1> QED BY <1>4, <1>5, <1>6 DEF QueueInv

\* Each step of sender, receiver and cancellation keeps order and wake-ups.
LEMMA QueueStep == QueueInv /\ [Queue!Next]_(Queue!vars) => QueueInv'
<1> SUFFICES ASSUME QueueInv, [Queue!Next]_(Queue!vars) PROVE QueueInv'
  OBVIOUS
<1>0. QueueTypes /\ QueueInOrder /\ NoWakeupLost
  BY DEF QueueInv
<1>t. /\ deque \in Seq(Nat) /\ received \in Seq(Nat) /\ pushed \in Nat /\ calls \in Nat
      /\ tx \in {"ready", "pushed", "closed", "gone"} /\ txClosed \in BOOLEAN /\ permit \in BOOLEAN
      /\ (tx \in {"closed", "gone"} <=> txClosed)
      /\ rx \in {"call", "created", "enabled", "asleep", "ended"}
      /\ fut \in [st : {"none", "init", "waiting", "woken", "done"}, saw : Nat]
      /\ rx \in {"enabled", "asleep"} => fut.st \in {"waiting", "woken", "done"}
      /\ Len(deque) \in Nat /\ Len(received) \in Nat
  BY <1>0, LenProperties DEF QueueTypes
<1>o. ASSUME UNCHANGED <<deque, pushed, received>> PROVE QueueInOrder'
  BY <1>0, <1>o DEF QueueInOrder
<1>n. Queue!NoFuture \in [st : {"none", "init", "waiting", "woken", "done"}, saw : Nat]
  BY DEF Queue!NoFuture
<1>d. Queue!DropFuture => permit' \in BOOLEAN /\ fut' = Queue!NoFuture
  BY <1>t DEF Queue!DropFuture
<1>1. CASE Queue!Push
  <2> DEFINE d == Append(deque, pushed + 1)
  <2>1. /\ tx = "ready" /\ pushed' = pushed + 1 /\ deque' = d /\ tx' = "pushed"
        /\ UNCHANGED <<txClosed, permit, calls, rx, fut, received>>
    BY <1>1 DEF Queue!Push
  <2>2. pushed + 1 \in Nat
    BY <1>t
  <2>3. /\ d \in Seq(Nat) /\ Len(d) = Len(deque) + 1 /\ d[Len(deque) + 1] = pushed + 1
        /\ \A i \in 1..Len(deque) : d[i] = deque[i]
    BY <1>t, <2>2, AppendIn
  <2> HIDE DEF d
  <2>4. QueueTypes'
    BY <1>t, <2>1, <2>2, <2>3 DEF QueueTypes
  <2>5. QueueInOrder'
    <3>1. Len(received) + Len(d) = pushed + 1
      <4>1. Len(received) + Len(deque) = pushed
        BY <1>0 DEF QueueInOrder
      <4>2. Len(received) + (Len(deque) + 1) = pushed + 1
        <5>1. Len(received) \in Nat /\ Len(deque) \in Nat /\ pushed \in Nat  BY <1>t
        <5>2. QED  BY <4>1, <5>1, QueueSums
      <4> QED BY <2>3, <4>2, ZenonT(20)
    <3>2. ASSUME NEW i \in 1..Len(d) PROVE d[i] = Len(received) + i
      <4>1. CASE i \in 1..Len(deque)
        BY <1>0, <2>3, <4>1 DEF QueueInOrder
      <4>2. CASE i = Len(deque) + 1
        BY <1>t, <2>3, <3>1, <4>2
      <4> QED BY <1>t, <2>3, <4>1, <4>2
    <3> QED BY <1>0, <2>1, <3>1, <3>2 DEF QueueInOrder
  <2>6. NoWakeupLost'
    BY <1>0, <1>t, <2>1 DEF NoWakeupLost
  <2> QED BY <2>4, <2>5, <2>6 DEF QueueInv
<1>2. CASE Queue!Notify
  <2>1. tx = "pushed" /\ Queue!notify_one /\ tx' = "ready" /\ UNCHANGED <<deque, pushed, txClosed, calls, rx, received>>
    BY <1>2 DEF Queue!Notify
  <2>2. /\ permit' \in BOOLEAN /\ fut' \in [st : {"none", "init", "waiting", "woken", "done"}, saw : Nat]
        /\ fut'.st # "waiting" /\ (fut' = fut \/ fut'.st = "woken")
    BY <1>t, <2>1 DEF Queue!notify_one
  <2>3. QueueTypes'
    BY <1>t, <2>1, <2>2 DEF QueueTypes
  <2>4. NoWakeupLost'
    BY <1>0, <2>1, <2>2 DEF NoWakeupLost
  <2> QED BY <1>o, <2>1, <2>3, <2>4 DEF QueueInv
<1>3. CASE Queue!CloseTx
  <2>1. tx = "ready" /\ txClosed' = TRUE /\ tx' = "closed" /\ UNCHANGED <<deque, pushed, permit, calls, rx, fut, received>>
    BY <1>3 DEF Queue!CloseTx
  <2>2. QueueTypes'
    BY <1>t, <2>1 DEF QueueTypes
  <2>3. NoWakeupLost'
    BY <1>0, <2>1 DEF NoWakeupLost
  <2> QED BY <1>o, <2>1, <2>2, <2>3 DEF QueueInv
<1>4. CASE Queue!WakeAll
  <2>1. /\ tx = "closed" /\ calls' = calls + 1 /\ tx' = "gone"
        /\ fut' = IF fut.st = "waiting" THEN [fut EXCEPT !.st = "done"] ELSE fut
        /\ UNCHANGED <<deque, pushed, txClosed, permit, rx, received>>
    BY <1>4 DEF Queue!WakeAll
  <2>2. /\ calls' \in Nat /\ fut' \in [st : {"none", "init", "waiting", "woken", "done"}, saw : Nat]
        /\ fut'.st # "waiting" /\ (fut' = fut \/ fut'.st = "done")
    BY <1>t, <2>1
  <2>3. QueueTypes'
    BY <1>t, <2>1, <2>2 DEF QueueTypes
  <2>4. NoWakeupLost'
    BY <1>0, <2>1, <2>2 DEF NoWakeupLost
  <2> QED BY <1>o, <2>1, <2>3, <2>4 DEF QueueInv
<1>5. CASE Queue!Create \/ Queue!Enable
  <2>1. rx' \in {"created", "enabled"} /\ UNCHANGED <<deque, pushed, tx, txClosed, calls, received>>
    BY <1>5 DEF Queue!Create, Queue!Enable
  <2>2. /\ permit' \in BOOLEAN /\ fut' \in [st : {"none", "init", "waiting", "woken", "done"}, saw : Nat]
        /\ rx' = "enabled" => fut'.st \in {"waiting", "done"}
    <3>1. CASE Queue!Create
      BY <1>t, <3>1 DEF Queue!Create
    <3>2. CASE Queue!Enable
      BY <1>t, <3>2 DEF Queue!Enable
    <3> QED BY <1>5, <3>1, <3>2
  <2>3. QueueTypes'
    BY <1>t, <2>1, <2>2 DEF QueueTypes
  <2>4. NoWakeupLost'
    BY <2>1 DEF NoWakeupLost
  <2> QED BY <1>o, <2>1, <2>3, <2>4 DEF QueueInv
<1>6. CASE Queue!Take
  <2>0. rx = "enabled" /\ UNCHANGED <<pushed, tx, txClosed, calls>>
    BY <1>6 DEF Queue!Take
  <2>1. CASE deque # <<>> /\ received' = Append(received, Head(deque)) /\ deque' = Tail(deque)
             /\ rx' = "call" /\ Queue!DropFuture
    <3> DEFINE d == Tail(deque)
               g == Append(received, Head(deque))
    <3>1. /\ d \in Seq(Nat) /\ Len(d) = Len(deque) - 1 /\ Len(deque) \in Nat \ {0} /\ deque[1] = Head(deque)
          /\ \A i \in 1..Len(d) : d[i] = deque[i + 1] /\ i + 1 \in 1..Len(deque)
      BY <1>t, <2>1, TailIn
    <3>2. Head(deque) \in Nat /\ Head(deque) = Len(received) + 1
      <4>1. 1 \in 1..Len(deque)
        BY <3>1
      <4> QED BY <1>0, <1>t, <3>1, <4>1 DEF QueueInOrder
    <3>3. /\ g \in Seq(Nat) /\ Len(g) = Len(received) + 1 /\ g[Len(received) + 1] = Head(deque)
          /\ \A i \in 1..Len(received) : g[i] = received[i]
      BY <1>t, <3>2, AppendIn
    <3> HIDE DEF d, g
    <3>4. deque' = d /\ received' = g
      BY <2>1 DEF d, g
    <3>5. QueueTypes'
      BY <1>t, <1>n, <1>d, <2>0, <2>1, <3>1, <3>3, <3>4 DEF QueueTypes
    <3>6. Len(g) + Len(d) = pushed
      <4>1. Len(received) + Len(deque) = pushed
        BY <1>0 DEF QueueInOrder
      <4>2. (Len(received) + 1) + (Len(deque) - 1) = pushed
        BY <1>t, <4>1, QueueSums
      <4> QED BY <3>1, <3>3, <4>2, ZenonT(20)
    <3>7. ASSUME NEW i \in 1..Len(g) PROVE g[i] = i
      <4>1. CASE i \in 1..Len(received)
        BY <1>0, <3>3, <4>1 DEF QueueInOrder
      <4>2. CASE i = Len(received) + 1
        BY <3>2, <3>3, <4>2
      <4> QED BY <1>t, <3>3, <4>1, <4>2
    <3>8. ASSUME NEW i \in 1..Len(d) PROVE d[i] = Len(g) + i
      <4>1. d[i] = Len(received) + (i + 1)
        BY <1>0, <3>1 DEF QueueInOrder
      <4> QED BY <1>t, <3>1, <3>3, <4>1
    <3>9. QueueInOrder'
      BY <2>0, <3>4, <3>6, <3>7, <3>8 DEF QueueInOrder
    <3>10. NoWakeupLost'
      BY <2>1 DEF NoWakeupLost
    <3> QED BY <3>5, <3>9, <3>10 DEF QueueInv
  <2>2. CASE deque = <<>> /\ txClosed /\ rx' = "ended" /\ Queue!DropFuture /\ UNCHANGED <<deque, received>>
    <3>1. QueueTypes'
      BY <1>t, <1>n, <1>d, <2>0, <2>2 DEF QueueTypes
    <3>2. NoWakeupLost'
      BY <2>0, <2>2 DEF NoWakeupLost
    <3> QED BY <1>o, <2>0, <2>2, <3>1, <3>2 DEF QueueInv
  <2>3. CASE deque = <<>> /\ ~txClosed /\ rx' = "asleep" /\ UNCHANGED <<deque, received, permit, fut>>
    <3>1. fut.st \in {"waiting", "woken", "done"}
      BY <1>t, <2>0
    <3>2. QueueTypes'
      BY <1>t, <2>0, <2>3, <3>1 DEF QueueTypes
    <3>3. NoWakeupLost'
      BY <2>0, <2>3 DEF NoWakeupLost
    <3> QED BY <1>o, <2>0, <2>3, <3>2, <3>3 DEF QueueInv
  <2> QED BY <1>6, <2>1, <2>2, <2>3 DEF Queue!Take
<1>7. CASE Queue!Wake \/ Queue!Cancel
  <2>1. rx' = "call" /\ UNCHANGED <<deque, pushed, tx, txClosed, calls, received>>
        /\ permit' \in BOOLEAN /\ fut' = Queue!NoFuture
    BY <1>7, <1>d, <1>t DEF Queue!Wake, Queue!Cancel
  <2>2. QueueTypes'
    BY <1>t, <1>n, <2>1 DEF QueueTypes
  <2>3. NoWakeupLost'
    BY <2>1 DEF NoWakeupLost
  <2> QED BY <1>o, <2>1, <2>2, <2>3 DEF QueueInv
<1>8. CASE UNCHANGED Queue!vars
  <2>1. UNCHANGED <<deque, pushed, tx, txClosed, permit, calls, rx, fut, received>>
    BY <1>8 DEF Queue!vars
  <2>2. QueueTypes'
    BY <1>t, <2>1 DEF QueueTypes
  <2>3. NoWakeupLost'
    BY <1>0, <2>1 DEF NoWakeupLost
  <2> QED BY <1>o, <2>1, <2>2, <2>3 DEF QueueInv
<1> QED BY <1>1, <1>2, <1>3, <1>4, <1>5, <1>6, <1>7, <1>8 DEF Queue!Next

-----------------------------------------------------------------------------
(* The client side as a whole *)

ClientInv ==
    /\ SessionInv
    /\ part = "keepalive" => KeepInv
    /\ part = "connect" => ConnectInv
    /\ part = "queue" => QueueInv

\* Whichever part runs, its steps keep its invariant, for every value of the constants.
THEOREM ClientInvariance == AllSpec => []ClientInv
<1>1. AllInit => ClientInv
  BY InitSession, KeepInit, ConnectInit, QueueInit DEF AllInit, ClientInv
<1>2. ClientInv /\ [AllNext]_<<part, vars, keepVars, queueVars, connectVars, frameVars>> => ClientInv'
  <2> SUFFICES ASSUME ClientInv, [AllNext]_<<part, vars, keepVars, queueVars, connectVars, frameVars>>
               PROVE  ClientInv'
    OBVIOUS
  <2>1. part' = part
    BY DEF AllNext
  <2>2. [Next]_vars
    BY DEF AllNext
  <2>3. part = "keepalive" => [Keep!Next]_(Keep!vars)
    BY DEF AllNext, keepVars, Keep!vars
  <2>4. part = "connect" => [Attempt!Next]_(Attempt!vars)
    BY DEF AllNext, connectVars, Attempt!vars
  <2>5. part = "queue" => [Queue!Next]_(Queue!vars)
    BY DEF AllNext, queueVars, Queue!vars
  <2>6. part = "connect" => ConnectInv'
    BY <2>4, ConnectPhasesStep, ConnectPostureStep DEF ClientInv, ConnectInv
  <2> QED BY <2>1, <2>2, <2>3, <2>5, <2>6, SessionStep, KeepStep, QueueStep DEF ClientInv
<1> QED BY <1>1, <1>2, PTL DEF AllSpec

\* Both clocks of a silent target tell the truth: the kill counter counts only what was written and
\* not answered, and while somebody holds the client the target's inactivity watchdog is fed within
\* its window, whatever window was negotiated, however many requests are lost within the margin and
\* whatever occupies the session when the probe is due.
THEOREM SilenceIsMeasured == AllSpec => []SilenceMeasured
<1>1. ClientInv => SilenceMeasured
  <2> SUFFICES ASSUME ClientInv PROVE SilenceMeasured
    OBVIOUS
  <2>1. StreakIsSilence
    BY DEF ClientInv, SessionInv, StreamEnds, StreakIsSilence
  <2>2. ASSUME part = "keepalive" PROVE Keep!WatchdogFed
    <3>1. KeepInv
      BY <2>2 DEF ClientInv
    <3>2. handle => probe # "gone"
      BY <3>1 DEF KeepInv, KeepTypes
    <3> QED BY <3>1, <3>2, KeepFacts DEF Keep!WatchdogFed
  <2> QED BY <2>1, <2>2 DEF SilenceMeasured
<1> QED BY <1>1, ClientInvariance, PTL

\* The diagnostics of a connect never decide it: the posture shown is the whole of what the device
\* serves, an error keeps its class, and an opened poll session fails only by the ladder's time.
THEOREM DiagnosticsAreHonest == AllSpec => []DiagnosticsHonest
<1>1. ClientInv => DiagnosticsHonest
  BY ConnectSound DEF ClientInv, DiagnosticsHonest
<1> QED BY <1>1, ClientInvariance, PTL

\* Events reach the consumer in order and once, for any number of them; and no receiver sleeps on an
\* event or on the end of its stream without a wake-up given or owed, cancelled recv calls included.
THEOREM NoEventIsLost == AllSpec => [](part = "queue" => QueueInOrder /\ NoWakeupLost)
<1>1. ClientInv => (part = "queue" => QueueInOrder /\ NoWakeupLost)
  BY DEF ClientInv, QueueInv
<1> QED BY <1>1, ClientInvariance, PTL
=============================================================================
