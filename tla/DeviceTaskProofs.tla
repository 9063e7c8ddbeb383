--------------------------- MODULE DeviceTaskProofs ---------------------------
(***************************************************************************)
(* For any number of requests, any reconnect window and any channel        *)
(* capacity: the task loses no reply, reports ONLINE truthfully, and       *)
(* answers a reconnect only by an attempt that began after it; a           *)
(* cancelled task opens no session, and raises no alarm but for a call in  *)
(* flight or a loss being reported when it was cancelled.                  *)
(***************************************************************************)
EXTENDS DeviceTask, TLAPS

In(r, q) == \E i \in 1..Len(q) : q[i] = r

\* A request is in the channel once.
QueuedOnce == \A i, j \in 1..Len(queue) : queue[i] = queue[j] => i = j

\* A reply is held by the call in flight or by the reconnect under way, never
\* by both, and each is held only where it will be answered.
Holders ==
    /\ call # None => pc = "busy" /\ kind[call] # "reconnect"
    /\ pending # None =>
         /\ pc \in {"rejoining", "connect", "greet", "cleared"} /\ kind[pending] # None
         /\ pc # "rejoining" => pending \in before

\* A request that was not made is nowhere.
NewIsNew == \A r \in Reqs : kind[r] = None <=> status[r] = "new"

TaskInv == TypeOK /\ NoReplyLost /\ QueuedOnce /\ Holders /\ NewIsNew /\ OnlineIsTrue

-----------------------------------------------------------------------------

\* What appending a request does to the members of the channel (mpsc send).
LEMMA AppendIn ==
    ASSUME NEW S, NEW q \in Seq(S), NEW r \in S, ~In(r, q),
           \A i, j \in 1..Len(q) : q[i] = q[j] => i = j
    PROVE  /\ Append(q, r) \in Seq(S) /\ Len(Append(q, r)) = Len(q) + 1
           /\ \A x \in S : In(x, Append(q, r)) <=> (In(x, q) \/ x = r)
           /\ \A i, j \in 1..Len(Append(q, r)) : Append(q, r)[i] = Append(q, r)[j] => i = j
<1>1. Append(q, r) \in Seq(S) /\ Len(Append(q, r)) = Len(q) + 1 /\ Len(q) \in Nat
  OBVIOUS
<1>2. /\ \A i \in 1..Len(q) : Append(q, r)[i] = q[i]
      /\ Append(q, r)[Len(q) + 1] = r
  OBVIOUS
<1>3. ASSUME NEW x \in S PROVE In(x, Append(q, r)) <=> (In(x, q) \/ x = r)
  <2>1. In(x, Append(q, r)) => In(x, q) \/ x = r
    <3>1. SUFFICES ASSUME NEW i \in 1..(Len(q) + 1), Append(q, r)[i] = x PROVE In(x, q) \/ x = r
      BY <1>1 DEF In
    <3>2. CASE i = Len(q) + 1  BY <1>2, <3>1, <3>2
    <3>3. CASE i \in 1..Len(q)  BY <1>2, <3>1, <3>3 DEF In
    <3>4. QED  BY <1>1, <3>2, <3>3
  <2>2. In(x, q) => In(x, Append(q, r))
    <3>1. SUFFICES ASSUME NEW i \in 1..Len(q), q[i] = x PROVE In(x, Append(q, r))
      BY DEF In
    <3>2. i \in 1..Len(Append(q, r)) /\ Append(q, r)[i] = x  BY <1>1, <1>2, <3>1
    <3>3. QED  BY <3>2 DEF In
  <2>3. In(r, Append(q, r))
    <3>1. Len(q) + 1 \in 1..Len(Append(q, r))  BY <1>1
    <3>2. QED  BY <3>1, <1>2 DEF In
  <2>4. QED  BY <2>1, <2>2, <2>3
<1>4. ASSUME NEW i \in 1..(Len(q) + 1), NEW j \in 1..(Len(q) + 1), Append(q, r)[i] = Append(q, r)[j]
      PROVE  i = j
  <2>1. CASE i \in 1..Len(q) /\ j \in 1..Len(q)  BY <2>1, <1>2, <1>4
  <2>2. CASE i = Len(q) + 1 /\ j \in 1..Len(q)  BY <2>2, <1>2, <1>4 DEF In
  <2>3. CASE i \in 1..Len(q) /\ j = Len(q) + 1  BY <2>3, <1>2, <1>4 DEF In
  <2>4. CASE i = Len(q) + 1 /\ j = Len(q) + 1  BY <2>4
  <2>5. QED  BY <1>1, <2>1, <2>2, <2>3, <2>4
<1>5. QED  BY <1>1, <1>3, <1>4

\* What taking the head does to the members of the channel (mpsc recv).
LEMMA TailIn ==
    ASSUME NEW S, NEW q \in Seq(S), q # <<>>,
           \A i, j \in 1..Len(q) : q[i] = q[j] => i = j
    PROVE  /\ Head(q) \in S /\ In(Head(q), q)
           /\ Tail(q) \in Seq(S) /\ Len(Tail(q)) = Len(q) - 1
           /\ \A x \in S : In(x, Tail(q)) <=> (In(x, q) /\ x # Head(q))
           /\ \A i, j \in 1..Len(Tail(q)) : Tail(q)[i] = Tail(q)[j] => i = j
<1>1. /\ Head(q) = q[1] /\ Head(q) \in S /\ Tail(q) \in Seq(S)
      /\ Len(Tail(q)) = Len(q) - 1 /\ Len(q) \in Nat /\ Len(q) >= 1
  OBVIOUS
<1>2. \A i \in 1..Len(Tail(q)) : Tail(q)[i] = q[i + 1] /\ i + 1 \in 1..Len(q)
  BY <1>1
<1>3. In(Head(q), q)
  BY <1>1 DEF In
<1>4. ASSUME NEW x \in S PROVE In(x, Tail(q)) <=> (In(x, q) /\ x # Head(q))
  <2>1. In(x, Tail(q)) => In(x, q) /\ x # Head(q)
    <3>1. SUFFICES ASSUME NEW i \in 1..Len(Tail(q)), Tail(q)[i] = x PROVE In(x, q) /\ x # Head(q)
      BY DEF In
    <3>2. q[i + 1] = x /\ i + 1 \in 1..Len(q) /\ i + 1 # 1 /\ 1 \in 1..Len(q)  BY <1>1, <1>2, <3>1
    <3>3. In(x, q)  BY <3>2 DEF In
    <3>4. x # q[1]  BY <3>2
    <3>5. QED  BY <3>3, <3>4, <1>1
  <2>2. In(x, q) /\ x # Head(q) => In(x, Tail(q))
    <3>1. SUFFICES ASSUME NEW i \in 1..Len(q), q[i] = x, x # Head(q) PROVE In(x, Tail(q))
      BY DEF In
    <3>2. i - 1 \in 1..Len(Tail(q)) /\ Tail(q)[i - 1] = x  BY <1>1, <1>2, <3>1
    <3>3. QED  BY <3>2 DEF In
  <2>3. QED  BY <2>1, <2>2
<1>5. ASSUME NEW i \in 1..Len(Tail(q)), NEW j \in 1..Len(Tail(q)), Tail(q)[i] = Tail(q)[j]
      PROVE  i = j
  <2>1. i + 1 = j + 1  BY <1>2, <1>5
  <2>2. QED  BY <2>1
<1>6. QED  BY <1>1, <1>3, <1>4, <1>5

\* Every rung of the ladder is at most the ceiling.
LEMMA DelayBounded ==
    ASSUME NEW n \in Nat
    PROVE  delay(n) \subseteq 0..MaxMs
<1>1. Min2(n, 20) \in 0..20  BY DEF Min2
<1>2. 2^Min2(n, 20) \in Nat  BY <1>1, ShiftAssumption
<1>3. BaseMs * 2^Min2(n, 20) \in Nat
  <2>1. \A x, y \in Nat : x * y \in Nat  OBVIOUS
  <2>2. QED  BY <1>2, <2>1, TaskAssumption
<1>4. RungCap(n) \in Nat /\ RungCap(n) <= MaxMs
  BY <1>3, TaskAssumption DEF RungCap, Min2
<1>5. QED  BY <1>4, TaskAssumption DEF delay

-----------------------------------------------------------------------------
(* What a step leaves alone *)

\* The channel, the requests and their holders stay: nothing is lost.
LEMMA RequestsKept ==
    ASSUME NoReplyLost, QueuedOnce, NewIsNew, UNCHANGED <<reqs, pending, call>>
    PROVE  NoReplyLost' /\ QueuedOnce' /\ NewIsNew'
BY DEF NoReplyLost, QueuedOnce, NewIsNew, reqs

\* The head of the channel is taken and answered, or becomes held by the one
\* holder that was free.
LEMMA HeadServed ==
    ASSUME TypeOK, NoReplyLost, QueuedOnce, NewIsNew, queue # <<>>,
           queue' = Tail(queue), kind' = kind,
           NEW result \in {"ok", "err", "held"},
           status' = [status EXCEPT ![Head(queue)] = result],
           {pending', call'} \ {None} =
               ({pending, call} \ {None}) \cup (IF result = "held" THEN {Head(queue)} ELSE {})
    PROVE  /\ NoReplyLost' /\ QueuedOnce' /\ NewIsNew'
           /\ queue' \in Seq(Reqs) /\ Len(queue') <= QueueCap
           /\ status' \in [Reqs -> {"new", "queued", "held", "ok", "err", "dropped"}]
<1> DEFINE h == Head(queue)
<1>1. queue \in Seq(Reqs) /\ \A i, j \in 1..Len(queue) : queue[i] = queue[j] => i = j
  BY DEF TypeOK, QueuedOnce
<1>2. /\ h \in Reqs /\ In(h, queue)
      /\ Tail(queue) \in Seq(Reqs) /\ Len(Tail(queue)) = Len(queue) - 1
      /\ \A x \in Reqs : In(x, Tail(queue)) <=> (In(x, queue) /\ x # h)
      /\ \A i, j \in 1..Len(Tail(queue)) : Tail(queue)[i] = Tail(queue)[j] => i = j
  BY <1>1, TailIn
<1>3. status[h] = "queued" /\ kind[h] # None
  BY <1>2 DEF NoReplyLost, NewIsNew, In
<1>4. status' \in [Reqs -> {"new", "queued", "held", "ok", "err", "dropped"}]
      /\ \A r \in Reqs : status'[r] = IF r = h THEN result ELSE status[r]
  BY <1>2 DEF TypeOK
<1>5. \A r \in Reqs : (status'[r] = "queued") <=> In(r, queue')
  BY <1>2, <1>3, <1>4 DEF NoReplyLost, In
<1>6. \A r \in Reqs : (status'[r] = "held") <=> (r \in {pending', call'})
  <2>1. \A r \in Reqs : r \in {pending', call'} <=>
             (r \in {pending, call} \/ (result = "held" /\ r = h))
    BY TaskAssumption
  <2>2. QED  BY <2>1, <1>3, <1>4 DEF NoReplyLost
<1>7. QED  BY <1>2, <1>3, <1>4, <1>5, <1>6, TaskAssumption DEF NoReplyLost, QueuedOnce, NewIsNew, TypeOK, In

\* The task ends: the held and the queued requests are dropped with it.
LEMMA StopKeeps ==
    ASSUME TaskInv, Stop(status)
    PROVE  TaskInv'
BY TaskAssumption DEF TaskInv, TypeOK, Places, NoReplyLost, QueuedOnce, Holders, NewIsNew, OnlineIsTrue, Stop, ctl, health, hist

-----------------------------------------------------------------------------
(* One lemma per action *)

\* A task starts with an empty channel and nothing held.
LEMMA InitInv == Init => TaskInv
<1>1. SUFFICES ASSUME Init PROVE TaskInv  OBVIOUS
<1>2. queue \in Seq(Reqs) /\ Len(queue) = 0  BY <1>1 DEF Init
<1>3. TypeOK
  <2>1. /\ kind \in [Reqs -> Kinds \cup {None}]
        /\ status \in [Reqs -> {"new", "queued", "held", "ok", "err", "dropped"}]
    BY <1>1 DEF Init
  <2>2. /\ cancel \in BOOLEAN /\ closed \in BOOLEAN
        /\ paused \in BOOLEAN /\ alarm \in BOOLEAN /\ tlsFailing \in BOOLEAN
    BY <1>1 DEF Init
  <2>3. attempt \in 0..MaxAttempt /\ wait \in 0..MaxMs /\ tlsEvents \in Nat /\ Len(queue) <= QueueCap
    BY <1>1, <1>2, TaskAssumption DEF Init
  <2>4. QED  BY <1>1, <1>2, <2>1, <2>2, <2>3 DEF Init, TypeOK, Places
<1>4. NoReplyLost  BY <1>1, <1>2, TaskAssumption DEF Init, NoReplyLost
<1>5. QueuedOnce  BY <1>2 DEF QueuedOnce
<1>6. Holders /\ NewIsNew /\ OnlineIsTrue  BY <1>1 DEF Init, Holders, NewIsNew, OnlineIsTrue
<1>7. QED  BY <1>3, <1>4, <1>5, <1>6 DEF TaskInv

\* A new request is accepted at the end of the channel, or refused.
LEMMA IssueInv ==
    ASSUME TaskInv, NEW r \in Reqs, NEW k \in Kinds, Issue(r, k)
    PROVE  TaskInv'
<1>1. /\ TypeOK /\ NoReplyLost /\ QueuedOnce /\ Holders /\ NewIsNew /\ OnlineIsTrue
      /\ k # None /\ status[r] = "new" /\ pending # r /\ call # r
  <2>1. TypeOK /\ NoReplyLost /\ QueuedOnce /\ Holders /\ NewIsNew /\ OnlineIsTrue  BY DEF TaskInv
  <2>2. status[r] = "new"  BY <2>1 DEF NewIsNew, Issue
  <2>3. k # None  BY KindsAssumption
  <2>4. QED  BY <2>1, <2>2, <2>3 DEF NoReplyLost
<1>2. /\ UNCHANGED <<pc, call, attempt, wait, pending, ctl, health, hist>>
      /\ kind' \in [Reqs -> Kinds \cup {None}]
      /\ \A x \in Reqs : kind'[x] = IF x = r THEN k ELSE kind[x]
  BY <1>1 DEF Issue, TypeOK
<1>3. CASE /\ pc = "ended" /\ status' = [status EXCEPT ![r] = "dropped"] /\ queue' = queue
  <2>1. /\ status' \in [Reqs -> {"new", "queued", "held", "ok", "err", "dropped"}]
        /\ \A x \in Reqs : status'[x] = IF x = r THEN "dropped" ELSE status[x]
    BY <1>1, <1>3 DEF TypeOK
  <2>2. TypeOK'  BY <1>1, <1>2, <1>3, <2>1 DEF TypeOK, ctl, health, hist
  <2>3. NoReplyLost'  BY <1>1, <1>2, <1>3, <2>1 DEF NoReplyLost
  <2>4. QueuedOnce'  BY <1>1, <1>3 DEF QueuedOnce
  <2>5. Holders'  BY <1>1, <1>2, TaskAssumption, KindsAssumption DEF Holders, TypeOK, hist
  <2>6. NewIsNew'  BY <1>1, <1>2, <2>1 DEF NewIsNew
  <2>7. OnlineIsTrue'  BY <1>1, <1>2 DEF OnlineIsTrue, health
  <2>8. QED  BY <2>2, <2>3, <2>4, <2>5, <2>6, <2>7 DEF TaskInv
<1>4. CASE /\ Len(queue) < QueueCap
           /\ status' = [status EXCEPT ![r] = "queued"] /\ queue' = Append(queue, r)
  <2>1. /\ status' \in [Reqs -> {"new", "queued", "held", "ok", "err", "dropped"}]
        /\ \A x \in Reqs : status'[x] = IF x = r THEN "queued" ELSE status[x]
    BY <1>1, <1>4 DEF TypeOK
  <2>2. queue \in Seq(Reqs) /\ ~In(r, queue) /\ \A i, j \in 1..Len(queue) : queue[i] = queue[j] => i = j
    BY <1>1 DEF TypeOK, NoReplyLost, In, QueuedOnce
  <2>3. /\ queue' \in Seq(Reqs) /\ Len(queue') = Len(queue) + 1
        /\ \A x \in Reqs : In(x, queue') <=> (In(x, queue) \/ x = r)
        /\ \A i, j \in 1..Len(queue') : queue'[i] = queue'[j] => i = j
    BY <1>4, <2>2, AppendIn
  <2>4. Len(queue') <= QueueCap  BY <1>4, <2>2, <2>3, TaskAssumption
  <2>5. TypeOK'  BY <1>1, <1>2, <2>1, <2>3, <2>4 DEF TypeOK, ctl, health, hist
  <2>6. NoReplyLost'
    <3>1. \A x \in Reqs : (status'[x] = "queued") <=> In(x, queue')
      BY <1>1, <2>1, <2>3 DEF NoReplyLost, In
    <3>2. \A x \in Reqs : (status'[x] = "held") <=> (x \in {pending', call'})
      BY <1>1, <1>2, <2>1 DEF NoReplyLost
    <3>3. QED  BY <3>1, <3>2 DEF NoReplyLost, In
  <2>7. QueuedOnce'  BY <2>3 DEF QueuedOnce
  <2>8. Holders'  BY <1>1, <1>2, TaskAssumption, KindsAssumption DEF Holders, TypeOK, hist
  <2>9. NewIsNew'  BY <1>1, <1>2, <2>1 DEF NewIsNew
  <2>10. OnlineIsTrue'  BY <1>1, <1>2 DEF OnlineIsTrue, health
  <2>11. QED  BY <2>5, <2>6, <2>7, <2>8, <2>9, <2>10 DEF TaskInv
<1>5. QED  BY <1>3, <1>4 DEF Issue

\* The supervisor's two signals touch nothing but themselves.
LEMMA SignalInv ==
    ASSUME TaskInv, Cancel \/ CloseControl
    PROVE  TaskInv'
<1>1. TypeOK /\ NoReplyLost /\ QueuedOnce /\ Holders /\ NewIsNew /\ OnlineIsTrue  BY DEF TaskInv
<1>2. /\ UNCHANGED <<pc, call, attempt, wait, pending, mode, health, reqs, before>>
      /\ cancel' \in BOOLEAN /\ closed' \in BOOLEAN /\ atCancel' \in Places \cup {None}
  BY <1>1 DEF Cancel, CloseControl, TypeOK, hist
<1>3. TypeOK'  BY <1>1, <1>2 DEF TypeOK, health, reqs
<1>4. NoReplyLost' /\ QueuedOnce' /\ NewIsNew'  BY <1>1, <1>2, RequestsKept
<1>5. Holders'  BY <1>1, <1>2 DEF Holders, reqs
<1>6. OnlineIsTrue'  BY <1>1, <1>2 DEF OnlineIsTrue, health
<1>7. QED  BY <1>3, <1>4, <1>5, <1>6 DEF TaskInv

\* The pending reconnect is answered and held no longer.
LEMMA PendingAnswered ==
    ASSUME TypeOK, NoReplyLost, QueuedOnce, NewIsNew, call = None, call' = None, pending' = None,
           NEW result \in {"ok", "err"}, status' = Answered(status, pending, result),
           UNCHANGED <<queue, kind>>
    PROVE  /\ NoReplyLost' /\ QueuedOnce' /\ NewIsNew'
           /\ status' \in [Reqs -> {"new", "queued", "held", "ok", "err", "dropped"}]
<1>1. /\ status' \in [Reqs -> {"new", "queued", "held", "ok", "err", "dropped"}]
      /\ \A r \in Reqs : status'[r] = IF r = pending THEN result ELSE status[r]
  BY TaskAssumption DEF Answered, TypeOK
<1>2. \A r \in Reqs : (status[r] = "held") <=> (r = pending)  BY TaskAssumption DEF NoReplyLost
<1>3. \A r \in Reqs : status'[r] # "held" /\ ((status'[r] = "queued") <=> (status[r] = "queued"))
  BY <1>1, <1>2
<1>4. NoReplyLost'  BY <1>3, TaskAssumption DEF NoReplyLost
<1>5. QueuedOnce'  BY DEF QueuedOnce
<1>6. NewIsNew'  BY <1>1, <1>2 DEF NewIsNew
<1>7. QED  BY <1>1, <1>4, <1>5, <1>6

\* A poll connect is reported first, a push one answers its reconnect.
LEMMA ConnectOkInv ==
    ASSUME TaskInv, ConnectOk
    PROVE  TaskInv'
<1>1. TypeOK /\ NoReplyLost /\ QueuedOnce /\ Holders /\ NewIsNew /\ OnlineIsTrue  BY DEF TaskInv
<1>2. /\ pc = "connect" /\ call = None /\ call' = None /\ link # "online" /\ attempt' \in 0..MaxAttempt
      /\ tlsFailing' = FALSE /\ tlsEvents' = 0 /\ UNCHANGED <<wait, ctl, paused, alarm, queue, kind, hist>>
  BY <1>1, TaskAssumption DEF Holders, OnlineIsTrue, Attached, ConnectOk
<1>3. CASE pc' = "greet" /\ link' = "online" /\ UNCHANGED <<status, pending>>
  <2>1. TypeOK'  BY <1>1, <1>2, <1>3 DEF TypeOK, Places, ctl, hist
  <2>2. NoReplyLost' /\ QueuedOnce' /\ NewIsNew'  BY <1>1, <1>2, <1>3, RequestsKept DEF reqs
  <2>3. Holders' /\ OnlineIsTrue'  BY <1>1, <1>2, <1>3 DEF Holders, OnlineIsTrue, Attached, hist
  <2>4. QED  BY <2>1, <2>2, <2>3 DEF TaskInv
<1>4. CASE pc' = "session" /\ link' = link /\ status' = Answered(status, pending, "ok") /\ pending' = None
  <2>1. /\ NoReplyLost' /\ QueuedOnce' /\ NewIsNew'
        /\ status' \in [Reqs -> {"new", "queued", "held", "ok", "err", "dropped"}]
    BY <1>1, <1>2, <1>4, PendingAnswered
  <2>2. TypeOK'  BY <1>1, <1>2, <1>4, <2>1 DEF TypeOK, Places, ctl, hist
  <2>3. Holders' /\ OnlineIsTrue'  BY <1>2, <1>4 DEF Holders, OnlineIsTrue
  <2>4. QED  BY <2>1, <2>2, <2>3 DEF TaskInv
<1>5. QED  BY <1>3, <1>4 DEF ConnectOk

\* The alarm is cleared, then the reconnect answered, and the loop runs.
LEMMA GreetInv ==
    ASSUME TaskInv, Greet
    PROVE  TaskInv'
<1>1. TypeOK /\ NoReplyLost /\ QueuedOnce /\ Holders /\ NewIsNew /\ OnlineIsTrue  BY DEF TaskInv
<1>2. CASE ClearAlarm
  <2>1. /\ pc = "greet" /\ pc' = "cleared" /\ alarm' = FALSE
        /\ UNCHANGED <<call, attempt, wait, pending, ctl, link, paused, tlsFailing, tlsEvents, reqs, hist>>
    BY <1>2 DEF ClearAlarm
  <2>2. TypeOK'
    <3>1. pc' \in Places /\ alarm' \in BOOLEAN  BY <2>1 DEF Places
    <3>2. QED  BY <1>1, <2>1, <3>1 DEF TypeOK, ctl, reqs, hist
  <2>3. NoReplyLost' /\ QueuedOnce' /\ NewIsNew'  BY <1>1, <2>1, RequestsKept
  <2>4. Holders' /\ OnlineIsTrue'  BY <1>1, <2>1 DEF Holders, OnlineIsTrue, Attached, hist, reqs
  <2>5. QED  BY <2>2, <2>3, <2>4 DEF TaskInv
<1>3. CASE Greeted
  <2>1. /\ pc = "cleared" /\ call = None /\ pc' = "session" /\ pending' = None /\ call' = None
        /\ UNCHANGED <<attempt, wait, ctl, health, queue, kind, hist>>
        /\ status' = Answered(status, pending, "ok")
    BY <1>1, <1>3 DEF Greeted, Holders
  <2>2. /\ NoReplyLost' /\ QueuedOnce' /\ NewIsNew'
        /\ status' \in [Reqs -> {"new", "queued", "held", "ok", "err", "dropped"}]
    BY <1>1, <2>1, PendingAnswered
  <2>3. TypeOK'  BY <1>1, <2>1, <2>2 DEF TypeOK, Places, ctl, health, hist
  <2>4. Holders' /\ OnlineIsTrue'  BY <1>1, <2>1 DEF Holders, OnlineIsTrue, Attached, health
  <2>5. QED  BY <2>2, <2>3, <2>4 DEF TaskInv
<1>4. QED  BY <1>2, <1>3 DEF Greet

\* A failed connect answers the pending reconnect and enters the backoff.
LEMMA ConnectFailInv ==
    ASSUME TaskInv, NEW permanent \in BOOLEAN, ConnectFail(permanent)
    PROVE  TaskInv'
<1>1. TypeOK /\ NoReplyLost /\ QueuedOnce /\ Holders /\ NewIsNew /\ OnlineIsTrue  BY DEF TaskInv
<1>2. call = None /\ call' = None /\ pending' = None  BY <1>1 DEF Holders, ConnectFail
<1>3. status' \in [Reqs -> {"new", "queued", "held", "ok", "err", "dropped"}]
  BY <1>1, <1>2, PendingAnswered DEF ConnectFail
<1>4. wait' \in 0..MaxMs
  <2>1. attempt \in Nat /\ MaxMs \in 0..MaxMs  BY <1>1, TaskAssumption DEF TypeOK
  <2>2. QED  BY <2>1, DelayBounded DEF ConnectFail
<1>5. attempt' \in 0..MaxAttempt  BY <1>1, TaskAssumption DEF ConnectFail, TypeOK, Climb, Min2
<1>6. tlsFailing' \in BOOLEAN /\ tlsEvents' \in Nat
  <2>1. tlsFailing' \in BOOLEAN  BY <1>1 DEF ConnectFail, TypeOK
  <2>2. tlsEvents' \in {tlsEvents, tlsEvents + 1}  BY DEF ConnectFail
  <2>3. QED  BY <1>1, <2>1, <2>2 DEF TypeOK
<1>7. TypeOK'  BY <1>1, <1>2, <1>3, <1>4, <1>5, <1>6 DEF TypeOK, Places, ConnectFail, ctl, hist
<1>8. NoReplyLost' /\ QueuedOnce' /\ NewIsNew'
  BY <1>1, <1>2, PendingAnswered DEF ConnectFail
<1>9. Holders'  BY <1>2 DEF Holders
<1>10. OnlineIsTrue'  BY DEF OnlineIsTrue, ConnectFail
<1>11. QED  BY <1>7, <1>8, <1>9, <1>10 DEF TaskInv

\* The backoff wait runs on, or has elapsed and the next attempt begins.
LEMMA WaitInv ==
    ASSUME TaskInv, WaitElapsed \/ WaitTick
    PROVE  TaskInv'
<1>1. TypeOK /\ NoReplyLost /\ QueuedOnce /\ Holders /\ NewIsNew /\ OnlineIsTrue  BY DEF TaskInv
<1>2. pc = "wait" /\ call = None /\ pending = None /\ link # "online"
  BY <1>1 DEF WaitElapsed, WaitTick, Holders, OnlineIsTrue, Attached
<1>3. /\ UNCHANGED <<call, attempt, pending, ctl, paused, alarm, tlsFailing, tlsEvents, reqs>>
      /\ pc' \in {"connect", "wait"} /\ link' \in {link, "connecting"}
      /\ wait' \in 0..MaxMs /\ before' \subseteq Reqs /\ atCancel' = atCancel
  BY <1>1, TaskAssumption DEF WaitElapsed, WaitTick, ToConnect, Issued, TypeOK, health, hist
<1>4. TypeOK'  BY <1>1, <1>3 DEF TypeOK, Places, ctl, reqs
<1>5. NoReplyLost' /\ QueuedOnce' /\ NewIsNew'  BY <1>1, <1>3, RequestsKept
<1>6. Holders' /\ OnlineIsTrue'  BY <1>2, <1>3 DEF Holders, OnlineIsTrue
<1>7. QED  BY <1>4, <1>5, <1>6 DEF TaskInv

\* The backoff wait serves the head of the channel: answered, or held as the
\* pending reconnect (serve_control_disconnected).
LEMMA WaitControlInv ==
    ASSUME TaskInv, WaitControl
    PROVE  TaskInv'
<1> DEFINE h == Head(queue)
<1>1. TypeOK /\ NoReplyLost /\ QueuedOnce /\ Holders /\ NewIsNew /\ OnlineIsTrue  BY DEF TaskInv
<1>2. /\ pc = "wait" /\ call = None /\ pending = None /\ call' = None /\ link # "online"
      /\ queue # <<>> /\ queue' = Tail(queue) /\ kind' = kind
  BY <1>1 DEF WaitControl, Holders, OnlineIsTrue, Attached
<1>3. h \in Reqs /\ kind[h] # None
  <2>1. h \in Reqs /\ In(h, queue)  BY <1>1, <1>2, TailIn DEF TypeOK, QueuedOnce
  <2>2. QED  BY <1>1, <2>1 DEF NoReplyLost, NewIsNew, In
<1>4. CASE /\ pending' = h /\ status' = [status EXCEPT ![h] = "held"]
           /\ wait' = 0 /\ ToConnect(link) /\ UNCHANGED paused
  <2>1. /\ NoReplyLost' /\ QueuedOnce' /\ NewIsNew' /\ queue' \in Seq(Reqs) /\ Len(queue') <= QueueCap
        /\ status' \in [Reqs -> {"new", "queued", "held", "ok", "err", "dropped"}]
    <3>1. {pending', call'} \ {None} = ({pending, call} \ {None}) \cup {h}
      BY <1>2, <1>3, <1>4, TaskAssumption
    <3>2. QED  BY <1>1, <1>2, <1>4, <3>1, HeadServed
  <2>2. /\ pc' = "connect" /\ link' \in {link, "connecting"} /\ before' \subseteq Reqs /\ h \in before'
        /\ atCancel' = atCancel
    BY <1>3, <1>4 DEF ToConnect, Issued
  <2>3. TypeOK'
    BY <1>1, <1>2, <1>3, <1>4, <2>1, <2>2, TaskAssumption DEF TypeOK, Places, WaitControl, ctl
  <2>4. Holders' /\ OnlineIsTrue'  BY <1>2, <1>3, <1>4, <2>2 DEF Holders, OnlineIsTrue
  <2>5. QED  BY <2>1, <2>3, <2>4 DEF TaskInv
<1>5. CASE /\ \E res \in {"ok", "err"} : status' = [status EXCEPT ![h] = res]
           /\ paused' \in BOOLEAN /\ UNCHANGED <<pc, link, wait, pending, hist>>
  <2>1. PICK res \in {"ok", "err"} : status' = [status EXCEPT ![h] = res]  BY <1>5
  <2>2. /\ NoReplyLost' /\ QueuedOnce' /\ NewIsNew' /\ queue' \in Seq(Reqs) /\ Len(queue') <= QueueCap
        /\ status' \in [Reqs -> {"new", "queued", "held", "ok", "err", "dropped"}]
    <3>1. {pending', call'} \ {None} = ({pending, call} \ {None}) \cup {}
      BY <1>2, <1>5
    <3>2. QED  BY <1>1, <1>2, <2>1, <3>1, HeadServed
  <2>3. TypeOK'  BY <1>1, <1>2, <1>5, <2>2 DEF TypeOK, WaitControl, ctl, hist
  <2>4. Holders' /\ OnlineIsTrue'  BY <1>2, <1>5 DEF Holders, OnlineIsTrue
  <2>5. QED  BY <2>2, <2>3, <2>4 DEF TaskInv
<1>6. QED
  <2>1. paused' = paused => paused' \in BOOLEAN  BY <1>1 DEF TypeOK
  <2>2. QED  BY <1>4, <1>5, <2>1 DEF WaitControl

\* The control arm of a running session serves the head of the channel.
LEMMA SessionControlInv ==
    ASSUME TaskInv, SessionControl
    PROVE  TaskInv'
<1> DEFINE h == Head(queue)
<1>1. TypeOK /\ NoReplyLost /\ QueuedOnce /\ Holders /\ NewIsNew /\ OnlineIsTrue  BY DEF TaskInv
<1>2. /\ pc = "session" /\ call = None /\ pending = None
      /\ queue # <<>> /\ queue' = Tail(queue) /\ kind' = kind
      /\ UNCHANGED <<attempt, wait, ctl, link, alarm, tlsFailing, tlsEvents, hist>>
  BY <1>1 DEF SessionControl, Holders
<1>3. h \in Reqs /\ kind[h] # None
  <2>1. h \in Reqs /\ In(h, queue)  BY <1>1, <1>2, TailIn DEF TypeOK, QueuedOnce
  <2>2. QED  BY <1>1, <2>1 DEF NoReplyLost, NewIsNew, In
<1>4. CASE /\ pending' = h /\ status' = [status EXCEPT ![h] = "held"]
           /\ pc' = "rejoining" /\ UNCHANGED <<call, paused>>
  <2>1. /\ NoReplyLost' /\ QueuedOnce' /\ NewIsNew' /\ queue' \in Seq(Reqs) /\ Len(queue') <= QueueCap
        /\ status' \in [Reqs -> {"new", "queued", "held", "ok", "err", "dropped"}]
    <3>1. {pending', call'} \ {None} = ({pending, call} \ {None}) \cup {h}
      BY <1>2, <1>3, <1>4, TaskAssumption
    <3>2. QED  BY <1>1, <1>2, <1>4, <3>1, HeadServed
  <2>2. TypeOK'  BY <1>1, <1>2, <1>3, <1>4, <2>1 DEF TypeOK, Places, ctl, hist
  <2>3. Holders' /\ OnlineIsTrue'  BY <1>1, <1>2, <1>3, <1>4 DEF Holders, OnlineIsTrue, Attached
  <2>4. QED  BY <2>1, <2>2, <2>3 DEF TaskInv
<1>5. CASE /\ \E res \in {"ok", "err"} : status' = [status EXCEPT ![h] = res]
           /\ paused' \in BOOLEAN /\ UNCHANGED <<pc, call, pending>>
  <2>1. PICK res \in {"ok", "err"} : status' = [status EXCEPT ![h] = res]  BY <1>5
  <2>2. /\ NoReplyLost' /\ QueuedOnce' /\ NewIsNew' /\ queue' \in Seq(Reqs) /\ Len(queue') <= QueueCap
        /\ status' \in [Reqs -> {"new", "queued", "held", "ok", "err", "dropped"}]
    <3>1. {pending', call'} \ {None} = ({pending, call} \ {None}) \cup {}
      BY <1>2, <1>5
    <3>2. QED  BY <1>1, <1>2, <2>1, <3>1, HeadServed
  <2>3. TypeOK'  BY <1>1, <1>2, <1>5, <2>2 DEF TypeOK, ctl, hist
  <2>4. Holders' /\ OnlineIsTrue'  BY <1>1, <1>2, <1>5 DEF Holders, OnlineIsTrue, hist
  <2>5. QED  BY <2>2, <2>3, <2>4 DEF TaskInv
<1>6. CASE /\ kind[h] # "reconnect" /\ pc' = "busy" /\ call' = h
           /\ status' = [status EXCEPT ![h] = "held"]
           /\ UNCHANGED <<pending, paused>>
  <2>1. /\ NoReplyLost' /\ QueuedOnce' /\ NewIsNew' /\ queue' \in Seq(Reqs) /\ Len(queue') <= QueueCap
        /\ status' \in [Reqs -> {"new", "queued", "held", "ok", "err", "dropped"}]
    <3>1. {pending', call'} \ {None} = ({pending, call} \ {None}) \cup {h}
      BY <1>2, <1>3, <1>6, TaskAssumption
    <3>2. QED  BY <1>1, <1>2, <1>6, <3>1, HeadServed
  <2>2. TypeOK'  BY <1>1, <1>2, <1>3, <1>6, <2>1 DEF TypeOK, Places, ctl, hist
  <2>3. Holders' /\ OnlineIsTrue'  BY <1>1, <1>2, <1>6 DEF Holders, OnlineIsTrue, Attached
  <2>4. QED  BY <2>1, <2>2, <2>3 DEF TaskInv
<1>7. QED
  <2>1. paused' = paused => paused' \in BOOLEAN  BY <1>1 DEF TypeOK
  <2>2. QED  BY <1>4, <1>5, <1>6, <2>1 DEF SessionControl

\* A cycle starts, the session's end begins, or the first push frame comes.
LEMMA CycleInv ==
    ASSUME TaskInv, StartCycle \/ SessionStopped \/ PushLost \/ PushUp
    PROVE  TaskInv'
<1>1. TypeOK /\ NoReplyLost /\ QueuedOnce /\ Holders /\ NewIsNew /\ OnlineIsTrue  BY DEF TaskInv
<1>2. pc = "session" /\ call = None /\ pending = None
  BY <1>1 DEF StartCycle, SessionStopped, PushLost, PushUp, Holders
<1>3. /\ UNCHANGED <<call, attempt, wait, pending, ctl, paused, alarm, tlsFailing, tlsEvents, reqs, hist>>
      /\ \/ pc' \in {"busy", "stopping", "losing"} /\ link' = link
         \/ pc' = "greet" /\ link' = "online"
  BY <1>2 DEF StartCycle, SessionStopped, PushLost, PushUp, health
<1>4. TypeOK'
  <2>1. pc' \in Places /\ link' \in {"connecting", "online", "backoff"}  BY <1>1, <1>3 DEF TypeOK, Places
  <2>2. QED  BY <1>1, <1>3, <2>1 DEF TypeOK, ctl, reqs, hist
<1>5. NoReplyLost' /\ QueuedOnce' /\ NewIsNew'  BY <1>1, <1>3, RequestsKept
<1>6. Holders' /\ OnlineIsTrue'  BY <1>1, <1>2, <1>3 DEF Holders, OnlineIsTrue, Attached
<1>7. QED  BY <1>4, <1>5, <1>6 DEF TaskInv

\* The session is closed: the next attempt begins, or the loss is reported.
LEMMA CloseInv ==
    ASSUME TaskInv, RejoinClosed \/ LossClosed \/ RaiseAlarm
    PROVE  TaskInv'
<1>1. TypeOK /\ NoReplyLost /\ QueuedOnce /\ Holders /\ NewIsNew /\ OnlineIsTrue  BY DEF TaskInv
<1>2. /\ UNCHANGED <<call, pending, ctl, paused, tlsFailing, tlsEvents, reqs, atCancel>>
      /\ call = None /\ pc' \in Places
  BY <1>1 DEF RejoinClosed, LossClosed, RaiseAlarm, ToConnect, Holders, Places, hist
<1>3. wait' \in 0..MaxMs /\ attempt' \in 0..MaxAttempt /\ alarm' \in BOOLEAN
  <2>1. CASE RaiseAlarm
    <3>1. attempt \in Nat  BY <1>1, TaskAssumption DEF TypeOK
    <3>2. wait' \in 0..MaxMs  BY <2>1, <3>1, DelayBounded DEF RaiseAlarm
    <3>3. attempt' \in 0..MaxAttempt  BY <1>1, <2>1, TaskAssumption DEF RaiseAlarm, TypeOK, Climb, Min2
    <3>4. QED  BY <2>1, <3>2, <3>3 DEF RaiseAlarm
  <2>2. CASE RejoinClosed \/ LossClosed  BY <1>1, <2>2 DEF RejoinClosed, LossClosed, TypeOK
  <2>3. QED  BY <2>1, <2>2
<1>4. before' \subseteq Reqs /\ link' \in {"connecting", "online", "backoff"}
  BY <1>1 DEF RejoinClosed, LossClosed, RaiseAlarm, ToConnect, Issued, TypeOK, hist
<1>5. TypeOK'  BY <1>1, <1>2, <1>3, <1>4 DEF TypeOK, ctl, reqs
<1>6. NoReplyLost' /\ QueuedOnce' /\ NewIsNew'  BY <1>1, <1>2, RequestsKept
<1>7. Holders'
  <2>1. CASE RejoinClosed
    <3>1. pc' = "connect" /\ before' = Issued  BY <2>1 DEF RejoinClosed, ToConnect
    <3>2. pending # None => pending \in Reqs /\ kind[pending] # None  BY <1>1 DEF Holders, TypeOK
    <3>3. QED  BY <1>2, <3>1, <3>2 DEF Holders, Issued, reqs
  <2>2. CASE LossClosed \/ RaiseAlarm  BY <1>1, <1>2, <2>2 DEF LossClosed, RaiseAlarm, Holders
  <2>3. QED  BY <2>1, <2>2
<1>8. OnlineIsTrue'
  <2>1. CASE RejoinClosed  BY <2>1 DEF RejoinClosed, ToConnect, OnlineIsTrue
  <2>2. CASE LossClosed  BY <2>2 DEF LossClosed, OnlineIsTrue
  <2>3. CASE RaiseAlarm  BY <1>1, <2>3 DEF RaiseAlarm, OnlineIsTrue, Attached
  <2>4. QED  BY <2>1, <2>2, <2>3
<1>9. QED  BY <1>5, <1>6, <1>7, <1>8 DEF TaskInv

\* A call in flight ends, and the request it is for is answered.
LEMMA CallInv ==
    ASSUME TaskInv, CallOk \/ CallFail
    PROVE  TaskInv'
<1>1. TypeOK /\ NoReplyLost /\ QueuedOnce /\ Holders /\ NewIsNew /\ OnlineIsTrue  BY DEF TaskInv
<1>2. pc = "busy" /\ pending = None /\ queue' = queue
  BY <1>1 DEF CallOk, CallFail, Holders
<1>3. PICK res \in {"ok", "err"} : status' = Answered(status, call, res)
  BY DEF CallOk, CallFail
<1>4. /\ call' = None /\ pending' = None /\ pc' \in {"session", "losing"}
      /\ UNCHANGED <<attempt, wait, pending, ctl, health, queue, kind, hist>>
  BY <1>2 DEF CallOk, CallFail
<1>5. /\ status' \in [Reqs -> {"new", "queued", "held", "ok", "err", "dropped"}]
      /\ \A r \in Reqs : status'[r] = IF r = call THEN res ELSE status[r]
  BY <1>1, <1>3, TaskAssumption DEF Answered, TypeOK
<1>6. TypeOK'  BY <1>1, <1>2, <1>4, <1>5 DEF TypeOK, Places, ctl, health, hist
<1>7. \A r \in Reqs : (status[r] = "held") <=> (r = call)
  BY <1>1, <1>2, TaskAssumption DEF NoReplyLost
<1>8. NoReplyLost'
  <2>1. \A r \in Reqs : status'[r] # "held" /\ ((status'[r] = "queued") <=> (status[r] = "queued"))
    BY <1>5, <1>7
  <2>2. QED  BY <1>1, <1>2, <1>4, <2>1, TaskAssumption DEF NoReplyLost
<1>9. QueuedOnce'  BY <1>1, <1>2 DEF QueuedOnce
<1>10. NewIsNew'  BY <1>1, <1>4, <1>5, <1>7 DEF NewIsNew
<1>11. Holders' /\ OnlineIsTrue'  BY <1>1, <1>2, <1>4 DEF Holders, OnlineIsTrue, Attached, health
<1>12. QED  BY <1>6, <1>8, <1>9, <1>10, <1>11 DEF TaskInv

\* A stuttering step keeps every conjunct.
LEMMA StutterInv ==
    ASSUME TaskInv, UNCHANGED vars
    PROVE  TaskInv'
<1>1. TypeOK /\ NoReplyLost /\ QueuedOnce /\ Holders /\ NewIsNew /\ OnlineIsTrue  BY DEF TaskInv
<1>2. TypeOK'  BY <1>1 DEF vars, TypeOK, ctl, health, reqs, hist
<1>3. NoReplyLost' /\ QueuedOnce' /\ NewIsNew'  BY <1>1, RequestsKept DEF vars
<1>4. Holders' /\ OnlineIsTrue'  BY <1>1 DEF vars, Holders, OnlineIsTrue, health, reqs, hist
<1>5. QED  BY <1>2, <1>3, <1>4 DEF TaskInv

\* Every step of the task keeps the invariant.
LEMMA StepInv ==
    ASSUME TaskInv, [Next]_vars
    PROVE  TaskInv'
<1>1. CASE \E r \in Reqs, k \in Kinds : Issue(r, k)  BY <1>1, IssueInv
<1>2. CASE Cancel \/ CloseControl  BY <1>2, SignalInv
<1>3. CASE Connect  BY <1>3, StopKeeps, ConnectOkInv, ConnectFailInv DEF Connect, ConnectCancelled
<1>4. CASE Wait  BY <1>4, StopKeeps, WaitInv, WaitControlInv DEF Wait, WaitStopped
<1>5. CASE Session
  BY <1>5, SessionControlInv, CycleInv, CallInv DEF Session
<1>6. CASE Greet  BY <1>6, GreetInv
<1>7. CASE Close  BY <1>7, StopKeeps, CloseInv DEF Close, StopClosed
<1>8. CASE Done \/ UNCHANGED vars  BY <1>8, StutterInv DEF Done
<1>9. QED  BY <1>1, <1>2, <1>3, <1>4, <1>5, <1>6, <1>7, <1>8 DEF Next

-----------------------------------------------------------------------------
(* Results *)

\* The inductive invariant of a device task (run_device, run_push).
THEOREM TaskInvariance == Spec => []TaskInv
<1>1. Init => TaskInv  BY InitInv
<1>2. TaskInv /\ [Next]_vars => TaskInv'  BY StepInv
<1>3. QED  BY <1>1, <1>2, PTL DEF Spec

\* Type correctness: in particular no wait exceeds the ceiling of the window
\* (Backoff::delay) and the channel never exceeds its capacity.
THEOREM TaskTypeCorrect == Spec => []TypeOK
<1>1. TaskInv => TypeOK  BY DEF TaskInv
<1>2. QED  BY <1>1, TaskInvariance, PTL

\* A reply handed to the task is queued, held in one place, or answered, also
\* across failed connects, backoff and explicit reconnects.
THEOREM RepliesKept == Spec => []NoReplyLost
<1>1. TaskInv => NoReplyLost  BY DEF TaskInv
<1>2. QED  BY <1>1, TaskInvariance, PTL

\* ONLINE is reported only with a session, which may be closing; a latched
\* alarm or an unanswered reconnect beside it lasts no longer than the report
\* of the connect, or the close of the session the reconnect ends (run_device,
\* run_push).
THEOREM OnlineTruthful == Spec => []OnlineIsTrue
<1>1. TaskInv => OnlineIsTrue  BY DEF TaskInv
<1>2. QED  BY <1>1, TaskInvariance, PTL

Fresh(r) == (kind[r] = "reconnect" /\ status[r] # "ok" /\ status'[r] = "ok") => r \in before

\* The status of all but one request stays; that one is not a reconnect, or is
\* not answered "ok".
LEMMA OthersFresh ==
    ASSUME TypeOK, NEW h \in Reqs, NEW res, status' = [status EXCEPT ![h] = res],
           res # "ok" \/ kind[h] # "reconnect"
    PROVE  \A r \in Reqs : Fresh(r)
BY DEF TypeOK, Fresh

\* A stop answers no request "ok".
LEMMA StopFresh ==
    ASSUME TypeOK, Stop(status)
    PROVE  \A r \in Reqs : Fresh(r)
BY DEF TypeOK, Stop, Fresh

\* No step answers a reconnect "ok" unless the attempt began after it.
LEMMA StepFresh ==
    ASSUME TaskInv, [Next]_vars
    PROVE  \A r \in Reqs : Fresh(r)
<1>1. TypeOK /\ NoReplyLost /\ QueuedOnce /\ Holders /\ NewIsNew  BY DEF TaskInv
<1>2. queue # <<>> => Head(queue) \in Reqs  BY <1>1 DEF TypeOK
<1>3. CASE status' = status  BY <1>3 DEF Fresh
<1>4. ASSUME NEW r \in Reqs, NEW k \in Kinds, Issue(r, k) PROVE \A x \in Reqs : Fresh(x)
  BY <1>1, <1>4, OthersFresh DEF Issue
<1>5. CASE (ConnectOk \/ Greeted) /\ status' = Answered(status, pending, "ok")
  <2>1. \A r \in Reqs : status'[r] = IF r = pending THEN "ok" ELSE status[r]
    BY <1>1, <1>5, TaskAssumption DEF Answered, TypeOK
  <2>2. pending # None => pending \in before  BY <1>1, <1>5 DEF Holders, ConnectOk, Greeted
  <2>3. QED  BY <2>1, <2>2, TaskAssumption DEF Fresh
<1>6. ASSUME NEW permanent \in BOOLEAN, ConnectFail(permanent) PROVE \A r \in Reqs : Fresh(r)
  <2>1. \A r \in Reqs : status'[r] = IF r = pending THEN "err" ELSE status[r]
    BY <1>1, <1>6, TaskAssumption DEF ConnectFail, Answered, TypeOK
  <2>2. QED  BY <2>1 DEF Fresh
<1>7. CASE WaitControl  BY <1>1, <1>2, <1>7, OthersFresh DEF WaitControl
<1>8. CASE SessionControl
  <2>1. \/ status' = [status EXCEPT ![Head(queue)] = "held"]
        \/ status' = [status EXCEPT ![Head(queue)] = "err"]
        \/ status' = [status EXCEPT ![Head(queue)] = "ok"] /\ kind[Head(queue)] # "reconnect"
    BY <1>8 DEF SessionControl
  <2>2. queue # <<>>  BY <1>8 DEF SessionControl
  <2>3. QED  BY <1>1, <1>2, <2>1, <2>2, OthersFresh
<1>9. CASE CallOk \/ CallFail
  <2>1. PICK res \in {"ok", "err"} : status' = Answered(status, call, res)
    BY <1>9 DEF CallOk, CallFail
  <2>2. CASE call = None  BY <1>3, <2>1, <2>2 DEF Answered
  <2>3. CASE call # None
    <3>1. call \in Reqs /\ kind[call] # "reconnect"  BY <1>1, <2>3 DEF Holders, TypeOK
    <3>2. QED  BY <1>1, <2>1, <2>3, <3>1, OthersFresh DEF Answered
  <2>4. QED  BY <2>2, <2>3
<1>10. CASE Cancel \/ CloseControl \/ WaitElapsed \/ WaitTick \/ StartCycle \/ PushUp \/ PushLost
           \/ SessionStopped \/ Done \/ UNCHANGED vars
  BY <1>3, <1>10 DEF Cancel, CloseControl, WaitElapsed, WaitTick, StartCycle, PushUp, PushLost,
                     SessionStopped, Done, vars, reqs
<1>11. CASE ConnectCancelled \/ WaitStopped \/ StopClosed
  BY <1>1, <1>11, StopFresh DEF ConnectCancelled, WaitStopped, StopClosed
<1>12. CASE ClearAlarm \/ RejoinClosed \/ LossClosed \/ RaiseAlarm
  BY <1>3, <1>12 DEF ClearAlarm, RejoinClosed, LossClosed, RaiseAlarm, reqs
<1>13. ConnectOk \/ Greeted => status' = status \/ status' = Answered(status, pending, "ok")
  BY DEF ConnectOk, Greeted
<1>14. QED
  BY <1>3, <1>4, <1>5, <1>6, <1>7, <1>8, <1>9, <1>10, <1>11, <1>12, <1>13
  DEF Next, Connect, Greet, Wait, Session, Close

\* A reconnect is reported successful only by an attempt that began after it
\* was asked for (pending_reconnect in run_device and run_push).
THEOREM ReconnectsFresh == Spec => ReconnectIsFresh
<1>1. TaskInv /\ [Next]_vars =>
        [ \A r \in Reqs :
            (kind[r] = "reconnect" /\ status[r] # "ok" /\ status'[r] = "ok") => r \in before ]_vars
  BY StepFresh DEF Fresh
<1>2. QED  BY <1>1, TaskInvariance, PTL DEF Spec, ReconnectIsFresh

\* What the token found the task doing: a link is lost after a cancel only if
\* a call was in flight, or the loss under way, when it came.
Excused == (cancel /\ pc \in Losing) => atCancel \in Losing

\* Once cancelled no cycle starts and no request is taken up: every select
\* polls the token first.
LEMMA StepExcused ==
    ASSUME TypeOK, Excused, [Next]_vars
    PROVE  Excused'
<1>1. CASE (\E r \in Reqs, k \in Kinds : Issue(r, k)) \/ CloseControl \/ Done \/ UNCHANGED vars
  BY <1>1 DEF Excused, Issue, CloseControl, Done, vars, ctl, hist
<1>2. CASE Cancel  BY <1>2 DEF Excused, Cancel
<1>3. CASE Connect
  <2>1. pc' \notin Losing
    BY <1>3 DEF Connect, ConnectCancelled, ConnectOk, ConnectFail, Stop, Losing
  <2>2. QED  BY <2>1 DEF Excused
<1>4. CASE Wait
  <2>1. pc' \notin Losing
    BY <1>4 DEF Wait, WaitElapsed, WaitStopped, WaitControl, WaitTick, ToConnect, Stop, Losing
  <2>2. QED  BY <2>1 DEF Excused
<1>5. CASE Greet
  <2>1. pc' \notin Losing  BY <1>5 DEF Greet, ClearAlarm, Greeted, Losing
  <2>2. QED  BY <2>1 DEF Excused
<1>6. CASE Session
  <2>1. cancel' = cancel /\ atCancel' = atCancel
    BY <1>6 DEF Session, SessionStopped, SessionControl, StartCycle, CallOk, CallFail, PushUp, PushLost, ctl, hist
  <2>2. pc' \in Losing => ~cancel \/ pc = "busy"
    BY <1>6 DEF Session, SessionStopped, SessionControl, StartCycle, CallOk, CallFail, PushUp, PushLost,
                Idle, Noticed, Losing
  <2>3. QED  BY <2>1, <2>2 DEF Excused, Losing
<1>7. CASE Close
  <2>1. CASE LossClosed  BY <2>1 DEF LossClosed, Excused, Losing, ctl, hist
  <2>2. CASE StopClosed \/ RejoinClosed \/ RaiseAlarm
    <3>1. pc' \notin Losing
      BY <2>2 DEF StopClosed, RejoinClosed, RaiseAlarm, ToConnect, Stop, Losing
    <3>2. QED  BY <3>1 DEF Excused
  <2>3. QED  BY <1>7, <2>1, <2>2 DEF Close
<1>8. QED  BY <1>1, <1>2, <1>3, <1>4, <1>5, <1>6, <1>7 DEF Next

\* A cancelled task opens no session, and raises an alarm only if a call was in
\* flight or the loss being reported when the token fell: every select polls
\* the token first, and the connect under way is dropped (run_device, run_push).
THEOREM StopsQuietly == Spec => StopIsQuiet
<1>1. Init => Excused  BY DEF Init, Excused
<1>2. TypeOK /\ Excused /\ [Next]_vars => Excused'  BY StepExcused
<1>3. Excused /\ [Next]_vars =>
        [ cancel => /\ pc' \in Attached => pc \in Attached
                    /\ (alarm' /\ ~alarm) => atCancel \in Losing ]_vars
  <2> SUFFICES ASSUME Excused, Next, cancel
               PROVE  /\ pc' \in Attached => pc \in Attached
                      /\ (alarm' /\ ~alarm) => atCancel \in Losing
    OBVIOUS
  <2>1. CASE (\E r \in Reqs, k \in Kinds : Issue(r, k)) \/ Cancel \/ CloseControl \/ Done
    <3>1. pc' = pc /\ alarm' = alarm
      BY <2>1 DEF Issue, Cancel, CloseControl, Done, vars, health
    <3>2. QED  BY <3>1
  <2>2. CASE Connect
    BY <2>2 DEF Connect, ConnectCancelled, ConnectOk, ConnectFail, Stop, health, Attached
  <2>3. CASE Wait
    BY <2>3 DEF Wait, WaitElapsed, WaitStopped, WaitControl, WaitTick, ToConnect, Stop, health, Attached
  <2>4. CASE Greet
    <3>1. pc \in Attached /\ (alarm' => alarm)  BY <2>4 DEF Greet, ClearAlarm, Greeted, health, Attached
    <3>2. QED  BY <3>1
  <2>5. CASE Session
    <3>1. pc \in Attached /\ alarm' = alarm
      BY <2>5 DEF Session, SessionStopped, SessionControl, StartCycle, CallOk, CallFail, PushUp, PushLost,
                  health, Attached
    <3>2. QED  BY <3>1
  <2>6. CASE Close
    <3>1. pc' \notin Attached
      BY <2>6 DEF Close, StopClosed, RejoinClosed, LossClosed, RaiseAlarm, ToConnect, Stop, Attached
    <3>2. (alarm' /\ ~alarm) => pc = "lost"
      BY <2>6 DEF Close, StopClosed, RejoinClosed, LossClosed, RaiseAlarm, ToConnect, Stop, health
    <3>3. QED  BY <3>1, <3>2 DEF Excused, Losing
  <2>7. QED  BY <2>1, <2>2, <2>3, <2>4, <2>5, <2>6 DEF Next
<1>4. QED  BY <1>1, <1>2, <1>3, TaskTypeCorrect, PTL DEF Spec, StopIsQuiet
=============================================================================
