--------------------------- MODULE IoManagerProofs ---------------------------
(***************************************************************************)
(* For any number of connections, any queue depth, any watchdog and any    *)
(* network whose reordering fits the window: the signed window tells new   *)
(* frames from old ones, what a connection holds outside the process is    *)
(* released with it, and a stream that ends says why.                      *)
(***************************************************************************)
EXTENDS IoManager, QueueTheorems, TLAPS

Points == {"idle", "asking", "closing", "sending", "arming", "open", "removing", "failed",
           "unread", "gone", "closed"}
Events == {"up", "data", "timeout", "io"}
Commands == ({"add", "remove"} \X Conns) \cup {<<"shutdown">>}
ConnState == [wd : Int, due : Int, serr : Nat, up : BOOLEAN]

CallTypes ==
    /\ call \in [Conns -> Points] /\ ack \in [Conns -> {"none", "ok", "err", "dropped"}]
    /\ owed \in [Conns -> BOOLEAN]
TaskTypes ==
    /\ cmds \in Seq(Commands)
    /\ reg \in [Conns -> ConnState \cup {NoConn}] /\ behind \in [Conns -> Nat]
    /\ late \in Nat /\ late <= MaxLate /\ recvErrs \in Nat
StreamTypes ==
    /\ ev \in [Conns -> Seq(Events)] /\ ended \in [Conns -> BOOLEAN]
    /\ heard \in [Conns -> BOOLEAN] /\ ordered \in BOOLEAN

\* A connection that lives has a watchdog that the next tick may find lapsed but
\* no tick has; what it fell behind since, the watchdog has counted.
WatchdogCounts ==
    \A c \in Conns : Registered(c) =>
        /\ reg[c].wd + late >= 1
        /\ reg[c].up => behind[c] + reg[c].wd <= Reorder + Multiplier

\* A success reply is outstanding only between the reply and the close, or for good
\* where it could not be read.
OwedWhileOpen ==
    \A c \in Conns : call[c] \in {"idle", "asking", "failed", "removing", "closed"} => ~owed[c]

\* The socket is in the groups of the registered multicast connections, and in no other.
GroupsExact == groups = {c \in Conns : Registered(c) /\ Type[c] = "multicast"}

Adding(c) == In(<<"add", c>>, cmds)

\* An Add is queued once, and a Remove only by a close.
QueuedOnce ==
    /\ \A c \in Conns : \A i, j \in 1..Len(cmds) :
           cmds[i] = <<"add", c>> /\ cmds[j] = <<"add", c>> => i = j
    /\ \A c \in Conns : In(<<"remove", c>>, cmds) => call[c] = "closed"

\* An Add under way has no answer and no registration, and its opener waits or is gone.
Handshake ==
    \A c \in Conns :
        /\ Adding(c) => /\ call[c] \in {"arming", "gone"} /\ ack[c] = "none"
                        /\ ~Registered(c) /\ ~ended[c]
        /\ call[c] \in {"idle", "asking", "sending"} =>
               ack[c] = "none" /\ ~Registered(c) /\ ~ended[c]
        /\ call[c] = "arming" /\ ack[c] = "none" => Adding(c)
        /\ call[c] = "open" => ack[c] = "ok"

HasLost(q) == \E i \in 1..Len(q) : IsLost(q[i])
Told(c) == ended[c] /\ ~ordered => heard[c] \/ HasLost(ev[c])

\* From the answer on, also while the opener has not read it yet.
EndTold ==
    \A c \in Conns : call[c] \in {"arming", "open"} /\ ack[c] = "ok" =>
        (ended[c] <=> ~Registered(c)) /\ Told(c)

IoInv == /\ CallTypes /\ TaskTypes /\ StreamTypes
         /\ WatchdogCounts /\ OwedWhileOpen /\ GroupsExact /\ QueuedOnce /\ Handshake /\ EndTold

-----------------------------------------------------------------------------
(* The operators *)

\* The signed difference of two sequence numbers that are less than half a turn
\* apart has the sign of their distance (IoConnection::consume).
LEMMA DeltaSign ==
    ASSUME NEW d \in Int, -Reorder <= d, d < Half
    PROVE  Delta(d) > 0 <=> d > 0
<1>1. /\ Modulus \in Nat \ {0} /\ Half \in Nat /\ 2 * Half <= Modulus
      /\ Reorder \in Nat /\ Reorder < Half
  BY IoAssumption, WindowAssumption DEF Half
<1>2. CASE d >= 0
  <2>1. d % Modulus = d  BY <1>1, <1>2
  <2>2. QED  BY <1>1, <1>2, <2>1 DEF Delta
<1>3. CASE d < 0
  <2>1. d % Modulus = d + Modulus  BY <1>1, <1>3
  <2>2. QED  BY <1>1, <1>3, <2>1 DEF Delta
<1>4. QED  BY <1>2, <1>3

\* The next deadline of a schedule is an integer (poll_produce).
LEMMA ProduceType ==
    ASSUME NEW due \in Int
    PROVE  poll_produce(due) \in Int
<1>1. (-due) \div O2TApi \in Int  BY IoAssumption
<1>2. \A x, y \in Int : x * y \in Int  OBVIOUS
<1>3. QED  BY <1>1, <1>2, IoAssumption DEF poll_produce

\* The oldest sample is the one a full queue gives up, if it holds any.
LEMMA OldestIsData ==
    ASSUME NEW q \in Seq(Events)
    PROVE  LET k == SelectInSeq(q, IsData)
           IN k \in 0..Len(q) /\ (k # 0 => IsData(q[k]))
<1> DEFINE I == {i \in 1..Len(q) : IsData(q[i])}
<1>1. SelectInSeq(q, IsData) = IF I = {} THEN 0 ELSE Min(I)
  BY DEF SelectInSeq
<1>2. CASE I = {}  BY <1>1, <1>2
<1>3. CASE I # {}
  <2>1. I \in SUBSET Nat  OBVIOUS
  <2>2. \E x \in I : \A y \in I : x <= y  BY <1>3, <2>1, LeastMember
  <2>3. Min(I) \in I  BY <2>2 DEF Min
  <2>4. QED  BY <1>1, <1>3, <2>3
<1>4. QED  BY <1>2, <1>3

\* A queue that is full loses a sample, never a control event: a loss that is in
\* it stays in it, and a loss that is sent gets in (push_latest_wins).
LEMMA PushKeepsLost ==
    ASSUME NEW q \in Seq(Events), NEW e \in Events
    PROVE  /\ push_latest_wins(q, e) \in Seq(Events)
           /\ HasLost(q) \/ IsLost(e) => HasLost(push_latest_wins(q, e))
<1> DEFINE k == SelectInSeq(q, IsData)
           d == RemoveAt(q, k)
<1>1. k \in 0..Len(q) /\ (k # 0 => IsData(q[k]))  BY OldestIsData
<1>2. d \in Seq(Events) /\ \A i \in 1..Len(q) : i # k => In(q[i], d)  BY <1>1, RemoveKeeps
<1>3. push_latest_wins(q, e) \in {Append(d, e), Append(q, e)}  BY DEF push_latest_wins
<1>4. HasLost(q) => HasLost(d)
  <2>1. SUFFICES ASSUME NEW i \in 1..Len(q), IsLost(q[i]) PROVE HasLost(d)  BY DEF HasLost
  <2>2. i # k  BY <1>1, <2>1 DEF IsLost, IsData
  <2>3. QED  BY <1>2, <2>1, <2>2 DEF In, HasLost
<1> HIDE DEF d
<1>5. ASSUME NEW s \in Seq(Events)
      PROVE  /\ Append(s, e) \in Seq(Events)
             /\ HasLost(s) \/ IsLost(e) => HasLost(Append(s, e))
  BY <1>5, AppendProperties, LenProperties DEF HasLost
<1>6. QED  BY <1>2, <1>3, <1>4, <1>5

\* A loss is in the stream until it is read (IoEvents::recv).
LEMMA TailKeepsLost ==
    ASSUME NEW q \in Seq(Events), q # <<>>
    PROVE  /\ Tail(q) \in Seq(Events)
           /\ HasLost(q) => IsLost(Head(q)) \/ HasLost(Tail(q))
<1>1. /\ Tail(q) \in Seq(Events) /\ Len(Tail(q)) = Len(q) - 1 /\ Len(q) \in Nat
      /\ \A i \in 1..Len(Tail(q)) : Tail(q)[i] = q[i + 1]
  BY HeadTailProperties, LenProperties
<1>2. ASSUME NEW i \in 1..Len(q), IsLost(q[i]) PROVE IsLost(Head(q)) \/ HasLost(Tail(q))
  <2>1. CASE i = 1  BY <1>2, <2>1
  <2>2. CASE i # 1
    <3>1. i - 1 \in 1..Len(Tail(q)) /\ Tail(q)[i - 1] = q[i]  BY <1>1, <2>2
    <3>2. QED  BY <1>2, <3>1 DEF HasLost
  <2>3. QED  BY <2>1, <2>2
<1>3. QED  BY <1>1, <1>2 DEF HasLost

-----------------------------------------------------------------------------
(* The callers *)

\* A manager starts with nothing opened.
LEMMA InitInv == Init => IoInv
<1>1. SUFFICES ASSUME Init PROVE IoInv  OBVIOUS
<1>2. cmds \in Seq(Commands) /\ Len(cmds) = 0 /\ <<>> \in Seq(Events)
  BY <1>1, EmptySeq DEF Init
<1>3. CallTypes  BY <1>1 DEF Init, CallTypes, Points
<1>4. TaskTypes  BY <1>1, <1>2, IoAssumption DEF Init, TaskTypes
<1>5. StreamTypes  BY <1>1, <1>2 DEF Init, StreamTypes
<1>6. WatchdogCounts /\ GroupsExact  BY <1>1 DEF Init, WatchdogCounts, GroupsExact, Registered
<1>7. OwedWhileOpen  BY <1>1 DEF Init, OwedWhileOpen
<1>8. QueuedOnce  BY <1>2 DEF QueuedOnce, In
<1>9. Handshake  BY <1>1, <1>2 DEF Init, Handshake, Adding, In, Registered
<1>10. EndTold  BY <1>1 DEF Init, EndTold
<1>11. QED  BY <1>3, <1>4, <1>5, <1>6, <1>7, <1>8, <1>9, <1>10 DEF IoInv

\* A caller's move that neither queues a command nor touches a stream.
LEMMA MoveInv ==
    ASSUME IoInv, NEW c \in Conns, NEW p \in Points,
           call' = [call EXCEPT ![c] = p], call[c] \notin {"closed", "gone"},
           owed' \in [Conns -> BOOLEAN], OwedWhileOpen', UNCHANGED <<ack, task, behind, strm>>,
           p # "arming", p # "sending" \/ call[c] = "asking", p # "asking" \/ call[c] = "idle",
           call[c] = "arming" => ack[c] # "none", p # "idle",
           p = "open" => call[c] = "arming" /\ ack[c] = "ok"
    PROVE  IoInv'
<1>1. /\ CallTypes /\ TaskTypes /\ StreamTypes
      /\ WatchdogCounts /\ GroupsExact /\ QueuedOnce /\ Handshake /\ EndTold
  BY DEF IoInv
<1>2. CallTypes'  BY <1>1 DEF CallTypes
<1>3. TaskTypes' /\ StreamTypes' /\ WatchdogCounts' /\ GroupsExact'
  BY <1>1 DEF TaskTypes, StreamTypes, WatchdogCounts, GroupsExact, Registered, task, strm
<1>4. \A d \in Conns : call'[d] = IF d = c THEN p ELSE call[d]  BY <1>1 DEF CallTypes
<1>5. QueuedOnce'  BY <1>1, <1>4 DEF QueuedOnce, In, task
<1>6. Handshake'
  <2>1. \A d \in Conns : (Adding(d)' <=> Adding(d)) /\ (Registered(d)' <=> Registered(d))
    BY DEF Adding, In, Registered, task
  <2>2. QED  BY <1>1, <1>4, <2>1 DEF Handshake, strm
<1>7. EndTold'
  BY <1>1, <1>4 DEF EndTold, Told, HasLost, Registered, task, strm
<1>8. QED  BY <1>2, <1>3, <1>5, <1>6, <1>7 DEF IoInv

\* The handshake with the target, and the close of a connection that was open.
LEMMA CallInv ==
    ASSUME IoInv, NEW c \in Conns,
           \/ ForwardOpen(c) \/ Refused(c) \/ Unreadable(c) \/ Armed(c) \/ BestEffortClose(c)
           \/ CloseAsk(c) \/ \E reply \in Replies(c) : Granted(c, reply)
    PROVE  IoInv'
<1>1. CallTypes /\ OwedWhileOpen /\ Handshake  BY DEF IoInv
<1>2. CASE ForwardOpen(c)
  <2>1. owed' \in [Conns -> BOOLEAN] /\ OwedWhileOpen'
    BY <1>1, <1>2 DEF ForwardOpen, Goto, CallTypes, OwedWhileOpen
  <2>2. QED  BY <1>2, <2>1, MoveInv DEF ForwardOpen, Goto, Points
<1>3. CASE Refused(c)
  <2>1. owed' \in [Conns -> BOOLEAN] /\ OwedWhileOpen'
    BY <1>1, <1>3 DEF Refused, Goto, CallTypes, OwedWhileOpen
  <2>2. QED  BY <1>3, <2>1, MoveInv DEF Refused, Goto, Points
<1>4. CASE Armed(c)
  <2>1. owed' \in [Conns -> BOOLEAN] /\ OwedWhileOpen'
    BY <1>1, <1>4 DEF Armed, Goto, CallTypes, OwedWhileOpen
  <2>2. QED  BY <1>4, <2>1, MoveInv DEF Armed, Goto, Points
<1>5. CASE BestEffortClose(c)
  <2>1. owed' \in [Conns -> BOOLEAN] /\ OwedWhileOpen'
    BY <1>1, <1>5 DEF BestEffortClose, Goto, CallTypes, OwedWhileOpen
  <2>2. QED  BY <1>5, <2>1, MoveInv DEF BestEffortClose, Goto, Points
<1>6. CASE CloseAsk(c)
  <2>1. owed' \in [Conns -> BOOLEAN] /\ OwedWhileOpen'
    BY <1>1, <1>6 DEF CloseAsk, Goto, CallTypes, OwedWhileOpen
  <2>2. QED  BY <1>6, <2>1, MoveInv DEF CloseAsk, Goto, Points
<1>7. ASSUME NEW reply, Granted(c, reply) PROVE IoInv'
  <2>1. PICK p \in {"sending", "closing"} : call' = [call EXCEPT ![c] = p]
    BY <1>7 DEF Granted, Goto
  <2>2. owed' \in [Conns -> BOOLEAN] /\ OwedWhileOpen'
    BY <1>1, <1>7, <2>1 DEF Granted, CallTypes, OwedWhileOpen
  <2>3. QED  BY <1>7, <2>1, <2>2, MoveInv DEF Granted, Points
<1>8. CASE Unreadable(c)
  <2>1. owed' \in [Conns -> BOOLEAN] /\ OwedWhileOpen'
    BY <1>1, <1>8 DEF Unreadable, Goto, CallTypes, OwedWhileOpen
  <2>2. QED  BY <1>8, <2>1, MoveInv DEF Unreadable, Goto, Points
<1>9. QED  BY <1>2, <1>3, <1>4, <1>5, <1>6, <1>7, <1>8

\* A command is queued behind those that wait (mpsc send).
LEMMA CommandQueued ==
    ASSUME NEW x \in Commands, cmds \in Seq(Commands), cmds' = Append(cmds, x)
    PROVE  /\ cmds' \in Seq(Commands) /\ Len(cmds') = Len(cmds) + 1 /\ Len(cmds) \in Nat
           /\ \A i \in 1..Len(cmds) : cmds'[i] = cmds[i]
           /\ cmds'[Len(cmds) + 1] = x
           /\ \A y : In(y, cmds') <=> In(y, cmds) \/ y = x
BY AppendIn

\* The connection is handed to the task, or the task is found to have exited.
LEMMA SendAddInv ==
    ASSUME IoInv, NEW c \in Conns, SendAdd(c)
    PROVE  IoInv'
<1>1. /\ CallTypes /\ TaskTypes /\ StreamTypes /\ WatchdogCounts /\ GroupsExact
      /\ OwedWhileOpen /\ QueuedOnce /\ Handshake /\ EndTold
  BY DEF IoInv
<1>2. CASE mgr = "exited" /\ Goto(c, "closing") /\ UNCHANGED cmds
  <2>1. owed' \in [Conns -> BOOLEAN] /\ OwedWhileOpen'
    BY <1>1, <1>2 DEF SendAdd, Goto, CallTypes, OwedWhileOpen
  <2>2. QED  BY <1>2, <2>1, MoveInv DEF SendAdd, Goto, Points, task
<1>3. CASE Goto(c, "arming") /\ cmds' = Append(cmds, <<"add", c>>)
  <2>1. /\ call' = [call EXCEPT ![c] = "arming"] /\ call[c] = "sending"
        /\ UNCHANGED <<ack, owed, owner, mgr, reg, groups, recvErrs, late, behind, strm>>
    BY <1>3 DEF SendAdd, Goto
  <2>2. <<"add", c>> \in Commands /\ cmds \in Seq(Commands)  BY <1>1 DEF Commands, TaskTypes
  <2>3. /\ cmds' \in Seq(Commands) /\ Len(cmds') = Len(cmds) + 1 /\ Len(cmds) \in Nat
        /\ \A i \in 1..Len(cmds) : cmds'[i] = cmds[i]
        /\ cmds'[Len(cmds) + 1] = <<"add", c>>
        /\ \A y : In(y, cmds') <=> In(y, cmds) \/ y = <<"add", c>>
    BY <1>3, <2>2, CommandQueued
  <2>4. CallTypes'  BY <1>1, <2>1 DEF CallTypes, Points
  <2>5. TaskTypes' /\ StreamTypes' /\ WatchdogCounts' /\ GroupsExact'
    BY <1>1, <2>1, <2>3 DEF TaskTypes, StreamTypes, WatchdogCounts, GroupsExact, Registered, strm
  <2>6. \A d \in Conns : call'[d] = IF d = c THEN "arming" ELSE call[d]  BY <1>1, <2>1 DEF CallTypes
  <2>7. OwedWhileOpen'  BY <1>1, <2>1, <2>6 DEF OwedWhileOpen
  <2>8. ~Adding(c)  BY <1>1, <2>1 DEF Handshake
  <2>9. QueuedOnce'
    <3>1. ASSUME NEW d \in Conns, NEW i \in 1..Len(cmds'), NEW j \in 1..Len(cmds'),
                 cmds'[i] = <<"add", d>>, cmds'[j] = <<"add", d>>
          PROVE  i = j
      <4>1. CASE d = c
        <5>1. \A k \in 1..Len(cmds) : cmds[k] # <<"add", c>>  BY <2>8 DEF Adding, In
        <5>2. \A k \in 1..Len(cmds') : k # Len(cmds) + 1 => k \in 1..Len(cmds) /\ cmds'[k] = cmds[k]  BY <2>3
        <5>3. i = Len(cmds) + 1 /\ j = Len(cmds) + 1  BY <3>1, <4>1, <5>1, <5>2
        <5>4. QED  BY <5>3
      <4>2. CASE d # c
        <5>1. i # Len(cmds) + 1 /\ j # Len(cmds) + 1  BY <2>3, <3>1, <4>2
        <5>2. i \in 1..Len(cmds) /\ j \in 1..Len(cmds)  BY <2>3, <5>1
        <5>3. QED  BY <1>1, <2>3, <3>1, <5>2 DEF QueuedOnce
      <4>3. QED  BY <4>1, <4>2
    <3>2. ASSUME NEW d \in Conns, In(<<"remove", d>>, cmds') PROVE call'[d] = "closed"
      <4>1. In(<<"remove", d>>, cmds)  BY <2>3, <3>2
      <4>2. call[d] = "closed"  BY <1>1, <4>1 DEF QueuedOnce
      <4>3. QED  BY <2>1, <2>6, <4>2
    <3>3. QED  BY <3>1, <3>2 DEF QueuedOnce
  <2>10. Handshake'
    <3>1. \A d \in Conns : In(<<"add", d>>, cmds') <=> In(<<"add", d>>, cmds) \/ d = c
      BY <2>3
    <3>2. \A d \in Conns : (Adding(d)' <=> Adding(d) \/ d = c) /\ (Registered(d)' <=> Registered(d))
      BY <2>1, <3>1 DEF Adding, Registered
    <3>3. QED  BY <1>1, <2>1, <2>6, <3>2 DEF Handshake, strm
  <2>11. EndTold'
    <3>1. ack[c] = "none"  BY <1>1, <2>1 DEF Handshake
    <3>2. QED  BY <1>1, <2>1, <2>6, <3>1 DEF EndTold, Told, HasLost, Registered, strm
  <2>12. QED  BY <2>4, <2>5, <2>7, <2>9, <2>10, <2>11 DEF IoInv
<1>4. QED  BY <1>2, <1>3 DEF SendAdd

\* The opening future or the handle is dropped: its stream has no reader any more.
LEMMA CancelInv ==
    ASSUME IoInv, NEW c \in Conns, Cancel(c)
    PROVE  IoInv'
<1>1. /\ CallTypes /\ TaskTypes /\ StreamTypes /\ WatchdogCounts /\ GroupsExact
      /\ OwedWhileOpen /\ QueuedOnce /\ Handshake /\ EndTold
  BY DEF IoInv
<1>2. /\ call' = [call EXCEPT ![c] = "gone"] /\ ev' = [ev EXCEPT ![c] = <<>>]
      /\ call[c] \in {"asking", "closing", "sending", "arming", "open", "removing"}
      /\ UNCHANGED <<ack, owed, owner, task, behind, ended, heard, ordered>>
  BY DEF Cancel, Goto
<1>3. \A d \in Conns : /\ call'[d] = IF d = c THEN "gone" ELSE call[d]
                       /\ d # c => ev'[d] = ev[d]
  BY <1>1, <1>2 DEF CallTypes, StreamTypes
<1>4. CallTypes' /\ OwedWhileOpen'  BY <1>1, <1>2, <1>3 DEF CallTypes, Points, OwedWhileOpen
<1>5. TaskTypes' /\ WatchdogCounts' /\ GroupsExact'
  BY <1>1, <1>2 DEF TaskTypes, WatchdogCounts, GroupsExact, Registered, task
<1>6. StreamTypes'
  <2>1. <<>> \in Seq(Events)  BY EmptySeq
  <2>2. QED  BY <1>1, <1>2, <2>1 DEF StreamTypes
<1>7. QueuedOnce'  BY <1>1, <1>2, <1>3 DEF QueuedOnce, In, task
<1>8. Handshake'
  <2>1. \A d \in Conns : (Adding(d)' <=> Adding(d)) /\ (Registered(d)' <=> Registered(d))
    BY <1>2 DEF Adding, In, Registered, task
  <2>2. QED  BY <1>1, <1>2, <1>3, <2>1 DEF Handshake
<1>9. EndTold'  BY <1>1, <1>2, <1>3 DEF EndTold, Told, HasLost, Registered, task
<1>10. QED  BY <1>4, <1>5, <1>6, <1>7, <1>8, <1>9 DEF IoInv

\* Commands and the handshake of an opener depend on these alone.
LEMMA HandshakeKept ==
    ASSUME QueuedOnce, Handshake, UNCHANGED <<call, ack, cmds, reg, ended>>
    PROVE  QueuedOnce' /\ Handshake'
<1>1. QueuedOnce'  BY DEF QueuedOnce, In
<1>2. Handshake'  BY DEF Handshake, Adding, In, Registered
<1>3. QED  BY <1>1, <1>2

\* The owner of an open connection reads the next event.
LEMMA ReceiveInv ==
    ASSUME IoInv, NEW c \in Conns, Receive(c)
    PROVE  IoInv'
<1>1. /\ CallTypes /\ TaskTypes /\ StreamTypes /\ WatchdogCounts /\ GroupsExact
      /\ OwedWhileOpen /\ QueuedOnce /\ Handshake /\ EndTold
  BY DEF IoInv
<1>2. /\ ev[c] # <<>> /\ ev' = [ev EXCEPT ![c] = Tail(ev[c])]
      /\ heard' = [heard EXCEPT ![c] = heard[c] \/ IsLost(Head(ev[c]))]
      /\ UNCHANGED <<calls, task, behind, ended, ordered>>
  BY DEF Receive
<1>3. ev[c] \in Seq(Events)  BY <1>1 DEF StreamTypes
<1>4. /\ Tail(ev[c]) \in Seq(Events)
      /\ HasLost(ev[c]) => IsLost(Head(ev[c])) \/ HasLost(Tail(ev[c]))
  BY <1>2, <1>3, TailKeepsLost
<1>5. \A d \in Conns : /\ ev'[d] = IF d = c THEN Tail(ev[c]) ELSE ev[d]
                       /\ heard'[d] <=> heard[d] \/ (d = c /\ IsLost(Head(ev[c])))
  BY <1>1, <1>2 DEF StreamTypes
<1>6. CallTypes' /\ OwedWhileOpen' /\ TaskTypes' /\ WatchdogCounts' /\ GroupsExact'
  BY <1>1, <1>2 DEF CallTypes, OwedWhileOpen, TaskTypes, WatchdogCounts, GroupsExact, Registered, calls, task
<1>7. StreamTypes'
  <2>1. (heard[c] \/ IsLost(Head(ev[c]))) \in BOOLEAN  OBVIOUS
  <2>2. QED  BY <1>1, <1>2, <1>4, <2>1 DEF StreamTypes
<1>8. QueuedOnce' /\ Handshake'
  <2>1. UNCHANGED <<call, ack, cmds, reg, ended>>  BY <1>2 DEF calls, task
  <2>2. QED  BY <1>1, <2>1, HandshakeKept
<1>9. EndTold'  BY <1>1, <1>2, <1>4, <1>5 DEF EndTold, Told, Registered, calls, task
<1>10. QED  BY <1>6, <1>7, <1>8, <1>9 DEF IoInv

\* A closing handle queues its Remove, unless the task has exited; its stream has
\* no reader any more.
LEMMA CloseRemoveInv ==
    ASSUME IoInv, NEW c \in Conns, CloseRemove(c)
    PROVE  IoInv'
<1>1. /\ CallTypes /\ TaskTypes /\ StreamTypes /\ WatchdogCounts /\ GroupsExact
      /\ OwedWhileOpen /\ QueuedOnce /\ Handshake /\ EndTold
  BY DEF IoInv
<1>2. /\ call' = [call EXCEPT ![c] = "closed"] /\ ev' = [ev EXCEPT ![c] = <<>>]
      /\ call[c] = "removing"
      /\ UNCHANGED <<ack, owed, owner, mgr, reg, groups, recvErrs, late, behind, ended, heard, ordered>>
  BY DEF CloseRemove, Goto
<1>3. \A d \in Conns : /\ call'[d] = IF d = c THEN "closed" ELSE call[d]
                       /\ d # c => ev'[d] = ev[d]
  BY <1>1, <1>2 DEF CallTypes, StreamTypes
<1>4. /\ cmds' \in Seq(Commands)
      /\ \A y : In(y, cmds') => In(y, cmds) \/ y = <<"remove", c>>
      /\ \A y : In(y, cmds) => In(y, cmds')
      /\ \A d \in Conns : \A i, j \in 1..Len(cmds') :
             cmds'[i] = <<"add", d>> /\ cmds'[j] = <<"add", d>> => i = j
  <2>1. CASE UNCHANGED cmds  BY <1>1, <2>1 DEF TaskTypes, QueuedOnce, In
  <2>2. CASE cmds' = Append(cmds, <<"remove", c>>)
    <3>1. <<"remove", c>> \in Commands /\ cmds \in Seq(Commands)  BY <1>1 DEF Commands, TaskTypes
    <3>2. /\ cmds' \in Seq(Commands) /\ Len(cmds') = Len(cmds) + 1 /\ Len(cmds) \in Nat
          /\ \A i \in 1..Len(cmds) : cmds'[i] = cmds[i]
          /\ cmds'[Len(cmds) + 1] = <<"remove", c>>
          /\ \A y : In(y, cmds') <=> In(y, cmds) \/ y = <<"remove", c>>
      BY <2>2, <3>1, CommandQueued
    <3>3. ASSUME NEW d \in Conns, NEW i \in 1..Len(cmds'), NEW j \in 1..Len(cmds'),
                 cmds'[i] = <<"add", d>>, cmds'[j] = <<"add", d>>
          PROVE  i = j
      <4>1. i # Len(cmds) + 1 /\ j # Len(cmds) + 1  BY <3>2, <3>3
      <4>2. i \in 1..Len(cmds) /\ j \in 1..Len(cmds)  BY <3>2, <4>1
      <4>3. QED  BY <1>1, <3>2, <3>3, <4>2 DEF QueuedOnce
    <3>4. QED  BY <3>2, <3>3
  <2>3. QED  BY <2>1, <2>2 DEF CloseRemove
<1>5. CallTypes' /\ OwedWhileOpen'  BY <1>1, <1>2, <1>3 DEF CallTypes, Points, OwedWhileOpen
<1>6. TaskTypes' /\ WatchdogCounts' /\ GroupsExact'
  BY <1>1, <1>2, <1>4 DEF TaskTypes, WatchdogCounts, GroupsExact, Registered
<1>7. StreamTypes'
  <2>1. <<>> \in Seq(Events)  BY EmptySeq
  <2>2. QED  BY <1>1, <1>2, <2>1 DEF StreamTypes
<1>8. QueuedOnce'
  <2>1. ASSUME NEW d \in Conns, In(<<"remove", d>>, cmds') PROVE call'[d] = "closed"
    <3>1. CASE d = c  BY <1>3, <3>1
    <3>2. CASE d # c
      <4>1. In(<<"remove", d>>, cmds)  BY <1>4, <2>1, <3>2
      <4>2. QED  BY <1>1, <1>3, <3>2, <4>1 DEF QueuedOnce
    <3>3. QED  BY <3>1, <3>2
  <2>2. QED  BY <1>4, <2>1 DEF QueuedOnce
<1>9. Handshake'
  <2>1. \A d \in Conns : (Adding(d)' <=> Adding(d)) /\ (Registered(d)' <=> Registered(d))
    <3>1. \A d \in Conns : <<"add", d>> # <<"remove", c>>  OBVIOUS
    <3>2. QED  BY <1>2, <1>4, <3>1 DEF Adding, Registered
  <2>2. QED  BY <1>1, <1>2, <1>3, <2>1 DEF Handshake
<1>10. EndTold'  BY <1>1, <1>2, <1>3 DEF EndTold, Told, HasLost, Registered
<1>11. QED  BY <1>5, <1>6, <1>7, <1>8, <1>9, <1>10 DEF IoInv

\* The owner of the manager asks the task to end, or is dropped.
LEMMA ShutdownInv ==
    ASSUME IoInv, Shutdown
    PROVE  IoInv'
<1>1. /\ CallTypes /\ TaskTypes /\ StreamTypes /\ WatchdogCounts /\ GroupsExact
      /\ OwedWhileOpen /\ QueuedOnce /\ Handshake /\ EndTold
  BY DEF IoInv
<1>2. UNCHANGED <<call, ack, owed, mgr, reg, groups, recvErrs, late, behind, strm>>
  BY DEF Shutdown
<1>3. /\ cmds' \in Seq(Commands)
      /\ \A d \in Conns : In(<<"remove", d>>, cmds') => In(<<"remove", d>>, cmds)
      /\ \A d \in Conns : In(<<"add", d>>, cmds') <=> In(<<"add", d>>, cmds)
      /\ \A d \in Conns : \A i, j \in 1..Len(cmds') :
             cmds'[i] = <<"add", d>> /\ cmds'[j] = <<"add", d>> => i = j
  <2>1. CASE UNCHANGED cmds  BY <1>1, <2>1 DEF TaskTypes, QueuedOnce, In
  <2>2. CASE cmds' = Append(cmds, <<"shutdown">>)
    <3>1. <<"shutdown">> \in Commands /\ cmds \in Seq(Commands)  BY <1>1 DEF Commands, TaskTypes
    <3>2. /\ cmds' \in Seq(Commands) /\ Len(cmds') = Len(cmds) + 1 /\ Len(cmds) \in Nat
          /\ \A i \in 1..Len(cmds) : cmds'[i] = cmds[i]
          /\ cmds'[Len(cmds) + 1] = <<"shutdown">>
          /\ \A y : In(y, cmds') <=> In(y, cmds) \/ y = <<"shutdown">>
      BY <2>2, <3>1, CommandQueued
    <3>3. \A d \in Conns : <<"shutdown">> # <<"add", d>> /\ <<"shutdown">> # <<"remove", d>>
      OBVIOUS
    <3>4. ASSUME NEW d \in Conns, NEW i \in 1..Len(cmds'), NEW j \in 1..Len(cmds'),
                 cmds'[i] = <<"add", d>>, cmds'[j] = <<"add", d>>
          PROVE  i = j
      <4>1. i # Len(cmds) + 1 /\ j # Len(cmds) + 1  BY <3>2, <3>3, <3>4
      <4>2. i \in 1..Len(cmds) /\ j \in 1..Len(cmds)  BY <3>2, <4>1
      <4>3. QED  BY <1>1, <3>2, <3>4, <4>2 DEF QueuedOnce
    <3>5. QED  BY <3>2, <3>3, <3>4
  <2>3. QED  BY <2>1, <2>2 DEF Shutdown
<1>4. CallTypes' /\ OwedWhileOpen' /\ TaskTypes' /\ StreamTypes' /\ WatchdogCounts' /\ GroupsExact'
  BY <1>1, <1>2, <1>3
  DEF CallTypes, OwedWhileOpen, TaskTypes, StreamTypes, WatchdogCounts, GroupsExact, Registered, strm
<1>5. QueuedOnce'  BY <1>1, <1>2, <1>3 DEF QueuedOnce
<1>6. Handshake'
  <2>1. \A d \in Conns : (Adding(d)' <=> Adding(d)) /\ (Registered(d)' <=> Registered(d))
    BY <1>2, <1>3 DEF Adding, Registered
  <2>2. QED  BY <1>1, <1>2, <2>1 DEF Handshake, strm
<1>7. EndTold'  BY <1>1, <1>2 DEF EndTold, Told, HasLost, Registered, strm
<1>8. QED  BY <1>4, <1>5, <1>6, <1>7 DEF IoInv

-----------------------------------------------------------------------------
(* The socket task *)

\* A connection asked for is registered for an opener that waits, and ended for
\* one that is refused or gone.
LEMMA CommandAddInv ==
    ASSUME IoInv, NEW c \in Conns, CommandAdd(c)
    PROVE  IoInv'
<1>1. /\ CallTypes /\ TaskTypes /\ StreamTypes /\ WatchdogCounts /\ GroupsExact
      /\ OwedWhileOpen /\ QueuedOnce /\ Handshake /\ EndTold
  BY DEF IoInv
<1>2. /\ cmds # <<>> /\ Head(cmds) = <<"add", c>> /\ cmds' = Tail(cmds)
      /\ UNCHANGED <<call, owed, owner, mgr, recvErrs, late, behind, ev, heard, ordered>>
  BY DEF CommandAdd
<1>3. /\ cmds' \in Seq(Commands) /\ Len(cmds') = Len(cmds) - 1 /\ Len(cmds) \in Nat \ {0}
      /\ \A i \in 1..Len(cmds') : cmds'[i] = cmds[i + 1] /\ i + 1 \in 1..Len(cmds)
      /\ cmds[1] = <<"add", c>>
      /\ \A y : In(y, cmds') => In(y, cmds)
      /\ \A y : In(y, cmds) => In(y, cmds') \/ y = <<"add", c>>
  <2>1. cmds \in Seq(Commands) /\ cmds # <<>> /\ Head(cmds) = <<"add", c>> /\ cmds' = Tail(cmds)
    BY <1>1, <1>2 DEF TaskTypes
  <2>2. /\ Tail(cmds) \in Seq(Commands) /\ Len(Tail(cmds)) = Len(cmds) - 1 /\ Len(cmds) \in Nat \ {0}
        /\ \A i \in 1..Len(Tail(cmds)) : Tail(cmds)[i] = cmds[i + 1] /\ i + 1 \in 1..Len(cmds)
        /\ cmds[1] = Head(cmds)
        /\ \A y : In(y, Tail(cmds)) => In(y, cmds)
        /\ \A y : In(y, cmds) => In(y, Tail(cmds)) \/ y = Head(cmds)
    BY <2>1, TailIn
  <2>3. QED  BY <2>1, <2>2
<1>4. Adding(c)  BY <1>3 DEF Adding, In
<1>5. /\ call[c] \in {"arming", "gone"} /\ ack[c] = "none" /\ ~Registered(c) /\ ~ended[c]
  BY <1>1, <1>4 DEF Handshake
<1>6. \A d \in Conns : Adding(d)' <=> Adding(d) /\ d # c
  <2>1. ~In(<<"add", c>>, cmds')
    <3>1. SUFFICES ASSUME NEW i \in 1..Len(cmds'), cmds'[i] = <<"add", c>> PROVE FALSE  BY DEF In
    <3>2. cmds[i + 1] = <<"add", c>> /\ i + 1 \in 1..Len(cmds) /\ 1 \in 1..Len(cmds)
      BY <1>3, <3>1
    <3>3. i + 1 = 1  BY <1>1, <1>3, <3>2 DEF QueuedOnce
    <3>4. QED  BY <3>3
  <2>2. \A d \in Conns : d # c => <<"add", d>> # <<"add", c>>  OBVIOUS
  <2>3. QED  BY <1>3, <2>1, <2>2 DEF Adding
<1>7. QueuedOnce'
  <2>1. ASSUME NEW d \in Conns, NEW i \in 1..Len(cmds'), NEW j \in 1..Len(cmds'),
               cmds'[i] = <<"add", d>>, cmds'[j] = <<"add", d>>
        PROVE  i = j
    <3>0. /\ i + 1 \in 1..Len(cmds) /\ j + 1 \in 1..Len(cmds)
          /\ cmds[i + 1] = <<"add", d>> /\ cmds[j + 1] = <<"add", d>>
      BY <1>3, <2>1
    <3>1. i + 1 = j + 1  BY <1>1, <2>1, <3>0 DEF QueuedOnce
    <3>2. QED  BY <3>1
  <2>2. \A d \in Conns : In(<<"remove", d>>, cmds') => call'[d] = "closed"
    BY <1>1, <1>2, <1>3 DEF QueuedOnce
  <2>3. QED  BY <2>1, <2>2 DEF QueuedOnce
<1>8. CASE /\ ack' = [ack EXCEPT ![c] = "err"] /\ ended' = [ended EXCEPT ![c] = TRUE]
           /\ UNCHANGED <<reg, groups>>
  <2>1. \A d \in Conns : /\ ack'[d] = IF d = c THEN "err" ELSE ack[d]
                         /\ ended'[d] = IF d = c THEN TRUE ELSE ended[d]
                         /\ Registered(d)' <=> Registered(d)
    BY <1>1, <1>8 DEF CallTypes, StreamTypes, Registered
  <2>2. CallTypes' /\ OwedWhileOpen'  BY <1>1, <1>2, <1>8 DEF CallTypes, OwedWhileOpen
  <2>3. TaskTypes' /\ WatchdogCounts' /\ GroupsExact' /\ StreamTypes'
    BY <1>1, <1>2, <1>3, <1>8 DEF TaskTypes, StreamTypes, WatchdogCounts, GroupsExact, Registered
  <2>4. Handshake'  BY <1>1, <1>2, <1>5, <1>6, <2>1 DEF Handshake
  <2>5. EndTold'  BY <1>1, <1>2, <2>1 DEF EndTold, Told
  <2>6. QED  BY <1>7, <2>2, <2>3, <2>4, <2>5 DEF IoInv
<1>9. CASE /\ call[c] = "arming" /\ reg' = [reg EXCEPT ![c] = NewConn]
           /\ groups' = IF Type[c] = "multicast" THEN groups \cup {c} ELSE groups
           /\ ack' = [ack EXCEPT ![c] = "ok"] /\ UNCHANGED ended
  <2>1. NewConn \in ConnState /\ NewConn # NoConn
    <3>1. Multiplier \in Int /\ O2TApi \in Int  BY IoAssumption
    <3>2. NewConn \in ConnState  BY <3>1 DEF NewConn, ConnState
    <3>3. QED  BY <3>2, IoAssumption DEF ConnState
  <2>2. \A d \in Conns : /\ ack'[d] = IF d = c THEN "ok" ELSE ack[d]
                         /\ reg'[d] = IF d = c THEN NewConn ELSE reg[d]
                         /\ Registered(d)' <=> Registered(d) \/ d = c
    BY <1>1, <1>9, <2>1 DEF CallTypes, TaskTypes, Registered
  <2>3. CallTypes' /\ OwedWhileOpen'  BY <1>1, <1>2, <1>9 DEF CallTypes, OwedWhileOpen
  <2>4. TaskTypes' /\ StreamTypes'
    BY <1>1, <1>2, <1>3, <1>9, <2>1 DEF TaskTypes, StreamTypes
  <2>5. WatchdogCounts'
    <3>1. NewConn.wd = Multiplier /\ NewConn.up = FALSE  BY DEF NewConn
    <3>2. late \in Nat /\ Multiplier \in Nat \ {0}  BY <1>1, IoAssumption DEF TaskTypes
    <3>3. QED  BY <1>1, <1>2, <2>2, <3>1, <3>2 DEF WatchdogCounts
  <2>6. GroupsExact'
    <3>1. \A d : d \in groups' <=> d \in groups \/ (d = c /\ Type[c] = "multicast")  BY <1>9
    <3>2. QED  BY <1>1, <2>2, <3>1 DEF GroupsExact
  <2>7. Handshake'  BY <1>1, <1>2, <1>5, <1>6, <1>9, <2>2 DEF Handshake
  <2>8. EndTold'  BY <1>1, <1>2, <1>5, <1>9, <2>2 DEF EndTold, Told
  <2>9. QED  BY <1>7, <2>3, <2>4, <2>5, <2>6, <2>7, <2>8 DEF IoInv
<1>10. CASE /\ call[c] = "gone" /\ ended' = [ended EXCEPT ![c] = TRUE]
            /\ UNCHANGED <<ack, reg, groups>>
  <2>1. \A d \in Conns : /\ ended'[d] = IF d = c THEN TRUE ELSE ended[d]
                         /\ Registered(d)' <=> Registered(d)
    BY <1>1, <1>10 DEF StreamTypes, Registered
  <2>2. CallTypes' /\ OwedWhileOpen'  BY <1>1, <1>2, <1>10 DEF CallTypes, OwedWhileOpen
  <2>3. TaskTypes' /\ WatchdogCounts' /\ GroupsExact' /\ StreamTypes'
    BY <1>1, <1>2, <1>3, <1>10 DEF TaskTypes, StreamTypes, WatchdogCounts, GroupsExact, Registered
  <2>4. Handshake'  BY <1>1, <1>2, <1>5, <1>6, <1>10, <2>1 DEF Handshake
  <2>5. EndTold'  BY <1>1, <1>2, <1>10, <2>1 DEF EndTold, Told
  <2>6. QED  BY <1>7, <2>2, <2>3, <2>4, <2>5 DEF IoInv
<1>11. QED  BY <1>8, <1>9, <1>10 DEF CommandAdd

\* What leaves the registry: the connections D, of which L are told why.  Nothing
\* that a waiting or an open connection relies on is lost, provided that whoever
\* leaves is told, was told, or ends by the owner's order.
LEMMA DropInv ==
    ASSUME IoInv, NEW D \in SUBSET Conns, NEW L \in SUBSET Conns,
           NEW r \in [Conns -> ConnState \cup {NoConn}], NEW e \in [Conns -> Events],
           Drop(D, L, r, e),
           \A c \in Conns : r[c] = NoConn <=> reg[c] = NoConn,
           late' \in Nat, late' <= MaxLate, recvErrs' \in Nat, cmds' \in Seq(Commands),
           UNCHANGED <<call, owed, heard>>, ordered' \in BOOLEAN, ordered => ordered',
           ack' \in [Conns -> {"none", "ok", "err", "dropped"}],
           \A c \in Conns : ack'[c] = ack[c] \/ (ack'[c] = "dropped" /\ Adding(c)),
           QueuedOnce', \A c \in Conns : Adding(c)' => Adding(c) /\ c \notin D /\ ack'[c] = ack[c],
           \A c \in Conns : Adding(c) /\ ~Adding(c)' => ack'[c] = "dropped",
           \A c \in L : IsLost(e[c]),
           \A c \in D : call[c] \in {"arming", "open"} /\ ack[c] = "ok" => ordered' \/ c \in L,
           \A c \in Conns : call[c] \in {"idle", "asking", "sending"} => c \notin D,
           \A c \in Conns \ D : r[c] # NoConn =>
               /\ r[c].wd + late' >= 1
               /\ r[c].up => behind[c] + r[c].wd <= Reorder + Multiplier
    PROVE  IoInv'
<1>1. /\ CallTypes /\ TaskTypes /\ StreamTypes /\ WatchdogCounts /\ GroupsExact
      /\ OwedWhileOpen /\ QueuedOnce /\ Handshake /\ EndTold
  BY DEF IoInv
<1>2. \A c \in Conns : /\ reg'[c] = IF c \in D THEN NoConn ELSE r[c]
                       /\ behind'[c] = IF c \in D THEN 0 ELSE behind[c]
                       /\ ended'[c] <=> ended[c] \/ c \in D
                       /\ ev'[c] = IF c \in L THEN Send(c, ev[c], e[c]) ELSE ev[c]
                       /\ Registered(c)' <=> Registered(c) /\ c \notin D
  BY DEF Drop, Registered
<1>3. ASSUME NEW c \in Conns
      PROVE  /\ Send(c, ev[c], e[c]) \in Seq(Events)
             /\ HasLost(ev[c]) => HasLost(Send(c, ev[c], e[c]))
             /\ ~RxGone(c) /\ IsLost(e[c]) => HasLost(Send(c, ev[c], e[c]))
  <2>1. ev[c] \in Seq(Events) /\ e[c] \in Events  BY <1>1 DEF StreamTypes
  <2>2. /\ push_latest_wins(ev[c], e[c]) \in Seq(Events)
        /\ HasLost(ev[c]) \/ IsLost(e[c]) => HasLost(push_latest_wins(ev[c], e[c]))
    BY <2>1, PushKeepsLost
  <2>3. QED  BY <2>1, <2>2 DEF Send
<1>4. CallTypes' /\ OwedWhileOpen'  BY <1>1 DEF CallTypes, OwedWhileOpen
<1>5. TaskTypes'
  <2>1. reg' = [c \in Conns |-> IF c \in D THEN NoConn ELSE r[c]]
        /\ behind' = [c \in Conns |-> IF c \in D THEN 0 ELSE behind[c]]
    BY DEF Drop
  <2>2. reg' \in [Conns -> ConnState \cup {NoConn}]  BY <2>1
  <2>3. behind' \in [Conns -> Nat]  BY <1>1, <2>1 DEF TaskTypes
  <2>4. QED  BY <2>2, <2>3 DEF TaskTypes
<1>6. StreamTypes'
  <2>1. /\ ended' = [c \in Conns |-> ended[c] \/ c \in D]
        /\ ev' = [c \in Conns |-> IF c \in L THEN Send(c, ev[c], e[c]) ELSE ev[c]]
    BY DEF Drop
  <2>2. ended' \in [Conns -> BOOLEAN]  BY <1>1, <2>1 DEF StreamTypes
  <2>3. ev' \in [Conns -> Seq(Events)]  BY <1>1, <1>3, <2>1 DEF StreamTypes
  <2>4. QED  BY <1>1, <2>2, <2>3 DEF StreamTypes
<1>7. WatchdogCounts'
  BY <1>2 DEF WatchdogCounts, Registered
<1>8. GroupsExact'
  <2>1. \A c : c \in groups' <=> c \in groups /\ c \notin D  BY DEF Drop
  <2>2. QED  BY <1>1, <1>2, <2>1 DEF GroupsExact
<1>9. Handshake'
  BY <1>1, <1>2 DEF Handshake
<1>10. EndTold'
  <2>1. SUFFICES ASSUME NEW c \in Conns, call[c] \in {"arming", "open"}, ack'[c] = "ok"
                 PROVE  (ended'[c] <=> ~Registered(c)') /\ Told(c)'
    BY DEF EndTold
  <2>2. ack[c] = "ok" /\ ~RxGone(c)  BY <2>1 DEF RxGone
  <2>3. (ended[c] <=> ~Registered(c)) /\ Told(c)  BY <1>1, <2>1, <2>2 DEF EndTold
  <2>4. HasLost(ev[c]) => HasLost(ev'[c])  BY <1>2, <1>3
  <2>5. c \in L => HasLost(ev'[c])  BY <1>2, <1>3, <2>2
  <2>6. Told(c)'
    <3>1. SUFFICES ASSUME ended'[c], ~ordered' PROVE heard[c] \/ HasLost(ev'[c])
      BY DEF Told
    <3>2. CASE c \in D  BY <2>1, <2>2, <2>5, <3>1, <3>2
    <3>3. CASE c \notin D
      <4>1. ended[c] /\ ~ordered  BY <1>2, <3>1, <3>3
      <4>2. QED  BY <2>3, <2>4, <4>1 DEF Told
    <3>4. QED  BY <3>2, <3>3
  <2>7. QED  BY <1>2, <2>3, <2>6
<1>11. QED  BY <1>4, <1>5, <1>6, <1>7, <1>8, <1>9, <1>10 DEF IoInv

\* A Remove ends a connection whose owner closed it.
LEMMA CommandRemoveInv ==
    ASSUME IoInv, NEW c \in Conns, CommandRemove(c)
    PROVE  IoInv'
<1>1. /\ CallTypes /\ TaskTypes /\ StreamTypes /\ WatchdogCounts /\ QueuedOnce /\ Handshake
  BY DEF IoInv
<1>2. /\ cmds # <<>> /\ Head(cmds) = <<"remove", c>> /\ cmds' = Tail(cmds)
      /\ Drop({c}, {}, reg, ev) /\ UNCHANGED <<calls, mgr, recvErrs, late, heard, ordered>>
  BY DEF CommandRemove
<1>3. /\ cmds' \in Seq(Commands) /\ Len(cmds') = Len(cmds) - 1 /\ Len(cmds) \in Nat \ {0}
      /\ \A i \in 1..Len(cmds') : cmds'[i] = cmds[i + 1] /\ i + 1 \in 1..Len(cmds)
      /\ cmds[1] = <<"remove", c>>
      /\ \A y : In(y, cmds') => In(y, cmds)
      /\ \A y : In(y, cmds) => In(y, cmds') \/ y = <<"remove", c>>
  <2>1. cmds \in Seq(Commands) /\ cmds # <<>> /\ Head(cmds) = <<"remove", c>> /\ cmds' = Tail(cmds)
    BY <1>1, <1>2 DEF TaskTypes
  <2>2. /\ Tail(cmds) \in Seq(Commands) /\ Len(Tail(cmds)) = Len(cmds) - 1 /\ Len(cmds) \in Nat \ {0}
        /\ \A i \in 1..Len(Tail(cmds)) : Tail(cmds)[i] = cmds[i + 1] /\ i + 1 \in 1..Len(cmds)
        /\ cmds[1] = Head(cmds)
        /\ \A y : In(y, Tail(cmds)) => In(y, cmds)
        /\ \A y : In(y, cmds) => In(y, Tail(cmds)) \/ y = Head(cmds)
    BY <2>1, TailIn
  <2>3. QED  BY <2>1, <2>2
<1>4. call[c] = "closed"
  <2>1. In(<<"remove", c>>, cmds)  BY <1>3 DEF In
  <2>2. QED  BY <1>1, <2>1 DEF QueuedOnce
<1>5. ~Adding(c)  BY <1>1, <1>4 DEF Handshake
<1>6. \A d \in Conns : Adding(d)' <=> Adding(d)
  <2>1. \A d \in Conns : <<"add", d>> # <<"remove", c>>  OBVIOUS
  <2>2. QED  BY <1>3, <2>1 DEF Adding
<1>7. QueuedOnce'
  <2>1. ASSUME NEW d \in Conns, NEW i \in 1..Len(cmds'), NEW j \in 1..Len(cmds'),
               cmds'[i] = <<"add", d>>, cmds'[j] = <<"add", d>>
        PROVE  i = j
    <3>0. /\ i + 1 \in 1..Len(cmds) /\ j + 1 \in 1..Len(cmds)
          /\ cmds[i + 1] = <<"add", d>> /\ cmds[j + 1] = <<"add", d>>
      BY <1>3, <2>1
    <3>1. i + 1 = j + 1  BY <1>1, <2>1, <3>0 DEF QueuedOnce
    <3>2. QED  BY <3>1
  <2>2. \A d \in Conns : In(<<"remove", d>>, cmds') => call'[d] = "closed"
    BY <1>1, <1>2, <1>3 DEF QueuedOnce, calls
  <2>3. QED  BY <2>1, <2>2 DEF QueuedOnce
<1> DEFINE e == [d \in Conns |-> "io"]
<1>8. Drop({c}, {}, reg, e)  BY <1>2 DEF Drop
<1>9. /\ e \in [Conns -> Events] /\ {c} \in SUBSET Conns /\ {} \in SUBSET Conns
      /\ reg \in [Conns -> ConnState \cup {NoConn}]
  BY <1>1 DEF Events, TaskTypes
<1> HIDE DEF e
<1>10. UNCHANGED <<call, owed, heard, ack, late, recvErrs, ordered>>  BY <1>2 DEF calls
<1>11. /\ late' \in Nat /\ late' <= MaxLate /\ recvErrs' \in Nat /\ ordered' \in BOOLEAN
       /\ ack' \in [Conns -> {"none", "ok", "err", "dropped"}]
  BY <1>1, <1>10 DEF CallTypes, TaskTypes, StreamTypes
<1>12. \A d \in Conns \ {c} : reg[d] # NoConn =>
          /\ reg[d].wd + late' >= 1
          /\ reg[d].up => behind[d] + reg[d].wd <= Reorder + Multiplier
  BY <1>1, <1>10 DEF WatchdogCounts, Registered
<1> DEFINE D == {c}
           L == {}
<1>13. /\ D \in SUBSET Conns /\ L \in SUBSET Conns /\ Drop(D, L, reg, e)
       /\ \A d \in L : IsLost(e[d])
       /\ \A d \in D : call[d] \in {"arming", "open"} /\ ack[d] = "ok" => ordered' \/ d \in L
       /\ \A d \in Conns : call[d] \in {"idle", "asking", "sending"} => d \notin D
  BY <1>4, <1>8
<1>14. /\ \A d \in Conns : Adding(d)' => Adding(d) /\ d \notin D /\ ack'[d] = ack[d]
       /\ \A d \in Conns : Adding(d) /\ ~Adding(d)' => ack'[d] = "dropped"
  BY <1>5, <1>6, <1>10
<1>15. \A d \in Conns \ D : reg[d] # NoConn =>
          /\ reg[d].wd + late' >= 1
          /\ reg[d].up => behind[d] + reg[d].wd <= Reorder + Multiplier
  BY <1>12
<1> HIDE DEF D, L
<1>16. (ordered => ordered') /\ \A d \in Conns : ack'[d] = ack[d]  BY <1>10
<1>17. QED
  BY <1>3, <1>7, <1>9, <1>10, <1>11, <1>13, <1>14, <1>15, <1>16, DropInv

\* Shutdown: every connection ends by the owner's order.
LEMMA CommandsEndInv ==
    ASSUME IoInv, CommandsEnd
    PROVE  IoInv'
<1>1. /\ CallTypes /\ TaskTypes /\ StreamTypes /\ OwedWhileOpen /\ Handshake
  BY DEF IoInv
<1>2. /\ cmds' = <<>> /\ reg' = [c \in Conns |-> NoConn] /\ groups' = {}
      /\ ack' = [c \in Conns |-> IF <<"add", c>> \in ToSet(cmds) THEN "dropped" ELSE ack[c]]
      /\ behind' = [c \in Conns |-> 0] /\ ordered' = TRUE
      /\ ended' = [c \in Conns |-> ended[c] \/ Registered(c) \/ <<"add", c>> \in ToSet(cmds)]
      /\ UNCHANGED <<call, owed, owner, recvErrs, late, ev, heard>>
  BY DEF CommandsEnd, Exit
<1>3. cmds' \in Seq(Commands) /\ Len(cmds') = 0  BY <1>2, EmptySeq
<1>4. \A c \in Conns : <<"add", c>> \in ToSet(cmds) <=> Adding(c)
  <2>1. DOMAIN cmds = 1..Len(cmds)  BY <1>1, LenProperties DEF TaskTypes
  <2>2. QED  BY <2>1 DEF ToSet, Adding, In
<1>5. \A c \in Conns : /\ ack'[c] = IF Adding(c) THEN "dropped" ELSE ack[c]
                       /\ ended'[c] <=> ended[c] \/ Registered(c) \/ Adding(c)
                       /\ ~Registered(c)' /\ ~Adding(c)'
  <2>1. \A c \in Conns : ack'[c] = IF Adding(c) THEN "dropped" ELSE ack[c]  BY <1>2, <1>4
  <2>2. \A c \in Conns : ended'[c] <=> ended[c] \/ Registered(c) \/ Adding(c)  BY <1>2, <1>4
  <2>3. \A c \in Conns : ~Registered(c)'  BY <1>2 DEF Registered
  <2>4. \A c \in Conns : ~Adding(c)'  BY <1>3 DEF Adding, In
  <2>5. QED  BY <2>1, <2>2, <2>3, <2>4
<1>6. CallTypes' /\ OwedWhileOpen'  BY <1>1, <1>2 DEF CallTypes, OwedWhileOpen
<1>7. TaskTypes' /\ StreamTypes'
  <2>1. reg' \in [Conns -> ConnState \cup {NoConn}] /\ behind' \in [Conns -> Nat]  BY <1>2
  <2>2. ended' \in [Conns -> BOOLEAN]  BY <1>1, <1>2 DEF StreamTypes
  <2>3. QED  BY <1>1, <1>2, <1>3, <2>1, <2>2 DEF TaskTypes, StreamTypes
<1>8. WatchdogCounts' /\ GroupsExact'  BY <1>2, <1>5 DEF WatchdogCounts, GroupsExact
<1>9. QueuedOnce'  BY <1>3 DEF QueuedOnce, In
<1>10. Handshake'  BY <1>1, <1>2, <1>5 DEF Handshake
<1>11. EndTold'
  <2>1. EndTold  BY DEF IoInv
  <2>2. QED  BY <1>1, <1>2, <1>5, <2>1 DEF EndTold, Told
<1>12. QED  BY <1>6, <1>7, <1>8, <1>9, <1>10, <1>11 DEF IoInv

\* The socket fails for good: every connection is told, every Add unanswered.
LEMMA RecvErrorInv ==
    ASSUME IoInv, NEW k \in BOOLEAN, RecvError(k)
    PROVE  IoInv'
<1>1. /\ CallTypes /\ TaskTypes /\ StreamTypes /\ WatchdogCounts /\ GroupsExact
      /\ OwedWhileOpen /\ QueuedOnce /\ Handshake /\ EndTold
  BY DEF IoInv
<1>2. recvErrs' \in Nat /\ UNCHANGED <<late, heard, ordered>>
  BY <1>1 DEF RecvError, on_recv_error, TaskTypes
<1>3. CASE UNCHANGED <<calls, mgr, cmds, reg, groups, behind, ev, ended>>
  <2>1. CallTypes' /\ OwedWhileOpen' /\ TaskTypes' /\ StreamTypes' /\ WatchdogCounts' /\ GroupsExact'
    BY <1>1, <1>2, <1>3 DEF CallTypes, OwedWhileOpen, TaskTypes, StreamTypes, WatchdogCounts,
                            GroupsExact, Registered, calls
  <2>2. QueuedOnce' /\ Handshake'
    <3>1. UNCHANGED <<call, ack, cmds, reg, ended>>  BY <1>3 DEF calls
    <3>2. QED  BY <1>1, <3>1, HandshakeKept
  <2>3. EndTold'  BY <1>1, <1>2, <1>3 DEF EndTold, Told, HasLost, Registered, calls
  <2>4. QED  BY <2>1, <2>2, <2>3 DEF IoInv
<1> DEFINE D == {c \in Conns : Registered(c)}
           A == {c \in Conns : <<"add", c>> \in ToSet(cmds)}
           e == [c \in Conns |-> "io"]
<1>4. CASE Exit /\ Drop(D \cup A, D, reg, e) /\ UNCHANGED <<call, owed, owner>>
  <2>1. cmds' \in Seq(Commands) /\ Len(cmds') = 0  BY <1>4, EmptySeq DEF Exit
  <2>2. \A c \in Conns : <<"add", c>> \in ToSet(cmds) <=> Adding(c)
    <3>1. DOMAIN cmds = 1..Len(cmds)  BY <1>1, LenProperties DEF TaskTypes
    <3>2. QED  BY <3>1 DEF ToSet, Adding, In
  <2>3. /\ \A c \in Conns : ack'[c] = IF Adding(c) THEN "dropped" ELSE ack[c]
        /\ ack' \in [Conns -> {"none", "ok", "err", "dropped"}]
    BY <1>1, <1>4, <2>2 DEF Exit, CallTypes
  <2>4. QueuedOnce' /\ \A c \in Conns : ~Adding(c)'  BY <2>1 DEF QueuedOnce, Adding, In
  <2>5. \A c \in Conns : (c \in D <=> Registered(c)) /\ (c \in A <=> Adding(c))  BY <2>2
  <2>6. /\ e \in [Conns -> Events] /\ D \cup A \in SUBSET Conns /\ D \in SUBSET Conns
        /\ reg \in [Conns -> ConnState \cup {NoConn}] /\ \A c \in Conns : IsLost(e[c])
    BY <1>1 DEF Events, TaskTypes, IsLost
  <2> HIDE DEF D, A, e
  <2>7. \A c \in D \cup A : call[c] \in {"arming", "open"} /\ ack[c] = "ok" => c \in D
    BY <1>1, <2>5, <2>6 DEF Handshake
  <2>8. \A c \in Conns : call[c] \in {"idle", "asking", "sending"} => c \notin D \cup A
    BY <1>1, <2>5 DEF Handshake
  <2>9. \A c \in Conns \ (D \cup A) : reg[c] # NoConn =>
           /\ reg[c].wd + late' >= 1
           /\ reg[c].up => behind[c] + reg[c].wd <= Reorder + Multiplier
    BY <2>5 DEF Registered
  <2>10. late' \in Nat /\ late' <= MaxLate /\ ordered' \in BOOLEAN /\ (ordered => ordered')
    BY <1>1, <1>2 DEF TaskTypes, StreamTypes
  <2>11. Drop(D \cup A, D, reg, e) /\ UNCHANGED <<call, owed, heard>>  BY <1>2, <1>4
  <2>12. QED
    BY <1>2, <2>1, <2>3, <2>4, <2>6, <2>7, <2>8, <2>9, <2>10, <2>11, DropInv
<1>5. QED  BY <1>3, <1>4 DEF RecvError

\* The scheduler tick: who misses a send or the watchdog leaves and is told; the
\* watchdog of everyone else has not lapsed.
LEMMA TickInv ==
    ASSUME IoInv, NEW res \in [Conns -> {"ok", "datagram", "socket"}], Tick(res)
    PROVE  IoInv'
<1>1. /\ CallTypes /\ TaskTypes /\ StreamTypes /\ WatchdogCounts /\ QueuedOnce /\ Handshake
  BY DEF IoInv
<1> DEFINE R == {c \in Conns : Registered(c)}
           Io == {c \in R : Dead(reg[c], res[c])}
           D == Io \cup {c \in R : poll_watchdog(reg[c])}
           r == [c \in Conns |-> IF c \in R THEN AfterTick(reg[c], res[c]) ELSE NoConn]
           e == [c \in Conns |-> IF c \in Io THEN "io" ELSE "timeout"]
<1>2. /\ late' = 0 /\ Drop(D, D, r, e) /\ UNCHANGED <<calls, mgr, cmds, recvErrs, heard, ordered>>
  BY DEF Tick
<1>3. ASSUME NEW c \in Conns, Registered(c)
      PROVE  /\ AfterTick(reg[c], res[c]) \in ConnState
             /\ AfterTick(reg[c], res[c]).wd = reg[c].wd
             /\ AfterTick(reg[c], res[c]).up = reg[c].up
  <2>1. reg[c] \in ConnState  BY <1>1, <1>3 DEF TaskTypes, Registered
  <2>2. record_send(reg[c], res[c]) \in Nat  BY <2>1 DEF record_send, ConnState
  <2>3. poll_produce(reg[c].due) \in Int  BY <2>1, ProduceType DEF ConnState
  <2>4. QED  BY <2>1, <2>2, <2>3 DEF AfterTick, ConnState
<1>4. \A x \in ConnState : x # NoConn  BY IoAssumption DEF ConnState
<1>5. /\ r \in [Conns -> ConnState \cup {NoConn}]
      /\ \A c \in Conns : r[c] = NoConn <=> reg[c] = NoConn
  BY <1>3, <1>4 DEF Registered
<1>6. \A c \in Conns \ D : r[c] # NoConn =>
         /\ r[c].wd + late' >= 1
         /\ r[c].up => behind[c] + r[c].wd <= Reorder + Multiplier
  <2>1. SUFFICES ASSUME NEW c \in Conns, c \notin D, Registered(c)
                 PROVE  /\ AfterTick(reg[c], res[c]).wd + late' >= 1
                        /\ AfterTick(reg[c], res[c]).up =>
                               behind[c] + AfterTick(reg[c], res[c]).wd <= Reorder + Multiplier
    OBVIOUS
  <2>2. reg[c] \in ConnState /\ ~(reg[c].wd <= 0)
    BY <1>1, <2>1 DEF TaskTypes, Registered, poll_watchdog
  <2>3. reg[c].up => behind[c] + reg[c].wd <= Reorder + Multiplier
    BY <1>1, <2>1 DEF WatchdogCounts
  <2>4. QED  BY <1>2, <1>3, <2>1, <2>2, <2>3 DEF ConnState
<1>7. e \in [Conns -> Events] /\ \A c \in Conns : IsLost(e[c])  BY DEF Events, IsLost
<1>8. D \in SUBSET Conns /\ \A c \in D : Registered(c)  OBVIOUS
<1> HIDE DEF D, r, e
<1>9. \A c \in Conns : call[c] \in {"idle", "asking", "sending"} => c \notin D
  BY <1>1, <1>8 DEF Handshake
<1>10. /\ QueuedOnce' /\ \A c \in Conns : Adding(c)' <=> Adding(c)
       /\ UNCHANGED <<call, owed, heard, ack, ordered, cmds>>
  BY <1>1, <1>2 DEF QueuedOnce, Adding, In, calls
<1>11. \A c \in Conns : Adding(c) => c \notin D  BY <1>1, <1>8 DEF Handshake
<1>12. /\ late' \in Nat /\ late' <= MaxLate /\ recvErrs' \in Nat /\ cmds' \in Seq(Commands)
       /\ ordered' \in BOOLEAN /\ ack' \in [Conns -> {"none", "ok", "err", "dropped"}]
  BY <1>1, <1>2, <1>10, IoAssumption DEF TaskTypes, StreamTypes, CallTypes
<1>13. QED
  BY <1>2, <1>5, <1>6, <1>7, <1>8, <1>9, <1>10, <1>11, <1>12, DropInv

\* An interval passes: the watchdog counts what the connection falls behind.
LEMMA TimeInv ==
    ASSUME IoInv, NEW F \in SUBSET Conns, Time(F)
    PROVE  IoInv'
<1>1. /\ CallTypes /\ TaskTypes /\ StreamTypes /\ WatchdogCounts /\ GroupsExact
      /\ OwedWhileOpen /\ QueuedOnce /\ Handshake /\ EndTold
  BY DEF IoInv
<1>2. /\ late' = late + 1 /\ late < MaxLate
      /\ behind' = [c \in Conns |-> IF c \in F THEN behind[c] + 1 ELSE behind[c]]
      /\ UNCHANGED <<calls, mgr, cmds, groups, recvErrs, strm>>
  BY DEF Time
<1> DEFINE older(c) == [reg[c] EXCEPT !.wd = @ - 1, !.due = @ - 1]
<1>r. reg' = [c \in Conns |-> IF Registered(c) THEN older(c) ELSE NoConn]
  BY DEF Time
<1> HIDE DEF older
<1>3. ASSUME NEW c \in Conns, Registered(c)
      PROVE  /\ reg[c] \in ConnState /\ reg'[c] \in ConnState /\ Registered(c)'
             /\ reg'[c].wd = reg[c].wd - 1 /\ reg'[c].up = reg[c].up
  <2>1. reg[c] \in ConnState  BY <1>1, <1>3 DEF TaskTypes, Registered
  <2>2. reg'[c] = older(c)  BY <1>r, <1>3
  <2>3. reg[c].wd - 1 \in Int /\ reg[c].due - 1 \in Int  BY <2>1 DEF ConnState
  <2>4. /\ older(c) \in ConnState /\ older(c).wd = reg[c].wd - 1 /\ older(c).up = reg[c].up
    BY <2>1, <2>3 DEF older, ConnState
  <2>5. /\ reg'[c] \in ConnState /\ reg'[c].wd = reg[c].wd - 1 /\ reg'[c].up = reg[c].up
    BY <2>2, <2>4
  <2>6. QED  BY <2>1, <2>5, IoAssumption DEF ConnState, Registered
<1>4. \A c \in Conns : Registered(c)' <=> Registered(c)  BY <1>r, <1>3 DEF Registered
<1>5. TaskTypes'
  <2>1. reg' \in [Conns -> ConnState \cup {NoConn}]
    <3>1. \A c \in Conns : reg'[c] \in ConnState \cup {NoConn}  BY <1>r, <1>3
    <3>2. QED  BY <1>r, <3>1
  <2>2. behind' \in [Conns -> Nat]
    <3>1. behind \in [Conns -> Nat]  BY <1>1 DEF TaskTypes
    <3>2. \A c \in Conns : behind'[c] \in Nat  BY <1>2, <3>1
    <3>3. QED  BY <1>2, <3>2
  <2>3. late' \in Nat /\ late' <= MaxLate
    <3>1. late \in Nat /\ MaxLate \in Nat  BY <1>1, IoAssumption DEF TaskTypes
    <3>2. QED  BY <1>2, <3>1
  <2>4. QED  BY <1>1, <1>2, <2>1, <2>2, <2>3 DEF TaskTypes
<1>6. CallTypes' /\ StreamTypes' /\ OwedWhileOpen'
  BY <1>1, <1>2 DEF CallTypes, StreamTypes, OwedWhileOpen, calls, strm
<1>7. WatchdogCounts'
  <2>1. SUFFICES ASSUME NEW c \in Conns, Registered(c)
                 PROVE  /\ reg'[c].wd + late' >= 1
                        /\ reg'[c].up => behind'[c] + reg'[c].wd <= Reorder + Multiplier
    BY <1>4 DEF WatchdogCounts
  <2>2. /\ reg[c].wd + late >= 1
        /\ reg[c].up => behind[c] + reg[c].wd <= Reorder + Multiplier
    BY <1>1, <2>1 DEF WatchdogCounts
  <2>3. behind'[c] \in {behind[c], behind[c] + 1}  BY <1>2
  <2>4. reg[c].wd \in Int /\ behind[c] \in Nat /\ late \in Nat
    BY <1>1, <1>3, <2>1 DEF TaskTypes, ConnState
  <2>5. reg'[c].wd = reg[c].wd - 1 /\ reg'[c].up = reg[c].up  BY <1>3, <2>1
  <2>6. reg'[c].wd + late' >= 1  BY <1>2, <2>2, <2>4, <2>5
  <2>7. ASSUME reg[c].up PROVE behind'[c] + reg'[c].wd <= Reorder + Multiplier
    <3>1. Reorder \in Nat /\ Multiplier \in Nat  BY IoAssumption
    <3>2. QED  BY <2>2, <2>3, <2>4, <2>5, <2>7, <3>1
  <2>8. QED  BY <2>5, <2>6, <2>7
<1>8. GroupsExact'  BY <1>1, <1>2, <1>4 DEF GroupsExact
<1>9. QueuedOnce'  BY <1>1, <1>2 DEF QueuedOnce, In, calls
<1>10. Handshake'
  <2>1. \A d \in Conns : Adding(d)' <=> Adding(d)  BY <1>2 DEF Adding, In
  <2>2. QED  BY <1>1, <1>2, <1>4, <2>1 DEF Handshake, calls, strm
<1>11. EndTold'  BY <1>1, <1>2, <1>4 DEF EndTold, Told, HasLost, calls, strm
<1>12. QED  BY <1>5, <1>6, <1>7, <1>8, <1>9, <1>10, <1>11 DEF IoInv

\* A frame feeds the watchdog only when it is accepted.
LEMMA FrameInv ==
    ASSUME IoInv, NEW c \in Conns, NEW b \in 0..Reorder, Frame(c, b)
    PROVE  IoInv'
<1>1. /\ CallTypes /\ TaskTypes /\ StreamTypes /\ WatchdogCounts /\ GroupsExact
      /\ OwedWhileOpen /\ QueuedOnce /\ Handshake /\ EndTold
  BY DEF IoInv
<1>2. /\ Registered(c) /\ recvErrs' = 0
      /\ UNCHANGED <<calls, mgr, cmds, groups, late, ended, heard, ordered>>
  BY DEF Frame
<1>3. reg[c] \in ConnState  BY <1>1, <1>2 DEF TaskTypes, Registered
<1> DEFINE q == IF reg[c].up THEN ev[c] ELSE Send(c, ev[c], "up")
<1>4. /\ OnAccept(reg[c]) \in ConnState /\ OnAccept(reg[c]).wd = Multiplier
      /\ OnAccept(reg[c]) # NoConn
  <2>1. Multiplier \in Int  BY IoAssumption
  <2>2. OnAccept(reg[c]) \in ConnState /\ OnAccept(reg[c]).wd = Multiplier
    BY <1>3, <2>1 DEF OnAccept, ConnState
  <2>3. QED  BY <2>2, IoAssumption DEF ConnState
<1>5. /\ Send(c, q, "data") \in Seq(Events)
      /\ HasLost(ev[c]) => HasLost(Send(c, q, "data"))
  <2>1. ev[c] \in Seq(Events) /\ "up" \in Events /\ "data" \in Events
    BY <1>1 DEF StreamTypes, Events
  <2>2. /\ push_latest_wins(ev[c], "up") \in Seq(Events)
        /\ HasLost(ev[c]) => HasLost(push_latest_wins(ev[c], "up"))
    BY <2>1, PushKeepsLost
  <2>3. q \in Seq(Events) /\ (HasLost(ev[c]) => HasLost(q))  BY <2>1, <2>2 DEF Send
  <2> HIDE DEF q
  <2>4. /\ push_latest_wins(q, "data") \in Seq(Events)
        /\ HasLost(q) => HasLost(push_latest_wins(q, "data"))
    BY <2>1, <2>3, PushKeepsLost
  <2>5. QED  BY <2>3, <2>4 DEF Send
<1> HIDE DEF q
<1>6. PICK r \in {OnAccept(reg[c]), reg[c]} :
          /\ reg' = [reg EXCEPT ![c] = r]
          /\ r = OnAccept(reg[c]) => behind' = [behind EXCEPT ![c] = b] \/ (behind' = behind /\ r = reg[c])
          /\ r # OnAccept(reg[c]) => behind' = behind
          /\ ev' = [ev EXCEPT ![c] = Send(c, q, "data")] \/ ev' = ev
  <2>1. CASE Accepts(c, b)  BY <2>1 DEF Frame, q
  <2>2. CASE ~Accepts(c, b)  BY <2>2 DEF Frame, OnDrop
  <2>3. QED  BY <2>1, <2>2
<1>7. r \in ConnState /\ r # NoConn  BY <1>2, <1>3, <1>4, <1>6 DEF Registered
<1>8. \A d \in Conns : /\ reg'[d] = IF d = c THEN r ELSE reg[d]
                       /\ d # c => behind'[d] = behind[d] /\ ev'[d] = ev[d]
                       /\ Registered(d)' <=> Registered(d)
                       /\ HasLost(ev[d]) => HasLost(ev'[d])
  <2>1. \A d \in Conns : reg'[d] = IF d = c THEN r ELSE reg[d]  BY <1>1, <1>6 DEF TaskTypes
  <2>2. \A d \in Conns : d # c => behind'[d] = behind[d] /\ ev'[d] = ev[d]
    BY <1>1, <1>6 DEF TaskTypes, StreamTypes
  <2>3. ev'[c] \in {Send(c, q, "data"), ev[c]}  BY <1>1, <1>6 DEF StreamTypes
  <2>4. HasLost(ev[c]) => HasLost(ev'[c])  BY <1>5, <2>3
  <2>5. QED  BY <1>2, <1>7, <2>1, <2>2, <2>4 DEF Registered
<1>9. TaskTypes'
  <2>1. reg' \in [Conns -> ConnState \cup {NoConn}]  BY <1>1, <1>6, <1>7 DEF TaskTypes
  <2>2. behind' \in [Conns -> Nat]  BY <1>1, <1>6, IoAssumption DEF TaskTypes
  <2>3. QED  BY <1>1, <1>2, <2>1, <2>2 DEF TaskTypes
<1>10. StreamTypes'  BY <1>1, <1>2, <1>5, <1>6 DEF StreamTypes
<1>11. WatchdogCounts'
  <2>1. SUFFICES ASSUME NEW d \in Conns, Registered(d)
                 PROVE  /\ reg'[d].wd + late' >= 1
                        /\ reg'[d].up => behind'[d] + reg'[d].wd <= Reorder + Multiplier
    BY <1>8 DEF WatchdogCounts
  <2>2. /\ reg[d].wd + late >= 1
        /\ reg[d].up => behind[d] + reg[d].wd <= Reorder + Multiplier
    BY <1>1, <2>1 DEF WatchdogCounts
  <2>3. CASE d # c  BY <1>2, <1>8, <2>2, <2>3
  <2>4. CASE d = c /\ r = reg[c] /\ behind' = behind  BY <1>2, <1>8, <2>2, <2>4
  <2>5. CASE d = c /\ r = OnAccept(reg[c]) /\ behind' = [behind EXCEPT ![c] = b]
    <3>1. reg'[c] = r /\ behind'[c] = b  BY <1>1, <1>8, <2>5 DEF TaskTypes
    <3>2. late \in Nat /\ Multiplier \in Nat \ {0} /\ Reorder \in Nat
      BY <1>1, IoAssumption DEF TaskTypes
    <3>3. QED  BY <1>2, <1>4, <2>5, <3>1, <3>2
  <2>6. QED  BY <1>6, <2>3, <2>4, <2>5
<1>12. GroupsExact'  BY <1>1, <1>2, <1>8 DEF GroupsExact
<1>13. CallTypes' /\ OwedWhileOpen' /\ QueuedOnce'
  BY <1>1, <1>2 DEF CallTypes, OwedWhileOpen, QueuedOnce, In, calls
<1>14. Handshake'
  <2>1. \A d \in Conns : Adding(d)' <=> Adding(d)  BY <1>2 DEF Adding, In
  <2>2. QED  BY <1>1, <1>2, <1>8, <2>1 DEF Handshake, calls
<1>15. EndTold'  BY <1>1, <1>2, <1>8 DEF EndTold, Told, calls
<1>16. QED  BY <1>9, <1>10, <1>11, <1>12, <1>13, <1>14, <1>15 DEF IoInv

\* Nothing happens, or a stray datagram shows that the socket works.
LEMMA StrayInv ==
    ASSUME IoInv, Stray \/ UNCHANGED vars
    PROVE  IoInv'
<1>1. /\ CallTypes /\ TaskTypes /\ StreamTypes /\ WatchdogCounts /\ GroupsExact
      /\ OwedWhileOpen /\ QueuedOnce /\ Handshake /\ EndTold
  BY DEF IoInv
<1>2. recvErrs' \in Nat /\ UNCHANGED <<calls, mgr, cmds, reg, groups, late, behind, strm>>
  BY <1>1 DEF Stray, vars, task, TaskTypes
<1>3. CallTypes' /\ OwedWhileOpen' /\ TaskTypes' /\ StreamTypes' /\ WatchdogCounts' /\ GroupsExact'
  BY <1>1, <1>2 DEF CallTypes, OwedWhileOpen, TaskTypes, StreamTypes, WatchdogCounts,
                    GroupsExact, Registered, calls, strm
<1>4. QueuedOnce' /\ Handshake'
  <2>1. UNCHANGED <<call, ack, cmds, reg, ended>>  BY <1>2 DEF calls, strm
  <2>2. QED  BY <1>1, <2>1, HandshakeKept
<1>5. EndTold'  BY <1>1, <1>2 DEF EndTold, Told, HasLost, Registered, calls, strm
<1>6. QED  BY <1>3, <1>4, <1>5 DEF IoInv

-----------------------------------------------------------------------------

\* The inductive invariant of the runtime holds throughout (manager_task,
\* forward_open, IoConnection).
THEOREM IoInvariant == Spec => []IoInv
<1>1. IoInv /\ [Next]_vars => IoInv'
  <2>1. SUFFICES ASSUME IoInv, [Next]_vars PROVE IoInv'  OBVIOUS
  <2>2. CASE TaskStep
    BY <2>1, <2>2, CommandAddInv, CommandRemoveInv, CommandsEndInv, StrayInv, RecvErrorInv,
       FrameInv, TimeInv, TickInv DEF TaskStep
  <2>3. ASSUME NEW c \in Conns, CallStep(c) PROVE IoInv'
    BY <2>1, <2>3, CallInv, SendAddInv, CancelInv, ReceiveInv, CloseRemoveInv DEF CallStep
  <2>4. QED  BY <2>1, <2>2, <2>3, ShutdownInv, StrayInv DEF Next
<1>2. QED  BY <1>1, InitInv, PTL DEF Spec

\* For every modulus, watchdog and reordering that fit: as long as a connection
\* lives, a frame is accepted exactly when it is newer than the last accepted one
\* (IoConnection::consume, poll_watchdog).
THEOREM WindowIsSound == Spec => []WindowSound
<1>1. IoInv => WindowSound
  <2>1. SUFFICES ASSUME IoInv, NEW c \in Conns, Registered(c), reg[c].up, NEW b \in 0..Reorder
                 PROVE  Accepts(c, b) <=> b < behind[c]
    BY DEF WindowSound
  <2>2. /\ reg[c] \in ConnState /\ behind[c] \in Nat /\ late \in Nat /\ late <= MaxLate
        /\ reg[c].wd + late >= 1 /\ behind[c] + reg[c].wd <= Reorder + Multiplier
    BY <2>1 DEF IoInv, TaskTypes, WatchdogCounts, Registered
  <2>3. reg[c].wd \in Int  BY <2>2 DEF ConnState
  <2>4. Multiplier \in Nat /\ MaxLate \in Nat /\ Reorder \in Nat /\ Half \in Int
        /\ Reorder + Multiplier + MaxLate <= Half
    BY IoAssumption, WindowAssumption DEF Half
  <2>5. behind[c] - b \in Int /\ -Reorder <= behind[c] - b /\ behind[c] - b < Half
    BY <2>2, <2>3, <2>4
  <2>6. Delta(behind[c] - b) > 0 <=> behind[c] - b > 0  BY <2>5, DeltaSign
  <2>7. QED  BY <2>1, <2>2, <2>6 DEF Accepts
<1>2. QED  BY <1>1, IoInvariant, PTL

\* No call that read the target's answer and then failed, and no completed close,
\* leaves the target producing (a reply that cannot be read and a caller that is
\* dropped are not covered, see FailedOpenClosed), and the socket is in exactly the
\* groups of its registered multicast connections (forward_open,
\* ManagerCommand::Add, remove_connection).
THEOREM ResourcesAreReleased == Spec => [](ResourcesReleased /\ GroupsExact)
<1>1. IoInv => ResourcesReleased /\ GroupsExact
  BY DEF IoInv, ResourcesReleased, FailedOpenClosed, MemberWhileArmed, OwedWhileOpen, GroupsExact
<1>2. QED  BY <1>1, IoInvariant, PTL

\* A stream ends exactly when its connection leaves the registry, and one that
\* ends without the owner's order holds the loss or has delivered it, whatever the
\* depth of the queue (manager_task, push_latest_wins).
THEOREM EndIsAlwaysTold == Spec => []EndIsTold
<1>1. IoInv => EndIsTold
  <2>1. SUFFICES ASSUME IoInv, NEW c \in Conns, call[c] = "open"
                 PROVE  /\ ended[c] <=> ~Registered(c)
                        /\ ended[c] /\ ~ordered => heard[c] \/ \E i \in DOMAIN ev[c] : IsLost(ev[c][i])
    BY DEF EndIsTold
  <2>2. ack[c] = "ok" /\ ev[c] \in Seq(Events)  BY <2>1 DEF IoInv, Handshake, StreamTypes
  <2>3. (ended[c] <=> ~Registered(c)) /\ Told(c)  BY <2>1, <2>2 DEF IoInv, EndTold
  <2>4. DOMAIN ev[c] = 1..Len(ev[c])  BY <2>2, LenProperties
  <2>5. QED  BY <2>3, <2>4 DEF Told, HasLost
<1>2. QED  BY <1>1, IoInvariant, PTL
=============================================================================
