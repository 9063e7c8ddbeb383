----------------------------- MODULE EventQueue -----------------------------
(***************************************************************************)
(* The event queue between the I/O manager and a connection's consumer     *)
(* (crates/enip/src/io.rs): a Mutex around the deque and a Notify for the  *)
(* wake-up, so that "look" and "sleep" are separate steps on one side and  *)
(* "change" and "wake" on the other.  The Notify (tokio) is external:      *)
(* notify_one wakes the registered waiter or leaves one permit,            *)
(* notify_waiters wakes the futures that exist and leaves nothing.         *)
(***************************************************************************)
EXTENDS Naturals, Sequences

CONSTANT Events    \* bound: how many events the manager sends before it drops the sender

VARIABLES deque,     \* the queued events
          sent,      \* events sent so far
          tx,        \* the sender: "ready", "pushed", "closed" (flag set) or "gone"
          txClosed,  \* EventQueueState::tx_closed
          permit,    \* the Notify's stored permit
          calls,     \* how often notify_waiters was called
          rx,        \* the receiver: "call", "created", "enabled", "asleep" or "ended"
          fut,       \* the Notified future: its registration and the calls it saw
          got        \* events received

vars == <<deque, sent, tx, txClosed, permit, calls, rx, fut, got>>

NoFuture == [st |-> "none", saw |-> 0]

Init == /\ deque = <<>> /\ sent = 0 /\ got = <<>>
        /\ tx = "ready" /\ txClosed = FALSE
        /\ permit = FALSE /\ calls = 0
        /\ rx = "call" /\ fut = NoFuture

\* Notify::notify_one, over the waiter's registration and the permit.
notify_one == IF fut.st = "waiting"
              THEN fut' = [fut EXCEPT !.st = "woken"] /\ UNCHANGED permit
              ELSE permit' = TRUE /\ UNCHANGED fut

\* IoEventSender::send, under the lock: then the wake-up, outside of it.
Push == /\ tx = "ready" /\ sent < Events
        /\ sent' = sent + 1 /\ deque' = Append(deque, sent')
        /\ tx' = "pushed"
        /\ UNCHANGED <<txClosed, permit, calls, rx, fut, got>>

Notify == /\ tx = "pushed" /\ notify_one
          /\ tx' = "ready"
          /\ UNCHANGED <<deque, sent, txClosed, calls, rx, got>>

\* Drop for IoEventSender: the flag, then notify_waiters.
CloseTx == /\ tx = "ready"
           /\ txClosed' = TRUE /\ tx' = "closed"
           /\ UNCHANGED <<deque, sent, permit, calls, rx, fut, got>>

WakeAll == /\ tx = "closed"
           /\ calls' = calls + 1 /\ tx' = "gone"
           /\ fut' = IF fut.st = "waiting" THEN [fut EXCEPT !.st = "done"] ELSE fut
           /\ UNCHANGED <<deque, sent, txClosed, permit, rx, got>>

\* Variant: recv looks at the queue first and creates and registers its future only to sleep.
Create_late ==
    \/ /\ rx = "call"
       /\ rx' = "enabled"
       /\ UNCHANGED <<deque, sent, tx, txClosed, permit, calls, fut, got>>
    \/ /\ rx = "asleep" /\ fut.st = "none"
       /\ fut' = [st |-> IF permit THEN "done" ELSE "waiting", saw |-> calls] /\ permit' = FALSE
       /\ UNCHANGED <<deque, sent, tx, txClosed, calls, rx, got>>

\* recv: the future is created and remembers the notify_waiters calls so far.
Create == /\ rx = "call"
          /\ rx' = "created" /\ fut' = [st |-> "init", saw |-> calls]
          /\ UNCHANGED <<deque, sent, tx, txClosed, permit, calls, got>>

\* enable(): takes a permit, sees an earlier notify_waiters, or registers as a waiter.
Enable == /\ rx = "created"
          /\ rx' = "enabled"
          /\ IF permit THEN permit' = FALSE /\ fut' = [fut EXCEPT !.st = "done"]
             ELSE /\ fut' = [fut EXCEPT !.st = IF calls # fut.saw THEN "done" ELSE "waiting"]
                  /\ UNCHANGED permit
          /\ UNCHANGED <<deque, sent, tx, txClosed, calls, got>>

\* A future dropped while woken but never polled hands its wake-up on: a permit again.
DropFuture == /\ permit' = (permit \/ fut.st = "woken")
              /\ fut' = NoFuture

\* take(), under the lock: an event, the end of a drained stream, or nothing yet.
Take ==
    /\ rx = "enabled"
    /\ \/ /\ deque # <<>>
          /\ got' = Append(got, Head(deque)) /\ deque' = Tail(deque)
          /\ rx' = "call" /\ DropFuture
       \/ /\ deque = <<>> /\ txClosed
          /\ rx' = "ended" /\ DropFuture /\ UNCHANGED <<deque, got>>
       \/ /\ deque = <<>> /\ ~txClosed
          /\ rx' = "asleep" /\ UNCHANGED <<deque, got, permit, fut>>
    /\ UNCHANGED <<sent, tx, txClosed, calls>>

\* notified.await returns and the loop starts over.
Wake == /\ rx = "asleep" /\ fut.st \in {"woken", "done"}
        /\ rx' = "call" /\ fut' = NoFuture
        /\ UNCHANGED <<deque, sent, tx, txClosed, permit, calls, got>>

\* The recv future is dropped at its await (another select! branch won), and recv is called again.
Cancel == /\ rx = "asleep"
          /\ rx' = "call" /\ DropFuture
          /\ UNCHANGED <<deque, sent, tx, txClosed, calls, got>>

Next == Push \/ Notify \/ CloseTx \/ WakeAll \/ Create \/ Enable \/ Take \/ Wake \/ Cancel

\* Both tasks are polled; the manager need not send or close, and nobody need cancel.
Fairness == /\ WF_vars(Notify) /\ WF_vars(WakeAll)
            /\ WF_vars(Create) /\ WF_vars(Enable) /\ WF_vars(Take) /\ WF_vars(Wake)

Spec == Init /\ [][Next]_vars /\ Fairness

\* No wake-up is lost between the receiver's look at the queue and its sleep, and a cancelled recv
\* gives its wake-up back: whatever was sent is received, and the end of the stream is seen.
WakeupsArrive == /\ \A n \in 1..Events : (sent >= n) ~> (Len(got) >= n)
                 /\ txClosed ~> (rx = "ended" /\ Len(got) = sent)
=============================================================================
