----------------------------- MODULE Keepalive -----------------------------
(***************************************************************************)
(* The class-3 keepalive of crates/enip/src/client/keepalive.rs with the   *)
(* activity clock send_connected keeps, over a session that runs one       *)
(* transaction at a time (EnipSession shows that every one ends by its     *)
(* deadline), and the inactivity watchdog of the target (external).        *)
(* Clocks are the ticks since an event; ready tasks run before time passes.*)
(***************************************************************************)
EXTENDS Integers

CONSTANTS RequestedRpi,   \* ClientOptions::class3_rpi after its clamp
          ReplyApis,      \* O->T packet intervals the target may answer with
          MinReplyApi, MaxReplyApi, \* the plausible band
          Multiplier,     \* the timeout multiplier's factor
          MaxSleep,       \* KEEPALIVE_MAX_SLEEP
          RequestTimeout, \* the deadline of a transaction
          MaxLost         \* bound: requests the target never sees

\* Intervals, factor and deadline are durations, whole numbers of ticks.
Timing == /\ RequestedRpi \in Nat /\ ReplyApis \subseteq Nat /\ MinReplyApi \in Nat /\ MaxReplyApi \in Nat
          /\ Multiplier \in Nat /\ MaxSleep \in Nat /\ RequestTimeout \in Nat /\ MaxLost \in Nat

\* class3_rpi's documented condition (request_timeout far below a quarter of the window), with the
\* margin that one lost probe and two requests ahead of it take.
Margin ==
    \A api \in ReplyApis : LET w == Multiplier * (IF api \in MinReplyApi..MaxReplyApi THEN api ELSE RequestedRpi)
                           IN RequestTimeout * (2 + 2 * MaxLost) <= w - (3 * w) \div 4

VARIABLES api,    \* the O->T API of the ForwardOpen reply
          idle,   \* the activity tracker: ticks since the last completed class-3 exchange
          quiet,  \* the target's clock: ticks since it last saw a class-3 request
          wire,   \* the transaction in flight, with the ticks left to its deadline
          probe,  \* the keepalive task: "sleep", "queued", "flight" or "gone"
          wake,   \* ticks until its sleep ends
          held,   \* whether a client handle exists
          lost    \* requests the target did not see

vars == <<api, idle, quiet, wire, probe, wake, held, lost>>

\* class3_negotiated_interval: an implausible reply API falls back to the requested interval.
class3_negotiated_interval == IF api \in MinReplyApi..MaxReplyApi THEN api ELSE RequestedRpi

class3_inactivity_window == Multiplier * class3_negotiated_interval

\* The idle time at which the next probe is due: three quarters of the window.
next_keepalive_at == (3 * class3_inactivity_window) \div 4

keepalive_due == idle >= next_keepalive_at

Least(a, b) == IF a <= b THEN a ELSE b
Free == [kind |-> "none", left |-> 0, seen |-> FALSE]

\* The sleep the loop computes: until the probe is due, but never past the liveness re-check.
SleepFor(i) == Least(IF next_keepalive_at > i THEN next_keepalive_at - i ELSE 0, MaxSleep)

Init == /\ api \in ReplyApis
        /\ idle = 0 /\ quiet = 0
        /\ wire = Free /\ lost = 0
        /\ probe = "sleep" /\ wake = SleepFor(0)
        /\ held = TRUE

\* A request leaves: the target sees it, and re-arms its watchdog for one over the connection,
\* or it is lost.
Out(kind) ==
    \E seen \in BOOLEAN :
      /\ ~seen => lost < MaxLost
      /\ lost' = (IF seen THEN lost ELSE lost + 1)
      /\ quiet' = (IF seen /\ kind # "ucmm" THEN 0 ELSE quiet)
      /\ wire' = [kind |-> kind, left |-> RequestTimeout, seen |-> seen]

\* A user's request goes out, over the connection or over UCMM; the command channel is FIFO, so
\* it does not overtake a probe that waits.
Send(kind) ==
    /\ held /\ wire = Free /\ probe # "queued"
    /\ Out(kind)
    /\ UNCHANGED <<api, idle, probe, wake, held>>

\* The queued probe goes out as a class-3 request like any other; the transaction ahead of it was
\* issued earlier and so ended before the probe's own deadline.
SendProbe ==
    /\ probe = "queued" /\ wire = Free
    /\ Out("probe")
    /\ probe' = "flight"
    /\ UNCHANGED <<api, idle, wake, held>>

\* send_connected touches the activity clock only for a transaction that completed.
touch(kind) == IF kind \in {"class3", "probe"} THEN 0 ELSE idle

\* The loop starts over: it re-reads the clock, or ends when the last handle is gone.
Loop(i) == IF held THEN probe' = "sleep" /\ wake' = SleepFor(i)
           ELSE probe' = "gone" /\ UNCHANGED wake

Answered ==
    /\ wire.kind # "none" /\ wire.seen
    /\ idle' = touch(wire.kind)
    /\ wire' = Free
    /\ IF wire.kind = "probe" THEN Loop(idle') ELSE UNCHANGED <<probe, wake>>
    /\ UNCHANGED <<api, quiet, held, lost>>

\* The deadline elapsed: the clock stays, and the loop's next turn is the retry.
TimedOut ==
    /\ wire.kind # "none" /\ wire.left = 0
    /\ wire' = Free
    /\ IF wire.kind = "probe" THEN Loop(idle) ELSE UNCHANGED <<probe, wake>>
    /\ UNCHANGED <<api, idle, quiet, held, lost>>

\* The sleep ended: the handle is re-checked, then whether traffic moved the deadline out.
Wake ==
    /\ probe = "sleep" /\ wake = 0
    /\ IF ~held THEN probe' = "gone" /\ UNCHANGED wake
       ELSE IF keepalive_due THEN probe' = "queued" /\ UNCHANGED wake
       ELSE Loop(idle)
    /\ UNCHANGED <<api, idle, quiet, wire, held, lost>>

\* The session ends under the probe (Closed or ConnectionLost): so does the task, and
\* the owner drops the client to reconnect.
SessionLost ==
    /\ probe \in {"queued", "flight"} /\ held
    /\ probe' = "gone" /\ wire' = Free /\ held' = FALSE
    /\ UNCHANGED <<api, idle, quiet, wake, lost>>

\* The last handle is dropped between two calls; the task holds none across a sleep.
Drop == /\ held /\ wire = Free /\ probe = "sleep"
        /\ held' = FALSE
        /\ UNCHANGED <<api, idle, quiet, wire, probe, wake, lost>>

\* Time passes only when no ready task is left to run.
Ready == \/ probe = "sleep" /\ wake = 0
         \/ probe = "queued" /\ wire = Free
         \/ wire.kind # "none" /\ wire.left = 0

Later(n) == IF n > class3_inactivity_window THEN n ELSE n + 1

Tick ==
    /\ ~Ready /\ probe # "gone"
    /\ idle' = Later(idle) /\ quiet' = Later(quiet)
    /\ wire' = IF wire = Free THEN wire ELSE [wire EXCEPT !.left = @ - 1]
    /\ wake' = IF probe = "sleep" THEN wake - 1 ELSE wake
    /\ UNCHANGED <<api, probe, held, lost>>

Next == \/ \E k \in {"class3", "ucmm"} : Send(k)
        \/ SendProbe \/ Answered \/ TimedOut \/ Wake \/ SessionLost \/ Drop \/ Tick

Spec == /\ Init /\ [][Next]_vars
        /\ WF_vars(Tick) /\ WF_vars(Wake) /\ WF_vars(SendProbe) /\ WF_vars(TimedOut)

\* While somebody holds the client the target's inactivity watchdog never reaches its window:
\* an idle connection is probed in time although the client's clock starts only when an exchange
\* completes, a request over UCMM may occupy the session when the probe is due, and one
\* request is lost.
WatchdogFed == held => quiet <= class3_inactivity_window

=============================================================================
