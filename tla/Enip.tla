--------------------------------- MODULE Enip ---------------------------------
(***************************************************************************)
(* The client side of the enip crate and the connect that uses it.  A      *)
(* behaviour is one of the session, of the keepalive task, of the event    *)
(* queue, of a connect attempt with its diagnostics, or of the framed      *)
(* reader.                                                                 *)
(***************************************************************************)
EXTENDS EnipSession

CONSTANTS
    Parts,                                            \* the parts a run explores
    RequestedRpi, ReplyApis, MinReplyApi, MaxReplyApi, Multiplier, MaxSleep, MaxLost, \* of Keepalive
    Events,                                           \* of EventQueue
    AttemptTimeout, ReplyTimeout, LIST_IDENTITY_BUDGET, Attrs, Shown, Served, \* of Connect
    MaxData, Contents                                 \* of Framing

VARIABLES
    part,
    api, idle, quiet, flight, probe, wake, handle, lost,              \* of Keepalive
    deque, pushed, tx, txClosed, permit, calls, rx, fut, received,    \* of EventQueue
    mode, connected, device, phase, attr, now, due, socket, read, posture, opened, err, named, result, \* of Connect
    sent, rest, given, buf, reader, closed, out, end                  \* of Framing

keepVars == <<api, idle, quiet, flight, probe, wake, handle, lost>>
queueVars == <<deque, pushed, tx, txClosed, permit, calls, rx, fut, received>>
connectVars == <<mode, connected, device, phase, attr, now, due, socket, read, posture, opened, err, named, result>>
frameVars == <<sent, rest, given, buf, reader, closed, out, end>>

\* The probe is a request of the session: its deadline is the session's.
Keep == INSTANCE Keepalive WITH wire <- flight, held <- handle

Queue == INSTANCE EventQueue WITH sent <- pushed, got <- received

Attempt == INSTANCE Connect WITH
    ConnectTimeout <- AttemptTimeout, RequestTimeout <- ReplyTimeout, link <- socket, got <- read

Frames == INSTANCE Framing WITH mode <- reader

\* The class-3 timing is as the documentation of class3_rpi asks.
ASSUME KeepaliveMargin == Keep!Timing /\ Keep!Margin
\* The status shows attributes that are read.
ASSUME ShownAreRead == Attempt!Shows

-----------------------------------------------------------------------------

NoKeep == api = 0 /\ idle = 0 /\ quiet = 0 /\ flight = 0 /\ probe = 0 /\ wake = 0 /\ handle = 0 /\ lost = 0
NoQueue == /\ deque = 0 /\ pushed = 0 /\ tx = 0 /\ txClosed = 0 /\ permit = 0
           /\ calls = 0 /\ rx = 0 /\ fut = 0 /\ received = 0
NoConnect == /\ mode = 0 /\ connected = 0 /\ device = 0 /\ phase = 0 /\ attr = 0 /\ now = 0 /\ due = 0
             /\ socket = 0 /\ read = 0 /\ posture = 0 /\ opened = 0 /\ err = 0 /\ named = 0 /\ result = 0
NoFrames == sent = 0 /\ rest = 0 /\ given = 0 /\ buf = 0 /\ reader = 0 /\ closed = 0 /\ out = 0 /\ end = 0

AllInit ==
    /\ part \in Parts
    /\ Init /\ (part # "session" => conn.class3)
    /\ IF part = "keepalive" THEN Keep!Init ELSE NoKeep
    /\ IF part = "queue" THEN Queue!Init ELSE NoQueue
    /\ IF part = "connect" THEN Attempt!Init ELSE NoConnect
    /\ IF part = "framing" THEN Frames!FramingInit ELSE NoFrames

AllNext ==
    /\ UNCHANGED part
    /\ \/ part = "session" /\ Next /\ UNCHANGED <<keepVars, queueVars, connectVars, frameVars>>
       \/ part = "keepalive" /\ Keep!Next /\ UNCHANGED <<vars, queueVars, connectVars, frameVars>>
       \/ part = "queue" /\ Queue!Next /\ UNCHANGED <<vars, keepVars, connectVars, frameVars>>
       \/ part = "connect" /\ Attempt!Next /\ UNCHANGED <<vars, keepVars, queueVars, frameVars>>
       \/ part = "framing" /\ Frames!FramingNext /\ UNCHANGED <<vars, keepVars, queueVars, connectVars>>

While(p, A) == part = p /\ A

\* The fairness of each part, while it is the one that runs.
AllSpec ==
    /\ AllInit /\ [][AllNext]_<<part, vars, keepVars, queueVars, connectVars, frameVars>>
    /\ WF_vars(While("session", Tick)) /\ WF_vars(While("session", Acting))
    /\ WF_vars(While("session", ConnectEnds)) /\ WF_vars(While("session", OpenAnswered))
    /\ WF_vars(While("session", UndoAnswered)) /\ WF_vars(While("session", CloseForwardDone))
    /\ WF_vars(While("session", CloseHandoff)) /\ WF_vars(While("session", CloseEnds))
    /\ \A r \in Own : WF_vars(While("session", Issue(r)))
    /\ \A r \in Reqs : WF_vars(While("session", Enqueue(r))) /\ WF_vars(While("session", Backstop(r)))
    /\ WF_queueVars(While("queue", Queue!Notify)) /\ WF_queueVars(While("queue", Queue!WakeAll))
    /\ WF_queueVars(While("queue", Queue!Create)) /\ WF_queueVars(While("queue", Queue!Enable))
    /\ WF_queueVars(While("queue", Queue!Take)) /\ WF_queueVars(While("queue", Queue!Wake))

-----------------------------------------------------------------------------
(* Properties, with those of EnipSession *)

\* The two clocks of a silent target agree with the target.  The kill counter
\* counts only what was written and not answered (EnipSession!StreakIsSilence);
\* the target's inactivity watchdog is fed in time however requests occupy the
\* session when the probe is due (Keepalive!WatchdogFed).
SilenceMeasured == StreakIsSilence /\ (part = "keepalive" => Keep!WatchdogFed)

\* No task is left behind: whatever IoEventReceiver::recv was sent is received
\* and the end of the stream is seen (EventQueue!WakeupsArrive), and the actor
\* of a session nobody holds ends (EnipSession!NoOrphanActor).
TasksProgress ==
    /\ NoOrphanActor
    /\ \A n \in 1..Events : (part = "queue" /\ pushed >= n) ~> (part = "queue" /\ Len(received) >= n)
    /\ (part = "queue" /\ txClosed) ~> (part = "queue" /\ rx = "ended" /\ Len(received) = pushed)

\* The frames of a stream reach the session in order, whole and once, however
\* TCP cuts them (Framing!FramesWhole).
FramesWhole == part = "framing" => Frames!FramesWhole

\* The diagnostics of a connect inform and never decide: the posture shown is
\* the whole of what the device serves (Connect!PostureWhole) and an error
\* keeps its class (Connect!DiagnosticsInform).
DiagnosticsHonest == part = "connect" => Attempt!PostureWhole /\ Attempt!DiagnosticsInform
=============================================================================
