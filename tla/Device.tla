-------------------------------- MODULE Device --------------------------------
(***************************************************************************)
(* One device's tasks.  A behaviour is one of the connection loop or one of*)
(* a driver: the poll loop ("poll", "direct") or the consume loop ("push", *)
(* "stream"), each under the publish settings of its name.                 *)
(***************************************************************************)
EXTENDS DeviceTask

CONSTANTS
    Parts,                                                     \* the parts a run explores
    PollSettings, DirectSettings, PushSettings, StreamSettings \* of a driver, as a record

VARIABLES
    part,
    up, hold, quiet, st, start, stale, dev, out, calm,  \* of both drivers; hold: Health.paused
    due, bus, sent, awake,                              \* of PollDriver
    snap, chan, parked, ref, rebased, gap, early        \* of PushDriver; chan: its queue

driver   == <<up, hold, quiet, st, start, stale, dev, out, calm>>
pollOnly == <<due, bus, sent, awake>>
pushOnly == <<snap, chan, parked, ref, rebased, gap, early>>

Poll == INSTANCE PollDriver WITH
    Values <- PollSettings.values, Readings <- PollSettings.readings, Deadband <- PollSettings.deadband,
    PublishMode <- PollSettings.publish, BatchMs <- PollSettings.batch, SampleMs <- PollSettings.floor,
    StaleSecs <- PollSettings.stale, Interval <- PollSettings.interval, MaxBuffer <- PollSettings.buffer,
    paused <- hold

Direct == INSTANCE PollDriver WITH
    Values <- DirectSettings.values, Readings <- DirectSettings.readings, Deadband <- DirectSettings.deadband,
    PublishMode <- DirectSettings.publish, BatchMs <- DirectSettings.batch, SampleMs <- DirectSettings.floor,
    StaleSecs <- DirectSettings.stale, Interval <- DirectSettings.interval, MaxBuffer <- DirectSettings.buffer,
    paused <- hold

Push == INSTANCE PushDriver WITH
    Values <- PushSettings.values, Frames <- PushSettings.readings, Deadband <- PushSettings.deadband,
    PublishMode <- PushSettings.publish, BatchMs <- PushSettings.batch, SampleMs <- PushSettings.floor,
    StaleSecs <- PushSettings.stale, MaxQueue <- PushSettings.queue, MaxBuffer <- PushSettings.buffer,
    paused <- hold, queue <- chan

Stream == INSTANCE PushDriver WITH
    Values <- StreamSettings.values, Frames <- StreamSettings.readings, Deadband <- StreamSettings.deadband,
    PublishMode <- StreamSettings.publish, BatchMs <- StreamSettings.batch, SampleMs <- StreamSettings.floor,
    StaleSecs <- StreamSettings.stale, MaxQueue <- StreamSettings.queue, MaxBuffer <- StreamSettings.buffer,
    paused <- hold, queue <- chan

\* The settings are of their types: None is no value, durations are numbers of
\* ticks, and a GOOD reading carries a value.
ASSUME DriverSettings ==
    Poll!DriverConstants /\ Direct!DriverConstants /\ Push!DriverConstants /\ Stream!DriverConstants

-----------------------------------------------------------------------------

NoDriver == up = 0 /\ hold = 0 /\ quiet = 0 /\ st = 0 /\ start = 0 /\ stale = 0 /\ dev = 0 /\ out = 0 /\ calm = 0
NoPoll == due = 0 /\ bus = 0 /\ sent = 0 /\ awake = 0
NoPush == snap = 0 /\ chan = 0 /\ parked = 0 /\ ref = 0 /\ rebased = 0 /\ gap = 0 /\ early = 0

AllInit ==
    /\ part \in Parts /\ Init
    /\ \/ part = "task" /\ NoDriver /\ NoPoll /\ NoPush
       \/ mode = "poll" /\ NoPush /\ ((part = "poll" /\ Poll!Init) \/ (part = "direct" /\ Direct!Init))
       \/ mode = "push" /\ NoPoll /\ ((part = "push" /\ Push!Init) \/ (part = "stream" /\ Stream!Init))

AllNext ==
    /\ UNCHANGED part
    /\ \/ part = "task" /\ Next /\ UNCHANGED <<driver, pollOnly, pushOnly>>
       \/ part = "poll" /\ Poll!Next /\ UNCHANGED <<vars, pushOnly>>
       \/ part = "direct" /\ Direct!Next /\ UNCHANGED <<vars, pushOnly>>
       \/ part = "push" /\ Push!Next /\ UNCHANGED <<vars, pollOnly>>
       \/ part = "stream" /\ Stream!Next /\ UNCHANGED <<vars, pollOnly>>

all == <<part, vars, driver, pollOnly, pushOnly>>
While(p, A) == part = p /\ A
pollVars == <<driver, pollOnly>>
pushVars == <<driver, pushOnly>>

AllSpec == AllInit /\ [][AllNext]_all

\* The fairness of each part, while it is the one that runs.
AllFairSpec ==
    /\ AllSpec
    /\ SF_vars(While("task", (\E permanent \in BOOLEAN : ConnectFail(permanent)) /\ wait' > 0))
    /\ WF_vars(While("task", Connect)) /\ WF_vars(While("task", Wait)) /\ WF_vars(While("task", SessionStopped))
    /\ WF_vars(While("task", Greet)) /\ WF_vars(While("task", Close))
    /\ WF_vars(While("task", SessionControl)) /\ WF_vars(While("task", CallOk \/ CallFail))
    /\ WF_pollVars(While("poll", Poll!Open)) /\ WF_pollVars(While("poll", Poll!Poll))
    /\ WF_pollVars(While("poll", Poll!Flush)) /\ WF_pollVars(While("poll", Poll!Tick))
    /\ WF_pollVars(While("direct", Direct!Open)) /\ WF_pollVars(While("direct", Direct!Poll))
    /\ WF_pollVars(While("direct", Direct!Tick))
    /\ WF_pushVars(While("stream", Stream!Open)) /\ WF_pushVars(While("stream", Stream!EmitData))
    /\ WF_pushVars(While("stream", Stream!Consume)) /\ WF_pushVars(While("stream", Stream!Tick))

-----------------------------------------------------------------------------
(* Properties of the drivers *)

\* No `data` publish while any surface reports the instance paused, and
\* nothing captured before a pause is published after it, in either loop
\* (PollDriver!PauseIsSilent, PushDriver!PauseIsSilent).
PauseIsSilent == /\ part = "poll" => Poll!PauseIsSilent
                 /\ part = "push" => Push!PauseIsSilent

\* What the gate compares with is what reached the bus, or the snapshot a
\* resume re-based to, and an open window holds no repeats
\* (PollDriver!BaselineIsTrue, PushDriver!BaselineIsTrue).
BaselineIsTrue == /\ part = "poll" => Poll!BaselineIsTrue
                  /\ part = "push" => Push!BaselineIsTrue

\* A signal is reported stale only after that much unpaused time (PollDriver!StaleNotWhilePaused).
StaleNotWhilePaused == [][part = "poll" => Poll!StaleStep]_all

\* Two GOOD samples of a field are never admitted within the sample floor (PushDriver!FloorHolds).
FloorHolds == part = "push" => Push!FloorHolds

\* Once device, broker, link and operator rest, what the loop holds for known
\* is the device's value within the deadband, and stays it.  For the poll loop
\* that is the value published last; for the consume loop it is that, or the
\* snapshot a resume re-based to, which is not published (PollDriver!Converges,
\* PushDriver!Converges).
OnBus ==
    CASE part = "poll" -> Poll!OnBus [] part = "direct" -> Direct!OnBus [] part = "stream" -> Stream!OnBus
      [] OTHER -> FALSE
Converges == (part \in {"poll", "direct", "stream"} /\ calm) ~> []OnBus

-----------------------------------------------------------------------------
(* Properties of the connection loop, with those of DeviceTask *)

\* Every request is answered or dropped with the task, and a cancelled task
\* ends, also when the device never comes back
\* (DeviceTask!RequestsAnswered, DeviceTask!StopEnds).
TaskProgress == RequestsAnswered /\ StopEnds

-----------------------------------------------------------------------------
(* What the documentation says and the code does not do *)

\* A resume re-bases so that the paused span's drift is not published (PushDriver!NoPausedDrift).
NoPausedDrift == part = "push" => Push!NoPausedDrift
=============================================================================
