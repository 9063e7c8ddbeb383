------------------------------ MODULE PollDriver ------------------------------
(***************************************************************************)
(* The poll loop and its publish engine across sessions                    *)
(* (crates/ethernet-ip-adapter/src/poll_driver.rs, poll.rs, and the pause  *)
(* flag of app.rs).  One task runs the loop, so its arms are actions; the  *)
(* device, the broker, the operator and the clock interleave with them.    *)
(***************************************************************************)
EXTENDS PublishEngine

CONSTANTS
    Readings,     \* what a poll of the signal can return
    Interval,     \* the group's poll interval, in ticks
    MaxBuffer     \* bound: samples in one coalescing window

VARIABLES
    up,       \* a session is open and the loop runs
    paused,   \* Health.paused: what every surface reports
    quiet,    \* the loop's own `paused`
    st,       \* the signal's state in the engine
    start,    \* age of the engine
    due,      \* the group's deadline, relative to now
    stale,    \* Health.stale_signals, from the last health emit
    \* --- outside
    dev,      \* what the device would answer
    out,      \* samples the last step handed to the facade
    bus,      \* last GOOD value the facade confirmed
    calm,     \* the environment has come to rest
    \* --- history, read by properties only
    sent,     \* last GOOD value confirmed in this session
    awake     \* unpaused ticks since the last GOOD read, start or resume

engVars == <<st, start, due, stale>>
vars == <<up, paused, quiet, engVars, dev, out, bus, calm, sent, awake>>

\* old: captured before the last pause.
Sample == [value : Values \cup {None}, quality : Qualities, old : BOOLEAN]

\* What the driver's constants are: a GOOD reading carries a value.
DriverConstants ==
    /\ EngineConstants /\ None \notin SignalState(Sample)
    /\ Interval \in Nat /\ MaxBuffer \in Nat /\ Readings \subseteq Reading
    /\ \A r \in Readings : r.quality = "GOOD" => r.value \in Values

Max0(x) == IF x < 0 THEN 0 ELSE x

Init ==
    /\ up = FALSE /\ paused = FALSE /\ quiet = FALSE
    /\ st = None /\ start = 0 /\ due = 0 /\ stale = 0
    /\ dev \in Readings
    /\ out = <<>> /\ bus = None /\ calm = FALSE
    /\ sent = None /\ awake = 0

-----------------------------------------------------------------------------
(* Sessions *)

\* A connect succeeded: a new engine, a pause carried in by the shared flag.
Open ==
    /\ ~up
    /\ up' = TRUE
    /\ quiet' = paused
    /\ st' = None /\ start' = 0 /\ due' = Interval
    /\ out' = <<>> /\ sent' = None /\ awake' = 0
    /\ UNCHANGED <<paused, stale, dev, bus, calm>>

\* A failed read or probe, an explicit reconnect, or a cancel: the engine and
\* its open window die with the loop.
Leave ==
    /\ up /\ ~calm
    /\ up' = FALSE
    /\ quiet' = FALSE
    /\ st' = None
    /\ out' = <<>>
    /\ UNCHANGED <<paused, start, due, stale, dev, bus, calm, sent, awake>>

-----------------------------------------------------------------------------
(* The loop *)

\* publish_by_id, then settle: the facade confirms, or (before calm) fails.
Publish(samples, s) ==
    \E published \in {TRUE, calm} :
        /\ out' = samples
        /\ st' = settle(s, published)
        /\ bus' = IF published THEN LastGood(samples, bus) ELSE bus
        /\ sent' = IF published THEN LastGood(samples, sent) ELSE sent

\* process_group on the signal's reading.
Process(r) ==
    LET s1     == Read(st, r)
        s2     == Admit(s1, r)
        sample == [value |-> r.value, quality |-> r.quality, old |-> FALSE]
    IN /\ awake' = IF r.quality = "GOOD" THEN 0 ELSE awake
       /\ \/ /\ ~gate_passes(s1, r)
             /\ st' = s1 /\ out' = <<>> /\ UNCHANGED <<bus, sent>>
          \/ /\ gate_passes(s1, r) /\ BatchMs > 0
             /\ Len(s1.buffer) < MaxBuffer
             /\ st' = Buffer(s2, sample) /\ out' = <<>> /\ UNCHANGED <<bus, sent>>
          \/ /\ gate_passes(s1, r) /\ BatchMs = 0
             /\ Publish(<<sample>>, s2)

\* The group is due: re-armed first, without a catch-up storm, then read.
Poll ==
    /\ up /\ ~quiet /\ due <= 0
    /\ due' = Max0(due + Interval)
    /\ Process(dev)
    /\ UNCHANGED <<up, paused, quiet, start, stale, dev, calm>>

\* `repoll`: the same cycle at once, refused while paused.
Repoll ==
    /\ up /\ ~quiet /\ ~calm
    /\ Process(dev)
    /\ UNCHANGED <<up, paused, quiet, start, due, stale, dev, calm>>

Flush ==
    /\ up /\ ~quiet /\ take_due(st)
    /\ Publish(st.buffer, Drained(st))
    /\ UNCHANGED <<up, paused, quiet, start, due, stale, dev, calm, awake>>

\* The health emit; staleness is suspended while paused.
Emit ==
    /\ up
    /\ stale' = IF ~quiet /\ is_stale(st, start) THEN 1 ELSE 0
    /\ out' = <<>>
    /\ UNCHANGED <<up, paused, quiet, st, start, due, dev, bus, calm, sent, awake>>

MarkOld(samples) == [i \in DOMAIN samples |-> [samples[i] EXCEPT !.old = TRUE]]

\* `sb/pause`: the flag, then the open windows, whether it changed or not.
\* With the link down only the flag moves.
Pause ==
    /\ ~calm
    /\ paused' = TRUE
    /\ quiet' = up
    /\ st' = LET s == discard_open_batches(st)
             IN IF s = None THEN None ELSE [s EXCEPT !.buffer = MarkOld(@)]
    /\ out' = <<>>
    /\ UNCHANGED <<up, start, due, stale, dev, bus, calm, sent, awake>>

\* `sb/resume`: if it changed anything, staleness and deadlines start over.
Resume ==
    /\ ~calm
    /\ paused' = FALSE
    /\ quiet' = FALSE
    /\ st' = IF up /\ paused THEN rebase_stale(st) ELSE st
    /\ due' = IF up /\ paused THEN Interval ELSE due
    /\ awake' = IF paused THEN 0 ELSE awake
    /\ out' = <<>>
    /\ UNCHANGED <<up, start, stale, dev, bus, calm, sent>>

-----------------------------------------------------------------------------
(* Outside *)

Tick ==
    /\ st' = Aged(st)
    /\ start' = Older(start, StaleSecs)
    /\ due' = IF due = -Interval THEN due ELSE due - 1
    /\ awake' = IF paused THEN awake ELSE Older(awake, StaleSecs)
    /\ out' = <<>>
    /\ UNCHANGED <<up, paused, quiet, stale, dev, bus, calm, sent>>

DeviceChanges ==
    /\ ~calm
    /\ dev' \in Readings
    /\ out' = <<>>
    /\ UNCHANGED <<up, paused, quiet, engVars, bus, calm, sent, awake>>

\* From here on the device, the broker, the link and the operator rest.
Calm ==
    /\ ~calm
    /\ calm' = TRUE
    /\ out' = <<>>
    /\ UNCHANGED <<up, paused, quiet, engVars, dev, bus, sent, awake>>

Next ==
    \/ Open \/ Leave \/ Poll \/ Repoll \/ Flush \/ Emit \/ Pause \/ Resume
    \/ Tick \/ DeviceChanges \/ Calm

Spec == Init /\ [][Next]_vars

\* The connect loop retries for ever, the loop serves each timer that fired,
\* and time passes.
FairSpec == Spec /\ WF_vars(Open) /\ WF_vars(Poll) /\ WF_vars(Flush) /\ WF_vars(Tick)

-----------------------------------------------------------------------------
(* Properties *)

\* Every variable of the loop has its type; the deadline is never further away
\* than one interval.
TypeOK ==
    /\ up \in BOOLEAN /\ paused \in BOOLEAN /\ quiet \in BOOLEAN /\ calm \in BOOLEAN
    /\ st \in SignalState(Sample) \cup {None}
    /\ start \in 0..StaleSecs /\ awake \in 0..StaleSecs /\ due \in -Interval..Interval /\ stale \in {0, 1}
    /\ dev \in Readings /\ out \in Seq(Sample)
    /\ bus \in Values \cup {None} /\ sent \in Values \cup {None}

\* No `data` publish while any surface reports the instance paused, also not
\* in a session opened under a pause that arrived with the link down, and
\* nothing captured before a pause is published after it.
PauseIsSilent == out # <<>> => ~paused /\ \A i \in DOMAIN out : ~out[i].old

\* The committed baseline is the last GOOD value the facade confirmed in this
\* session: failed publishes, failures in the batch, pauses and resumes never
\* make the gate suppress against a value that did not reach the bus.  The
\* pending half is the newest GOOD value of the open window and nothing else:
\* it neither outlives its samples nor is missing while they wait.
BaselineIsPublished ==
    st # None => st.committed = sent /\ st.pending = LastGood(st.buffer, None)

\* Coalescing does not duplicate: in an open window every GOOD sample differs,
\* past the deadband, from the committed value and from the GOOD one before it.
WindowHasNoRepeats ==
    (st # None /\ PublishMode = "onChange") =>
        \A j \in Goods(st.buffer) :
            /\ st.committed = None \/ value_changed(st.committed, st.buffer[j].value)
            /\ \A i \in Goods(st.buffer) :
                  (i < j /\ \A k \in Goods(st.buffer) : k <= i \/ k >= j)
                     => value_changed(st.buffer[i].value, st.buffer[j].value)

\* Both halves of it: what the gate compares with is what reached the bus, and
\* an open window holds no repeats.
BaselineIsTrue == BaselineIsPublished /\ WindowHasNoRepeats

\* A signal the session has read is reported stale only if that much unpaused
\* time passed since its last GOOD read or the last resume.
StaleStep == (stale' = 1 /\ stale = 0 /\ st # None /\ st.last_good # None) => awake >= StaleSecs
StaleNotWhilePaused == [][StaleStep]_vars

\* Once the environment rests with a GOOD value, the bus comes to hold that
\* value (within the deadband) and keeps it, whatever failed before.
OnBus == (~paused /\ dev.quality = "GOOD") => bus # None /\ ~value_changed(bus, dev.value)
Converges == calm ~> []OnBus

-----------------------------------------------------------------------------
(* What the documentation says and the code does not do *)

\* DESIGN.md 9.3: "the clock suspends during pause (on resume, last_good_read
\* is re-based so the paused span doesn't count)", for every signal.
PausedSpanNotCounted == [][ (stale' = 1 /\ stale = 0) => awake >= StaleSecs ]_vars
=============================================================================
