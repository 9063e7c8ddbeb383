------------------------------ MODULE PushDriver ------------------------------
(***************************************************************************)
(* The consume loop of a push device, its publish engine, and the          *)
(* translator task that feeds it (crates/ethernet-ip-adapter/src/          *)
(* push_driver.rs, push.rs, eip/live.rs).  The translator writes the       *)
(* shared input snapshot first and queues the update second; the loop takes*)
(* control commands before queued updates.                                 *)
(***************************************************************************)
EXTENDS PublishEngine

CONSTANTS
    Frames,       \* what a consumed frame can carry for the field
    MaxQueue,     \* depth of the update channel (16 in the code)
    MaxBuffer     \* bound: samples in one coalescing window

VARIABLES
    up,       \* a class-1 session is open and the loop runs
    paused,   \* Health.paused
    quiet,    \* the loop's own `paused`
    st,       \* the field's state in the engine
    start,    \* age of the engine
    stale,    \* Health.stale_signals
    snap,     \* the shared input snapshot (PushSession::last_input)
    queue,    \* the update channel
    parked,   \* the update the translator is blocked on, as a sequence
    \* --- outside
    dev,      \* what the device produces
    out,      \* samples the last step handed to the facade
    calm,     \* the environment has come to rest
    \* --- history, read by properties only
    ref,      \* last GOOD value confirmed, or the value of the last resume's snapshot
    rebased,  \* quality of that snapshot, None after a confirmed publish
    gap,      \* ticks since the last GOOD sample was admitted
    early     \* a GOOD sample was admitted within the floor of the one before it

linkVars == <<snap, queue, parked>>
vars == <<up, paused, quiet, st, start, stale, linkVars, dev, out, calm, ref, rebased, gap, early>>

\* from: "window" was in an open window at the last pause, "queued" was in the
\* update channel at the last resume.
Sample == [value : Values \cup {None}, quality : Qualities, from : {"now", "window", "queued"}]

\* What the driver's constants are: a GOOD field carries a value.
DriverConstants ==
    /\ EngineConstants /\ None \notin SignalState(Sample) /\ None \notin Frames
    /\ MaxQueue \in Nat \ {0} /\ MaxBuffer \in Nat /\ Frames \subseteq Reading
    /\ \A f \in Frames : f.quality = "GOOD" => f.value \in Values

Stamp(r) == [value |-> r.value, quality |-> r.quality, from |-> "now"]

Marked(samples, from) == [i \in DOMAIN samples |-> [samples[i] EXCEPT !.from = from]]

Init ==
    /\ up = FALSE /\ paused = FALSE /\ quiet = FALSE
    /\ st = None /\ start = 0 /\ stale = 0
    /\ snap = None /\ queue = <<>> /\ parked = <<>>
    /\ dev \in Frames
    /\ out = <<>> /\ calm = FALSE
    /\ ref = None /\ rebased = None /\ gap = None /\ early = FALSE

-----------------------------------------------------------------------------
(* Sessions and the translator *)

\* The ForwardOpen succeeded: a new engine, an empty channel, no snapshot.
Open ==
    /\ ~up
    /\ up' = TRUE
    /\ quiet' = paused
    /\ st' = None /\ start' = 0
    /\ snap' = None /\ queue' = <<>> /\ parked' = <<>>
    /\ out' = <<>> /\ ref' = None /\ rebased' = None /\ gap' = None
    /\ UNCHANGED <<paused, stale, dev, calm, early>>

\* Lost, end of stream, an explicit reconnect or a cancel; the session is closed.
Leave ==
    /\ up /\ ~calm
    /\ up' = FALSE /\ quiet' = FALSE
    /\ st' = None
    /\ snap' = None /\ queue' = <<>> /\ parked' = <<>>
    /\ out' = <<>>
    /\ UNCHANGED <<paused, start, stale, dev, calm, ref, rebased, gap, early>>

\* emit_data: the snapshot, then the update; a full channel blocks the task.
EmitData ==
    /\ up /\ parked = <<>>
    /\ snap' = dev
    /\ IF Len(queue) < MaxQueue
       THEN queue' = Append(queue, Stamp(dev)) /\ UNCHANGED parked
       ELSE parked' = <<Stamp(dev)>> /\ UNCHANGED queue
    /\ out' = <<>>
    /\ UNCHANGED <<up, paused, quiet, st, start, stale, dev, calm, ref, rebased, gap, early>>

-----------------------------------------------------------------------------
(* The loop *)

\* publish_field, then settle.
Publish(samples, s) ==
    \E published \in {TRUE, calm} :
        /\ out' = samples
        /\ st' = settle(s, published)
        /\ ref' = IF published THEN LastGood(samples, ref) ELSE ref
        /\ rebased' = IF published /\ Goods(samples) # {} THEN None ELSE rebased

\* Variant: an admitted sample does not restart the floor.
Eligible_unmarked(s) == s

\* A gated-in sample restarts the sample floor, whatever its quality.
Eligible(s) == [s EXCEPT !.last_eligible = 0]

\* A suppressed or throttled sample leaves the floor alone.
Held(s) == s

\* process_frame on the field's reading.
Process(f) ==
    LET s1 == Read(st, f)
        s2 == Eligible(Admit(s1, f))
        pass == ~Throttled(s1, f) /\ gate_passes(s1, f)
    IN IF ~pass
       THEN st' = Held(s1) /\ out' = <<>> /\ UNCHANGED <<ref, rebased, gap, early>>
       ELSE /\ gap' = IF f.quality = "GOOD" THEN 0 ELSE gap
            /\ early' = (early \/ (f.quality = "GOOD" /\ gap # None /\ gap < SampleMs))
            /\ IF BatchMs > 0
               THEN /\ Len(s1.buffer) < MaxBuffer
                    /\ st' = Buffer(s2, f) /\ out' = <<>> /\ UNCHANGED <<ref, rebased>>
               ELSE Publish(<<f>>, s2)

\* One update off the channel; while paused it is consumed, not published.
\* The translator's blocked send goes through.
Consume ==
    /\ up /\ queue # <<>>
    /\ queue' = Tail(queue) \o parked
    /\ parked' = <<>>
    /\ IF quiet THEN out' = <<>> /\ UNCHANGED <<st, ref, rebased, gap, early>>
       ELSE Process(Head(queue))
    /\ UNCHANGED <<up, paused, quiet, start, stale, snap, dev, calm>>

Flush ==
    /\ up /\ ~quiet /\ take_due(st)
    /\ Publish(st.buffer, Drained(st))
    /\ UNCHANGED <<up, paused, quiet, start, stale, linkVars, dev, calm, gap, early>>

Emit ==
    /\ up
    /\ stale' = IF ~quiet /\ is_stale(st, start) THEN 1 ELSE 0
    /\ out' = <<>>
    /\ UNCHANGED <<up, paused, quiet, st, start, linkVars, dev, calm, ref, rebased, gap, early>>

\* `sb/pause`; with the link down only the flag moves.
Pause ==
    /\ ~calm
    /\ paused' = TRUE
    /\ quiet' = up
    /\ st' = LET s == discard_open_batches(st)
             IN IF s = None THEN None ELSE [s EXCEPT !.buffer = Marked(@, "window")]
    /\ out' = <<>>
    /\ UNCHANGED <<up, start, stale, linkVars, dev, calm, ref, rebased, gap, early>>

\* `sb/resume`: the current snapshot becomes the baseline.
Resume ==
    /\ ~calm
    /\ paused' = FALSE
    /\ quiet' = FALSE
    /\ IF up /\ paused /\ snap # None
       THEN st' = rebase_from(st, snap.value) /\ ref' = snap.value /\ rebased' = snap.quality
       ELSE UNCHANGED <<st, ref, rebased>>
    /\ queue' = IF paused THEN Marked(queue, "queued") ELSE queue
    /\ parked' = IF paused THEN Marked(parked, "queued") ELSE parked
    /\ out' = <<>>
    /\ UNCHANGED <<up, start, stale, snap, dev, calm, gap, early>>

-----------------------------------------------------------------------------
(* Outside *)

Tick ==
    /\ st' = Aged(st)
    /\ start' = Older(start, StaleSecs)
    /\ gap' = Older(gap, SampleMs)
    /\ out' = <<>>
    /\ UNCHANGED <<up, paused, quiet, stale, linkVars, dev, calm, ref, rebased, early>>

DeviceChanges ==
    /\ ~calm
    /\ dev' \in Frames
    /\ out' = <<>>
    /\ UNCHANGED <<up, paused, quiet, st, start, stale, linkVars, calm, ref, rebased, gap, early>>

Calm ==
    /\ ~calm
    /\ calm' = TRUE
    /\ out' = <<>>
    /\ UNCHANGED <<up, paused, quiet, st, start, stale, linkVars, dev, ref, rebased, gap, early>>

Next ==
    \/ Open \/ Leave \/ EmitData \/ Consume \/ Flush \/ Emit \/ Pause \/ Resume
    \/ Tick \/ DeviceChanges \/ Calm

Spec == Init /\ [][Next]_vars

\* The device produces cyclically, the translator and the loop keep serving,
\* the connect loop retries for ever, and time passes.
FairSpec ==
    /\ Spec
    /\ WF_vars(Open) /\ WF_vars(EmitData) /\ WF_vars(Consume) /\ WF_vars(Flush) /\ WF_vars(Tick)

-----------------------------------------------------------------------------
(* Properties *)

\* Every variable of the loop and the translator has its type; the channel
\* holds at most MaxQueue updates and one more is parked only when it is full.
TypeOK ==
    /\ up \in BOOLEAN /\ paused \in BOOLEAN /\ quiet \in BOOLEAN /\ calm \in BOOLEAN
    /\ st \in SignalState(Sample) \cup {None}
    /\ start \in 0..StaleSecs /\ stale \in {0, 1} /\ gap \in Age(SampleMs) /\ early \in BOOLEAN
    /\ snap \in Frames \cup {None} /\ dev \in Frames
    /\ queue \in Seq(Sample) /\ Len(queue) <= MaxQueue
    /\ parked \in Seq(Sample) /\ Len(parked) <= 1 /\ (parked # <<>> => Len(queue) = MaxQueue)
    /\ out \in Seq(Sample)
    /\ ref \in Values \cup {None} /\ rebased \in Qualities \cup {None}

\* No `data` publish while any surface reports the instance paused, and no
\* sample of a window that was open at a pause is published after it.
PauseIsSilent == out # <<>> => ~paused /\ \A i \in DOMAIN out : out[i].from # "window"

\* The committed baseline is the last GOOD value confirmed in this session or,
\* after a resume, the snapshot it re-based to; a stale window never lands on
\* top of the re-based value.  The pending half is the newest GOOD value of
\* the open window and nothing else, also after a re-base.
BaselineIsTrue ==
    st # None => st.committed = ref /\ st.pending = LastGood(st.buffer, None)

\* Two GOOD samples of a field are never admitted within the sample floor,
\* however frames, failures, pauses and resumes interleave.
FloorHolds == ~early

\* Once the environment rests, the reference settles within the deadband of
\* what the device produces: neither the floor nor the gate starves a value.
\* The reference is the value published last unless a resume came after it:
\* then it is the snapshot of the resume, which nobody was sent.
OnBus == (~paused /\ dev.quality = "GOOD") => ref # None /\ ~value_changed(ref, dev.value)
Converges == calm ~> []OnBus

-----------------------------------------------------------------------------
(* What the documentation says and the code does not do *)

\* DESIGN.md 7.4.8: on resume the baseline is the current snapshot "so the
\* paused span's accumulated drift is not published": no GOOD value that was
\* already captured when the instance resumed is published after it.
NoPausedDrift == \A i \in DOMAIN out : out[i].from = "queued" => out[i].quality # "GOOD"

\* DESIGN.md 7.4: "BAD/UNCERTAIN bypass the gate, and never become a baseline".
OnlyGoodIsBaseline == st # None /\ st.committed # None => rebased \in {None, "GOOD"}
=============================================================================
