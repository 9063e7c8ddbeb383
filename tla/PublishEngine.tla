---------------------------- MODULE PublishEngine ----------------------------
(***************************************************************************)
(* What both telemetry engines do to one signal's running state            *)
(* (crates/ethernet-ip-adapter/src/publish.rs, with the gating of poll.rs  *)
(* and push.rs).  The engine keeps one independent SignalState per signal  *)
(* id, so one signal is the whole engine.                                  *)
(*                                                                         *)
(* Instants become ages in ticks, saturating at the threshold they are     *)
(* compared with.  A value is the tuple of its elements; a scalar is a     *)
(* 1-tuple.  Deadbands are configured for numeric signals only, so elements*)
(* are integers.                                                           *)
(***************************************************************************)
EXTENDS Integers, Sequences, Batches

CONSTANTS
    None,         \* Option::None
    Values,       \* what a signal can read
    PublishMode,  \* "onChange" or "always"
    Deadband,     \* [kind, value]: none, absolute or percent
    BatchMs,      \* the coalescing window; 0 publishes at once
    SampleMs,     \* the push sample floor; 0 is off
    StaleSecs     \* no GOOD read for that long is stale

Qualities == {"GOOD", "BAD", "UNCERTAIN"}

-----------------------------------------------------------------------------
(* The gate *)

Abs(x) == IF x < 0 THEN -x ELSE x

\* A zero percent threshold degrades to "any change".
scalar_exceeds(old, new) ==
    CASE Deadband.kind = "none"     -> new # old
      [] Deadband.kind = "absolute" -> Abs(new - old) >= Deadband.value
      [] Deadband.kind = "percent"  ->
            IF Abs(old) * Deadband.value = 0 THEN new # old
            ELSE Abs(new - old) * 100 >= Abs(old) * Deadband.value

\* Arrays: another length, or any element past the deadband.
value_changed(prev, new) ==
    IF Len(prev) # Len(new) THEN TRUE
    ELSE \E i \in 1..Len(new) : scalar_exceeds(prev[i], new[i])

\* A failure always passes; the first value always passes.
should_publish(prev, r) ==
    IF r.quality # "GOOD" \/ PublishMode = "always" \/ prev = None THEN TRUE
    ELSE value_changed(prev, r.value)

\* Both halves of the baseline pair must let the reading through.
gate_passes(st, r) == should_publish(st.committed, r) /\ should_publish(st.pending, r)

-----------------------------------------------------------------------------
(* One signal's state; a signal the engine has not met has none *)

Reading == [value : Values \cup {None}, quality : Qualities]

Age(top) == 0..top \cup {None}

Fresh == [committed |-> None, pending |-> None, last_good |-> None, last_eligible |-> None,
          buffer |-> <<>>, window |-> None]

\* engine.state.entry(id).or_default()
Tracked(st) == IF st = None THEN Fresh ELSE st

\* A GOOD reading is also the last good read, gated in or not.
Read(st, r) == [Tracked(st) EXCEPT !.last_good = IF r.quality = "GOOD" THEN 0 ELSE @]

\* The push sample floor throttles GOOD samples only.
Throttled(st, r) ==
    r.quality = "GOOD" /\ SampleMs > 0 /\ st.last_eligible # None /\ st.last_eligible < SampleMs

\* A gated-in GOOD value is pending until its publish is confirmed.
Admit(st, r) == [st EXCEPT !.pending = IF r.quality = "GOOD" THEN r.value ELSE @]

\* Batcher::add with a window; the first sample opens it.
Buffer(st, s) == [st EXCEPT !.buffer = Append(@, s), !.window = IF @ = None THEN 0 ELSE @]

take_due(st) == st # None /\ st.window # None /\ st.buffer # <<>> /\ st.window >= BatchMs

Drained(st) == [st EXCEPT !.buffer = <<>>, !.window = None]

\* Variant: a failed publish advances the baseline as well.
settle_attempted(st, published) ==
    [st EXCEPT !.committed = IF st.pending # None THEN st.pending ELSE @, !.pending = None]

\* A confirmed publish promotes the pending value, a failed one drops it.
settle(st, published) ==
    [st EXCEPT !.committed = IF published /\ st.pending # None THEN st.pending ELSE @,
               !.pending = None]

\* Variant: the window survives the pause.
discard_open_batches_held(st) == st

\* Variant: the samples go, their baseline stays.
discard_open_batches_keepsPending(st) == IF st = None THEN None ELSE Drained(st)

\* Pause: the open window goes, with the pending baseline its samples carry.
discard_open_batches(st) ==
    IF st = None THEN None
    ELSE [Drained(st) EXCEPT !.pending = IF st.buffer # <<>> THEN None ELSE @]

\* Variant: the resume does not touch the staleness clock.
rebase_stale_missing(st) == st

\* Poll resume: every tracked signal was just good.
rebase_stale(st) == IF st = None THEN None ELSE [st EXCEPT !.last_good = 0]

\* Push resume: the current reading is the baseline.
rebase_from(st, v) == [Tracked(st) EXCEPT !.committed = v, !.pending = None, !.last_good = 0]

\* A signal that never read GOOD is measured from the engine's start.
is_stale(st, start) ==
    LET base == IF st = None THEN None ELSE st.last_good
    IN (IF base = None THEN start ELSE base) >= StaleSecs

Older(age, top) == IF age = None \/ age = top THEN age ELSE age + 1

Aged(st) ==
    IF st = None THEN None
    ELSE [st EXCEPT !.last_good = Older(@, StaleSecs), !.last_eligible = Older(@, SampleMs),
                    !.window = Older(@, BatchMs)]

SignalState(Sample) ==
    [committed : Values \cup {None}, pending : Values \cup {None},
     last_good : Age(StaleSecs), last_eligible : Age(SampleMs),
     buffer : Seq(Sample), window : Age(BatchMs)]

\* What the constants are: None is not a value, an age or a quality, and the
\* configured durations are numbers of ticks.
EngineConstants ==
    /\ None \notin Values /\ None \notin Int /\ None \notin Qualities
    /\ BatchMs \in Nat /\ SampleMs \in Nat /\ StaleSecs \in Nat
=============================================================================
