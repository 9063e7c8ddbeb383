------------------------------ MODULE Metrics ------------------------------
(***************************************************************************)
(* The operational metrics of metrics.rs: the counters of every device,    *)
(* what the device's task, the command handlers and the certificate        *)
(* watcher record in them, and their emission.  The counters are behind    *)
(* one lock, so a recording call is one step; an emission is many: a       *)
(* family is drained under the lock, then each of its rows is defined and  *)
(* emitted with an await, and the service's store is shared by the         *)
(* devices and keyed by the family's name alone.                           *)
(***************************************************************************)
EXTENDS Integers, Sequences

CONSTANTS
    Devices,   \* the instances
    Push,      \* the ones in push mode; the others poll
    SeqMod,    \* 2^16 in the code: the class-1 sequence wraps
    Budgets,   \* bound: the events and failed emissions of each device, in one way or another
    MaxTime    \* bound: the clock

None == -1

(***************************************************************************)
(* The families and their rows.  A row is a set of counters that are       *)
(* emitted under one combination of dimensions; a counter here stands for  *)
(* the ones the code treats alike (`attempts' for the counters a connect   *)
(* attempt bumps, `produced' for the eight that are folded from the        *)
(* stack's snapshot).                                                      *)
(***************************************************************************)
Health == {"readErrors"}
Connection == {"attempts", "failures", "drops", "reconnects", "est"}
Io == {"opens", "frames", "gaps", "timeouts", "produced", "refused"}
Counters == Health \cup Connection \cup Io \cup {"published", "success", "error", "cycles"}

Rows(family) ==
    CASE family = "health" -> <<Health>>
      [] family = "connection" -> <<Connection>>
      [] family = "publish" -> <<{"published"}>>
      [] family = "command" -> <<{"success"}, {"error"}>>
      [] family = "io" -> <<Io>>
      [] family = "inventory" -> << {} >>
      [] family = "poll" -> <<{"cycles"}>>

emit_now(d) == <<"health", "connection">> \o (IF d \in Push THEN <<"io">> ELSE <<>>)
emit_periodic(d) ==
    <<"health", "connection", "publish", "command">>
        \o (IF d \in Push THEN <<"io">> ELSE <<"inventory", "poll">>)

VARIABLES
    pair,      \* per device and counter: [total, interval]
    conn,      \* per device: session_connected, ever_connected, connected_since, accrued ms
    io,        \* per device: io_connection_state, last_seq, the last_stats_* baselines
    link,      \* per device: the connection's life, and its stack counters while it has one
    plan,      \* per device: the families its emission still has to drain
    out,       \* per device: the drained rows still to be emitted
    defined,   \* per device: the first of them has been defined
    store,     \* MetricService: the dimensions a family's name stands for
    last,      \* the last emission: the row's own dimensions and those it went out under
    budget, now,
    sent,      \* history: what the service took of each counter
    unsent,    \* history: what it failed to take, of what was drained for it
    ms,        \* history: connected time, drained for emission and true
    truth      \* history: per device, frames that did not reach the task; stack counts read on ended links;
               \* refusals reported for the current link, and links that ended with one unreported

vars == <<pair, conn, io, link, plan, out, defined, store, last, budget, now, sent, unsent, ms, truth>>

Emission == <<plan, out, defined, store, last, sent, unsent>>

Families == {"health", "connection", "publish", "command", "io", "inventory", "poll"}

(***************************************************************************)
(* Pairs.                                                                  *)
(***************************************************************************)
Pair_add(p, v) == [total |-> p.total + v, interval |-> p.interval + v]

\* The counters of d after the amounts of `by' (a function on some of them) are added.
Added(d, by) == [pair EXCEPT ![d] = [c \in Counters |->
                    IF c \in DOMAIN by THEN Pair_add(@[c], by[c]) ELSE @[c]]]
Once(cs) == [c \in cs |-> 1]

\* drain_into: the values of a row, and its intervals back at zero.
Values(d, row) == [c \in row |-> pair[d][c].interval]
Reset_kept(p) == p     \* Variant: the interval is not reset when it is read.
Reset(p) == [p EXCEPT !.interval = 0]

(***************************************************************************)
(* The connection's clock: a gauge of connected time since the last emit.  *)
(***************************************************************************)
Accrued(c) == IF c.since = None THEN c ELSE [c EXCEPT !.ms = @ + (now - c.since), !.since = now]

Connected(c) == [c EXCEPT !.up = TRUE, !.ever = TRUE, !.since = now]
Dropped(c) == [Accrued(c) EXCEPT !.up = FALSE, !.since = None]
Reconnects(c) == IF c.ever THEN {"reconnects"} ELSE {}

(***************************************************************************)
(* What one class-1 connection left behind is dropped with it.             *)
(***************************************************************************)
NoLink == [state |-> FALSE, lastSeq |-> None, produced |-> 0, refused |-> 0]
end_connection(i) == NoLink

\* The history a link that ends leaves.
Ended(d) == [truth EXCEPT ![d].closed = @ + io[d].produced,
                          ![d].unreported = @ \/ (link[d].refused > truth[d].reports),
                          ![d].reports = 0]

\* feed: a cumulative counter read as the increase over its last reading.
Delta(cur, base) == IF cur >= base THEN cur - base ELSE cur

(***************************************************************************)
(* The task of a device.  It records and emits; while it emits it records  *)
(* nothing.                                                                *)
(***************************************************************************)
Idle(d) == plan[d] = <<>> /\ out[d] = <<>>
Spend(d) == budget[d] > 0 /\ budget' = [budget EXCEPT ![d] = @ - 1]
Begin(d, families) == plan' = [plan EXCEPT ![d] = families]
NoEmission == UNCHANGED Emission
Quiet == UNCHANGED <<now, ms>>

\* on_connect_attempt, and the outcome: a push device's outcome is that of its ForwardOpen.
Attempt(d) ==
    /\ Idle(d) /\ link[d].phase = "down" /\ Spend(d)
    /\ link' = [link EXCEPT ![d].phase = "opening"]
    /\ pair' = Added(d, Once({"attempts"}))
    /\ UNCHANGED <<conn, io, truth>> /\ NoEmission /\ Quiet

ConnectFailed(d) ==
    /\ Idle(d) /\ link[d].phase = "opening"
    /\ link' = [link EXCEPT ![d].phase = "down"]
    /\ pair' = Added(d, Once({"failures"}))
    /\ UNCHANGED <<conn, io, truth, budget>> /\ NoEmission /\ Quiet

\* A new ForwardOpen has stack counters of its own; its reply may carry a redirect that is refused.
ConnectOk(d) ==
    \E r \in IF d \in Push THEN {0, 1} ELSE {0} :
        /\ Idle(d) /\ link[d].phase = "opening"
        /\ link' = [link EXCEPT ![d] = [phase |-> "open", produced |-> 0, refused |-> r, seq |-> None]]
        /\ pair' = Added(d, Once((IF d \in Push THEN {"opens"} ELSE {}) \cup Reconnects(conn[d])))
        /\ conn' = [conn EXCEPT ![d] = Connected(@)]
        /\ Begin(d, IF d \in Push THEN <<>> ELSE emit_now(d))
        /\ UNCHANGED <<io, truth, budget, out, defined, store, last, sent, unsent>> /\ Quiet

\* on_io_up, at the first frame.
IoUp(d) ==
    /\ Idle(d) /\ d \in Push /\ link[d].phase = "open"
    /\ link' = [link EXCEPT ![d].phase = "up"]
    /\ io' = [io EXCEPT ![d].state = TRUE]
    /\ Begin(d, emit_now(d))
    /\ UNCHANGED <<pair, conn, truth, budget, out, defined, store, last, sent, unsent>> /\ Quiet

\* record_frame_consumed: the frames the sequence skips are missing.
Gap(lastSeq, seq) == IF lastSeq = None \/ (seq - lastSeq) % SeqMod <= 1
                     THEN 0 ELSE ((seq - lastSeq) % SeqMod) - 1

\* The k-th frame of the peer since the last one the task took; the ones between were lost on the
\* wire, or evicted from the connection's latest-wins queue while the task was busy. The first may
\* have any sequence.
Frame(d) ==
    \E k \in 1..2, s \in {0, SeqMod - 1} :
        LET seq == IF link[d].seq = None THEN s ELSE (link[d].seq + k) % SeqMod
        IN  /\ Idle(d) /\ link[d].phase = "up" /\ Spend(d)
            /\ link' = [link EXCEPT ![d].seq = seq]
            /\ io' = [io EXCEPT ![d].lastSeq = seq]
            /\ pair' = Added(d, [c \in {"frames", "gaps"} |-> IF c = "gaps" THEN Gap(io[d].lastSeq, seq) ELSE 1])
            /\ truth' = IF link[d].seq = None THEN truth ELSE [truth EXCEPT ![d].missed = @ + (k - 1)]
            /\ UNCHANGED conn /\ NoEmission /\ Quiet

\* One cycle of a poll device, and a publish of either kind.
record_poll_cycle(d) ==
    /\ Idle(d) /\ d \notin Push /\ link[d].phase = "open" /\ Spend(d)
    /\ \E bad \in {{}, {"readErrors"}} : pair' = Added(d, Once({"cycles"} \cup bad))
    /\ UNCHANGED <<conn, io, link, truth>> /\ NoEmission /\ Quiet

record_publish(d) ==
    /\ Idle(d) /\ link[d].phase \in {"open", "up"} /\ Spend(d)
    /\ pair' = Added(d, Once({"published"}))
    /\ UNCHANGED <<conn, io, link, truth>> /\ NoEmission /\ Quiet

\* The metrics interval has passed: the stack's snapshot is folded in (record_io_stats), a refusal
\* that is new is reported, and every family is emitted.
Periodic(d) ==
    LET new == Delta(link[d].refused, io[d].refused)
    IN  /\ Idle(d) /\ link[d].phase \in {"open", "up"} /\ Spend(d)
        /\ pair' = Added(d, IF d \in Push
                            THEN [c \in {"produced", "refused"} |->
                                    IF c = "refused" THEN new
                                    ELSE Delta(link[d].produced, io[d].produced)]
                            ELSE Once({}))
        /\ io' = [io EXCEPT ![d].produced = link[d].produced, ![d].refused = link[d].refused]
        /\ truth' = [truth EXCEPT ![d].reports = @ + IF new > 0 THEN 1 ELSE 0]
        /\ Begin(d, emit_periodic(d))
        /\ UNCHANGED <<conn, link, out, defined, store, last, sent, unsent>> /\ Quiet

\* The link is lost: on_io_lost in the push driver, on_connection_dropped in the ladder, emit_now.
LinkLost(d) ==
    /\ Idle(d) /\ link[d].phase \in {"open", "up"}
    /\ link' = [link EXCEPT ![d].phase = "down"]
    /\ io' = IF d \in Push THEN [io EXCEPT ![d] = end_connection(@)] ELSE io
    /\ pair' = Added(d, Once({"readErrors", "drops"} \cup IF d \in Push THEN {"timeouts"} ELSE {}))
    /\ conn' = [conn EXCEPT ![d] = Dropped(@)]
    /\ truth' = Ended(d)
    /\ Begin(d, emit_now(d))
    /\ UNCHANGED <<budget, out, defined, store, last, sent, unsent>> /\ Quiet

\* A requested reconnect: dropped, and (push) on_io_link_replaced; nothing is emitted.
Reconnect(d) ==
    /\ Idle(d) /\ link[d].phase \in {"open", "up"} /\ Spend(d)
    /\ link' = [link EXCEPT ![d].phase = "down"]
    /\ conn' = [conn EXCEPT ![d] = Dropped(@)]
    /\ io' = IF d \in Push THEN [io EXCEPT ![d] = end_connection(@)] ELSE io
    /\ pair' = Added(d, Once({"drops"}))
    /\ truth' = Ended(d)
    /\ NoEmission /\ Quiet

(***************************************************************************)
(* The tasks beside it, which record at any moment: a command handler, the *)
(* certificate watcher, the stack's producer and the clock.                *)
(***************************************************************************)
Beside(d) == Spend(d) /\ UNCHANGED <<conn, io, link, truth>> /\ NoEmission /\ Quiet

record_command(d) == Beside(d) /\ \E r \in {"success", "error"} : pair' = Added(d, Once({r}))
on_est_enrollment(d) == Beside(d) /\ pair' = Added(d, Once({"est"}))

StackProduces(d) ==
    /\ d \in Push /\ link[d].phase \in {"open", "up"} /\ Spend(d)
    /\ link' = [link EXCEPT ![d].produced = @ + 1]
    /\ UNCHANGED <<pair, conn, io, truth>> /\ NoEmission /\ Quiet

Tick ==
    /\ now < MaxTime /\ now' = now + 1
    /\ ms' = [d \in Devices |-> [ms[d] EXCEPT !.true = @ + IF conn[d].up THEN 1 ELSE 0]]
    /\ UNCHANGED <<pair, conn, io, link, truth, budget>> /\ NoEmission

(***************************************************************************)
(* An emission.  All the rows of a family are drained under one lock; a    *)
(* row is then defined, and emitted by a second call of the service.       *)
(***************************************************************************)
Drain(d) ==
    LET family == Head(plan[d])
        rows == Rows(family)
        drained == UNION {rows[i] : i \in DOMAIN rows}
    IN  /\ plan[d] # <<>> /\ out[d] = <<>>
        /\ plan' = [plan EXCEPT ![d] = Tail(@)]
        /\ out' = [out EXCEPT ![d] = [i \in DOMAIN rows |->
                        [name |-> family, row |-> i, values |-> Values(d, rows[i])]]]
        /\ pair' = [pair EXCEPT ![d] = [c \in Counters |->
                        IF c \in drained THEN Reset(@[c]) ELSE @[c]]]
        /\ IF family = "connection"
           THEN /\ conn' = [conn EXCEPT ![d] = [Accrued(@) EXCEPT !.ms = 0]]
                /\ ms' = [ms EXCEPT ![d].emitted = @ + Accrued(conn[d]).ms]
           ELSE UNCHANGED <<conn, ms>>
        /\ UNCHANGED <<io, link, defined, store, last, budget, now, sent, unsent, truth>>

\* emit_combo: define, then emit.
define(d) ==
    /\ out[d] # <<>> /\ ~defined[d]
    /\ store' = [store EXCEPT ![Head(out[d]).name] = <<d, Head(out[d]).row>>]
    /\ defined' = [defined EXCEPT ![d] = TRUE]
    /\ UNCHANGED <<pair, conn, io, link, plan, out, last, budget, now, sent, unsent, ms, truth>>

\* What a row holds, on top of what h has.
Gathered(h, d, o) == [h EXCEPT ![d] = [c \in Counters |-> @[c] + IF c \in DOMAIN o.values THEN o.values[c] ELSE 0]]

\* The service takes the row, or fails: that is logged, and the row, drained before, is gone.
emit(d) ==
    LET o == Head(out[d])
    IN  /\ out[d] # <<>> /\ defined[d]
        /\ \/ /\ sent' = Gathered(sent, d, o) /\ UNCHANGED <<unsent, budget>>
              /\ last' = [own |-> <<d, o.row>>, under |-> store[o.name]]
           \/ /\ Spend(d)
              /\ unsent' = Gathered(unsent, d, o) /\ UNCHANGED <<sent, last>>
        /\ out' = [out EXCEPT ![d] = Tail(@)]
        /\ defined' = [defined EXCEPT ![d] = FALSE]
        /\ UNCHANGED <<pair, conn, io, link, plan, store, now, ms, truth>>

(***************************************************************************)
(* The specification.                                                      *)
(***************************************************************************)
\* DeviceMetrics::new: every combination is there from the start, at zero.
Init ==
    /\ pair = [d \in Devices |-> [c \in Counters |-> [total |-> 0, interval |-> 0]]]
    /\ conn = [d \in Devices |-> [up |-> FALSE, ever |-> FALSE, since |-> None, ms |-> 0]]
    /\ io = [d \in Devices |-> NoLink]
    /\ link = [d \in Devices |-> [phase |-> "down", produced |-> 0, refused |-> 0, seq |-> None]]
    /\ plan = [d \in Devices |-> <<>>] /\ out = [d \in Devices |-> <<>>]
    /\ defined = [d \in Devices |-> FALSE]
    /\ LET d == CHOOSE d \in Devices : TRUE
       IN  store = [f \in Families |-> <<d, 1>>] /\ last = [own |-> <<d, 1>>, under |-> <<d, 1>>]
    /\ budget \in Budgets /\ now = 0
    /\ sent = [d \in Devices |-> [c \in Counters |-> 0]] /\ unsent = sent
    /\ ms = [d \in Devices |-> [emitted |-> 0, true |-> 0]]
    /\ truth = [d \in Devices |-> [missed |-> 0, closed |-> 0, reports |-> 0, unreported |-> FALSE]]

Records(d) ==
    \/ Attempt(d) \/ ConnectFailed(d) \/ ConnectOk(d) \/ IoUp(d) \/ Frame(d)
    \/ record_poll_cycle(d) \/ record_publish(d) \/ Periodic(d) \/ LinkLost(d) \/ Reconnect(d)
    \/ record_command(d) \/ on_est_enrollment(d) \/ StackProduces(d)

Next == Tick \/ \E d \in Devices : Records(d) \/ Drain(d) \/ define(d) \/ emit(d)

Spec == Init /\ [][Next]_vars

(***************************************************************************)
(* Properties.                                                             *)
(***************************************************************************)
\* What a drained family carries of a counter: the value of the one row it is in.
Carried(rows, c) ==
    LET at == {i \in DOMAIN rows : c \in DOMAIN rows[i].values}
    IN  IF at = {} THEN 0 ELSE rows[CHOOSE i \in at : TRUE].values[c]

\* What is drained and not handed over yet.
Pending(d, c) == Carried(out[d], c)

\* The interval convention of metrics.rs (Pair, drain_into): whatever is recorded while an emission
\* is under way, every count of the total is in exactly one place: in an interval the service took,
\* in one it failed to take (emit_combo logs that and does not put it back, so later intervals do
\* not make up for it), drained, or still open. The connected milliseconds are drained alike.
IntervalsAddUp ==
    \A d \in Devices :
        /\ \A c \in Counters :
              (sent[d][c] + unsent[d][c]) + Pending(d, c) + pair[d][c].interval = pair[d][c].total
        /\ ms[d].emitted + Accrued(conn[d]).ms = ms[d].true

\* IoCounters::end_connection: across reconnects the totals say what happened on the wire.  A gap
\* is counted for a frame of the connection that did not reach the task (lost, or evicted from the
\* latest-wins queue: a slow task counts as gaps too) and for nothing else, the stack's counts are
\* those read on every connection, the link is reported up only while it is, and a refused redirect
\* is reported as soon as a snapshot of its connection has been read, once.
LinksAccounted ==
    \A d \in Devices :
        /\ pair[d]["gaps"].total = truth[d].missed
        /\ pair[d]["produced"].total = truth[d].closed + io[d].produced
        /\ io[d].state => link[d].phase = "up"
        /\ truth[d].reports = IF link[d].phase = "down" THEN 0 ELSE io[d].refused

\* metrics.rs, module comment: "each (family x dimension) combination emits with its own
\* dimensions".
OwnDimensions == last.own = last.under

\* push_driver.rs: a refused redirect is "reported once per ForwardOpen": no connection ends with
\* its refusal unreported.
RefusalReported == \A d \in Devices : ~truth[d].unreported
=============================================================================
