----------------------------- MODULE PushConfig -----------------------------
(***************************************************************************)
(* From the io block of a push device to the class-1 connection: the       *)
(* validation (config.rs), the connection request (live.rs io_spec, io.rs  *)
(* build_class1_open, cm.rs) as the target decodes it, and the frames      *)
(* (io.rs IoFrame).  Sizes are real bytes, times milliseconds.             *)
(***************************************************************************)
EXTENDS Layout, FiniteSets

Multipliers == {4, 8, 16, 32, 64, 128, 256, 512}
Formats == {"modeless", "header32", "heartbeat"}

\* An io block.  A side is [size, format, signals]; output is a set with at most one side, which also has
\* run.  A signal has its field, a name, a transform and a deadband ("absent", "none" or "absolute").
IoConfigs(multipliers, priorities, rpis, o2t_rpis, types, inputs, outputs) ==
    [multiplier : multipliers, priority : priorities, rpi : rpis, o2t_rpi : o2t_rpis, conn_type : types, input : inputs, output : outputs,
     assemblies : {[input |-> 100, output |-> 150]}]

\* The duration of u32 microseconds, in milliseconds.
MaxRpi == 4294967

signal_id(s, assembly) == <<assembly, s.field.offset, s.field.ty, s.field.bit>>

effective_o2t_rpi_ms(io) == IF io.o2t_rpi = {} THEN io.rpi ELSE CHOOSE r \in io.o2t_rpi : TRUE

Out(io) == CHOOSE o \in io.output : TRUE
OutputSignals(io) == IF io.output = {} THEN <<>> ELSE Out(io).signals
Ids(signals, assembly) == [i \in 1..Len(signals) |-> signal_id(signals[i], assembly)]
AllIds(io) == Ids(io.input.signals, io.assemblies.input) \o Ids(OutputSignals(io), io.assemblies.output)
Names(io) == [i \in 1..Len(io.input.signals) |-> io.input.signals[i].name]
                 \o [i \in 1..Len(OutputSignals(io)) |-> OutputSignals(io)[i].name]
AllDistinct(s) == \A i, j \in 1..Len(s) : s[i] = s[j] => i = j

build_layout(signals, size) == LayoutNew([i \in 1..Len(signals) |-> signals[i].field], size)

BoolPlain(s) == s.field.ty = "bool" => ~s.scaled
InputDeadband(s) == s.field.ty = "bool" => s.deadband # "absolute"

Distinct(io) == AllDistinct(Names(io)) /\ AllDistinct(AllIds(io))

\* IoConfig::validate
IoValidate(io) ==
    /\ io.multiplier \in Multipliers
    /\ io.rpi >= 1 /\ effective_o2t_rpi_ms(io) >= 1
    /\ io.input.format # "heartbeat" /\ io.input.size >= 1 /\ io.input.signals # <<>>
    /\ io.output # {} /\ Out(io).size = 0 => OutputSignals(io) = <<>>
    /\ Distinct(io)
    /\ \A i \in 1..Len(io.input.signals) : BoolPlain(io.input.signals[i]) /\ InputDeadband(io.input.signals[i])
    /\ \A i \in 1..Len(OutputSignals(io)) : BoolPlain(OutputSignals(io)[i]) /\ OutputSignals(io)[i].deadband = "absent"
    /\ build_layout(io.input.signals, io.input.size)
    /\ OutputSignals(io) # <<>> => build_layout(OutputSignals(io), Out(io).size)

(***************************************************************************)
(* The connection request.                                                 *)
(***************************************************************************)
carries_data(format) == format \in {"modeless", "header32"}
overhead(format) == IF format = "header32" THEN 6 ELSE 2

\* io_spec: both directions; an absent output block is a heartbeat.
io_spec(io) ==
    [t2o |-> [rpi |-> io.rpi, size |-> io.input.size, format |-> io.input.format, type |-> io.conn_type,
              priority |-> io.priority],
     o2t |-> [rpi |-> effective_o2t_rpi_ms(io), type |-> "p2p", priority |-> io.priority,
              size |-> IF io.output = {} THEN 0 ELSE Out(io).size,
              format |-> IF io.output = {} THEN "heartbeat" ELSE Out(io).format],
     multiplier |-> io.multiplier]

on_wire_size(dir) == overhead(dir.format) + (IF carries_data(dir.format) THEN dir.size ELSE 0)

TypeBits(type) == CASE type = "null" -> 0 [] type = "multicast" -> 1 [] OTHER -> 2
TypeOf(bits) == CASE bits = 1 -> "multicast" [] bits = 2 -> "p2p" [] OTHER -> "null"

\* NetworkConnectionParams, fixed length: the 16-bit form, and the 32-bit one as
\* its upper and lower half.
encode_u16(p) == (p.size % 512) + p.priority * 2^10 + TypeBits(p.type) * 2^13
decode_u16(v) == [size |-> v % 512, type |-> TypeOf((v \div 2^13) % 4), priority |-> (v \div 2^10) % 4,
                  variable |-> (v \div 2^9) % 2]
encode_u32(p) == <<p.priority * 2^10 + TypeBits(p.type) * 2^13, p.size % 65536>>
decode_u32(v) == [size |-> v[2], type |-> TypeOf((v[1] \div 2^13) % 4), priority |-> (v[1] \div 2^10) % 4,
                  variable |-> (v[1] \div 2^9) % 2]

LargeThreshold == 505

IsLarge(spec) == on_wire_size(spec.o2t) > LargeThreshold \/ on_wire_size(spec.t2o) > LargeThreshold

MultiplierCode(m) == CHOOSE c \in 0..7 : 4 * 2^c = m

\* build_class1_open and encode: refused when a size or an interval does not fit its field, otherwise
\* what the target reads from it.
build_class1_open(spec) ==
    LET fits == /\ on_wire_size(spec.o2t) <= 65535 /\ on_wire_size(spec.t2o) <= 65535
                /\ spec.o2t.rpi <= MaxRpi /\ spec.t2o.rpi <= MaxRpi
                /\ IsLarge(spec) \/ (on_wire_size(spec.o2t) <= 511 /\ on_wire_size(spec.t2o) <= 511)
        Params(dir) == [size |-> on_wire_size(dir), type |-> dir.type, priority |-> dir.priority]
        Read(dir) == IF IsLarge(spec) THEN decode_u32(encode_u32(Params(dir))) ELSE decode_u16(encode_u16(Params(dir)))
    IN  [ok |-> fits, o2t |-> Read(spec.o2t), t2o |-> Read(spec.t2o), code |-> MultiplierCode(spec.multiplier)]

(***************************************************************************)
(* The frames.                                                             *)
(***************************************************************************)
\* The length of an encoded IoFrame, and of the data a decoded one carries (-1: a runt).
FrameLength(format, data) == overhead(format) + data
FrameData(format, length) == IF length < overhead(format) THEN -1 ELSE length - overhead(format)

\* The session's connection: its output buffer is empty until a write is staged, the run bit is set.
NewOutput == [size |-> 0, run |-> TRUE]
\* produce_frame
ProducedFrame(spec, output) ==
    [length |-> FrameLength(spec.o2t.format, IF carries_data(spec.o2t.format) THEN output.size ELSE 0),
     run |-> IF spec.o2t.format = "header32" THEN {output.run} ELSE {}]

\* IoConnectionHandle::validate_output of a buffer of n bytes: the size is fixed.
validate_output(spec, n) == carries_data(spec.o2t.format) => n = spec.o2t.size

\* consume's size check of a frame
ConsumeSize(spec, length) == FrameData(spec.t2o.format, length) = spec.t2o.size

(***************************************************************************)
(* What an accepted io block stands for.                                   *)
(***************************************************************************)
\* The target reads the sizes, types, priority and watchdog that were configured; the request is refused only
\* for what no field of it can hold; a frame of the negotiated size is the configured image, a buffer that
\* may be staged makes a frame of the negotiated size, and no two fields answer to one id.
OpensAsAccepted(io) ==
    IoValidate(io) =>
        LET spec == io_spec(io)
            open == build_class1_open(spec)
        IN  /\ ~open.ok => io.rpi > MaxRpi \/ effective_o2t_rpi_ms(io) > MaxRpi \/ io.input.size > 65529
                               \/ (io.output # {} /\ Out(io).size > 65529)
            /\ open.ok => /\ open.t2o = [size |-> on_wire_size(spec.t2o), type |-> io.conn_type, priority |-> io.priority, variable |-> 0]
                          /\ open.o2t = [size |-> on_wire_size(spec.o2t), type |-> "p2p", priority |-> io.priority, variable |-> 0]
                          /\ 4 * 2^open.code = io.multiplier
                          /\ \A len \in {0, 1, open.t2o.size - 1, open.t2o.size, open.t2o.size + 1} :
                                 ConsumeSize(spec, len) <=> len = open.t2o.size
                          /\ io.output # {} => validate_output(spec, Out(io).size)
                          /\ \A n \in {0, spec.o2t.size} : validate_output(spec, n) =>
                                 ProducedFrame(spec, [NewOutput EXCEPT !.size = n]).length = open.o2t.size
            /\ Cardinality({AllIds(io)[i] : i \in 1..Len(AllIds(io))}) = Len(io.input.signals) + Len(OutputSignals(io))

\* docs/reference/configuration.md: the O->T size "0" is "a heartbeat connection", and run the "Initial
\* run/idle state produced in the 32-bit header".
OpensAsDocumented(io) ==
    IoValidate(io) /\ io.output # {} =>
        LET spec == io_spec(io)
        IN  /\ Out(io).size = 0 => spec.o2t.format = "heartbeat"
            /\ spec.o2t.format = "header32" => ProducedFrame(spec, NewOutput).run = {Out(io).run}

\* docs/sample-configurations.md: "The O->T assembly is 32 bytes with a 32-bit run/idle header, produced
\* in run state": a frame has the fixed size the request named, before the first write too.
ProducesAsNegotiated(io) ==
    IoValidate(io) => LET spec == io_spec(io)
                          open == build_class1_open(spec)
                      IN  open.ok => ProducedFrame(spec, NewOutput).length = open.o2t.size
=============================================================================
