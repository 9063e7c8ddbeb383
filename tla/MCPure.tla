------------------------------- MODULE MCPure -------------------------------
(***************************************************************************)
(* The pure functions of the adapter and of the enip crate against their   *)
(* references: a behaviour picks one input of one part and applies it.     *)
(***************************************************************************)
EXTENDS SecurityConfig, Values, DeviceConfig, Messages

VARIABLES part, in, done

ClientBlocks == SUBSET {"certSecret", "certFile", "keyFile", "cert", "key"} \cup {{"cert", "key", "field"}}
EstBlocks == {e \in EstConfigs({"none", "bad", "https"}, {{}, {"certSecret"}, {"cert", "key"}, {"cert"}},
                               {{}, {"basic"}, {"bootstrap"}, {"bootstrap", "basic"}}, {{}, {"certFile"}, {"certSecret"}},
                               {{}, {"secret"}}) :
                 /\ ~e.hasInto => e.into = {} /\ e.bootstrap = {} /\ "bootstrap" \notin e.auth
                 /\ e.hasInto => e.auth # {} /\ e.trust = {}
                 /\ ~e.enabled => e.server = "none" /\ ~e.hasInto /\ e.auth = {} /\ e.trust = {}}
Securities == {s \in SecurityConfigs(ClientBlocks, SUBSET {"secret", "trustStore", "list"}, EstBlocks) :
                 /\ ~s.tls => s.client = {} /\ s.ca = {} /\ s.verify_peer /\ ~s.est.enabled
                 /\ s.name = "invalid" => s.suites = "default" /\ ~s.est.enabled}
World(caPem) == [vault |-> [n \in {"certSecret", "cert", "key", "pair", "basic"} |-> "old"],
                 json |-> {"certSecret", "pair"}, files |-> {"certFile", "keyFile", "ca"},
                 cas |-> [n \in {"ca.secret", "ca.cert", "ca.list"} |-> 0],
                 caPem |-> caPem, versions |-> {1, 2}]

(***************************************************************************)
(* Values: a JSON value or array for a signal, and a device's value.       *)
(***************************************************************************)
Ints == {[k |-> "int", n |-> n] : n \in -18..33}
Float(float) == {x \in -160..160 : float[x, 1] = x}
Floats == {[k |-> "float", n |-> x] : x \in Float(f64)}
Others == {[k |-> "bool", n |-> b] : b \in 0..1} \cup {[k |-> "other", n |-> 0]}
Json == LET all == Ints \cup Floats \cup Others
            few == {j \in all : j.n \in {-17, -8, 0, 1, 2, 9, 15, 18, 31, 32}}
        IN  {[array |-> a, of |-> <<j>>] : a \in BOOLEAN, j \in all} \cup {[array |-> TRUE, of |-> <<i, j>>] : i \in few, j \in few}
DeviceValues(ty) == CASE ty = "bool" -> 0..1
                      [] ty = "lreal" -> Float(f64) \cup {-F64.max, F64.max, NonFinite}
                      [] ty = "real" -> Float(f32) \cup {NonFinite}
                      [] OTHER -> int_bounds(ty)
Signals == {s \in [ty : {"sint", "usint", "real", "lreal", "bool"}, scale : {None} \cup {<<x>> : x \in 0..4},
                   offset : {None, <<0>>, <<1>>, <<-3>>}, array_count : {None, <<1>>, <<2>>}] :
               s.ty = "bool" => ~Scaled(s.scale, s.offset)}
\* One value for every signal; the same twice, and beside a small one, for two elements.
Readings(s) == IF s.array_count = <<2>> THEN {<<v, v>> : v \in DeviceValues(s.ty)} \cup {<<0, v>> : v \in DeviceValues(s.ty)}
               ELSE {<<v>> : v \in DeviceValues(s.ty)}

(***************************************************************************)
(* Layouts and devices.                                                    *)
(***************************************************************************)
Fields == FieldSpecs(0..2, {0, 1, 2}, 0..2)
Images == UNION {[1..n -> Byte] : n \in 1..3}

Option(values) == {{}} \cup {{v} : v \in values}
PollSignals == [name : {"a", "b"}, tag : {"x", "y"}, ty : {"bool", "int"}, array_count : Option({0, 1, 3, 4}),
                scaled : BOOLEAN, deadband : {"none", "absolute"}]
PlainSignals == {s \in PollSignals : s.ty = "int" /\ s.array_count = {} /\ ~s.scaled /\ s.deadband = "none"}
Group(signals, poll, publish) == [id |-> {}, poll |-> poll, publish |-> publish, signals |-> signals]
SignalLists == {<<>>} \cup {<<s>> : s \in PollSignals} \cup {<<s, t>> : s \in PollSignals, t \in PlainSignals}
GroupLists == {<<>>} \cup {<<Group(l, {}, {})>> : l \in SignalLists}
              \cup {<<Group(l, {}, {}), Group(m, {}, {})>> : l \in SignalLists, m \in {<<>>} \cup {<<t>> : t \in PlainSignals}}
Settings == [poll : Option({1}), publish : Option({"always"}), batch : Option({2})]
NoSettings == [poll |-> {}, publish |-> {}, batch |-> {}]

Field(offset, ty) == [offset |-> offset, ty |-> ty, bit |-> <<>>, count |-> 1]
IoSignal(name, field) == [name |-> name, field |-> field, scaled |-> FALSE, deadband |-> "absent"]
OneInput == <<IoSignal("a", Field(0, "usint"))>>
IoSizes == {0, 1, 499, 504, 506, 510, 1020, 65529, 65530, 65534}
IoBySize == IoConfigs({3, 16, 512}, {0, 3}, {1, MaxRpi + 1}, Option({0, 2, MaxRpi}), {"p2p", "multicast"},
                       [size : IoSizes, format : Formats, signals : {OneInput}],
                       Option([size : {0, 1, 500, 65530}, format : Formats, signals : {<<>>, <<IoSignal("b", Field(0, "usint"))>>},
                               run : BOOLEAN]))
IoByField ==
    LET full == [name : {"a"}, field : Fields, scaled : BOOLEAN, deadband : {"absent", "none", "absolute"}]
        second == [name : {"a", "b"}, field : FieldSpecs({0, 1}, {0}, {1}), scaled : {FALSE}, deadband : {"absent", "none"}]
        inputs(lists) == [size : 1..3, format : {"modeless"}, signals : lists]
        outputs == {{[size |-> 2, format |-> "header32", run |-> TRUE, signals |-> <<t>>]} : t \in second}
        ByField(in_, out) == IoConfigs({4}, {2}, {1}, {{}}, {"p2p"}, in_, out)
    IN  ByField(inputs({<<s>> : s \in full} \cup {<<s, t>> : s \in second, t \in second}), {{}})
        \cup ByField(inputs({<<s>> : s \in second}), outputs)
PushDevice(io) == [mode |-> "push", groups |-> <<>>, io |-> {io}, defaults |-> NoSettings, allow |-> {}]
PollDevice(groups) == [mode |-> "poll", groups |-> groups, io |-> {}, defaults |-> NoSettings, allow |-> {"x", "z"}]
AnIo == CHOOSE io \in IoByField : IoValidate(io)
Mixed == {[PollDevice(g) EXCEPT !.mode = m, !.io = i] :
              g \in {<<>>, <<Group(<<CHOOSE s \in PlainSignals : TRUE>>, {}, {})>>}, m \in {"poll", "push"}, i \in {{}, {AnIo}}}
Laddered == {[PollDevice(<<Group(<<CHOOSE s \in PlainSignals : TRUE>>, p, q)>>) EXCEPT !.defaults = d] :
                 p \in Option({3}), q \in Option({"onChange"}), d \in Settings}
Global == [poll : Option({5}), publish : Option({"always"}), batch : Option({6})]

(***************************************************************************)
(* Requests, and the tag paths of the configuration.                       *)
(***************************************************************************)
Numbers16 == {0, 1, 3, 4, 15}
Numbers32 == Numbers16 \cup {16, 17, 255}
Links == UNION {[1..k -> {0, 1}] : k \in 1..4}
Segments == {Seg(k, v) : k \in {"Class", "Attribute", "ConnectionPoint"}, v \in Numbers16}
            \cup {Seg(k, v) : k \in {"Instance", "Element"}, v \in Numbers32}
            \cup {Seg("Symbol", [i \in 1..n |-> 1 + (i % 2)]) : n \in 0..4}
            \cup {Seg("Port", [port |-> p, link |-> l]) : p \in {1, 14, 15}, l \in Links}
Paths == {message_router_path, connection_manager_path}
         \cup {io_connection_path(c, o, i) : c \in {<<>>} \cup {<<n>> : n \in Numbers16}, o \in Numbers16, i \in Numbers16}
         \cup UNION {[1..k -> Segments] : k \in 0..2}
TagTexts == UNION {[1..n -> {"a", "1"} \cup Separators] : n \in 0..6}

Pairs == (0..3) \X (0..3)
CellLists == UNION {[1..n -> 0..3] : n \in 0..6}
Words2 == UNION {[1..n -> 0..2] : n \in 0..2}

Triples == [serial : {1, 3}, vendor : {2}, originator : {0, 7}]
OpenPaths == {message_router_path, io_connection_path(<<>>, 1, 5), <<Seg("Symbol", <<>>)>>}
Opens == {class3(o, t, triple, p, r, c) : o \in {0, 5}, t \in {1, 6}, triple \in Triples, p \in OpenPaths, r \in {3, 9}, c \in {0, 2}}
         \cup {class1(t, triple, 2, 3, op, r, tp, p, large) :
                   t \in {1, 6}, triple \in Triples, op \in {1, 3, 4}, r \in {3, 9}, tp \in {2, 15}, p \in OpenPaths, large \in BOOLEAN}

PureInit == /\ done = FALSE
            /\ \/ part = "security" /\ in \in Securities \X {{}, {7}}
               \/ part = "write" /\ in \in Signals \X Json
               \/ part = "read" /\ \E s \in Signals : in \in {<<s, r>> : r \in Readings(s)}
               \/ part = "layout" /\ in \in Fields \X Images
               \/ part = "io" /\ in \in IoBySize \cup IoByField
               \/ part = "device" /\ in \in ({PollDevice(g) : g \in GroupLists} \cup Mixed) \X {NoSettings}
               \/ part = "device" /\ in \in Laddered \X Global
               \/ part = "path" /\ in \in Paths \X {<<>>, <<2>>}
               \/ part = "answer" /\ in \in Pairs \X (0..2) \X (0..2) \X Words2 \X Words2
               \/ part = "open" /\ in \in Opens
               \/ part = "items" /\ in \in CellLists
               \/ part = "tag" /\ in \in TagTexts

Apply == ~done /\ done' = TRUE /\ UNCHANGED <<part, in>>
PureSpec == PureInit /\ [][Apply]_<<part, in, done>>

\* A write the codec accepts is the write the device gets, up to the rounding of a transform's floats and
\* never clamped; a value that was published can be written back unless the arithmetic lost part of it or
\* the signal has an arrayCount of 1 (encode_write, decode_value: Values!Lands, ReadsBack).
ValuesExact ==
    done => /\ part = "write" => Lands(in[2], in[1].ty, in[1].scale, in[1].offset, in[1].array_count)
            /\ part = "read" =>
                   /\ ReadsBack(in[2], in[1].ty, in[1].scale, in[1].offset, in[1].array_count)
                   /\ assembly_to_readings(in[2], in[1].ty, in[1].scale, in[1].offset, FALSE).quality # "good"
\* What an accepted configuration stands for: layouts that stay inside their image, a class-1 connection
\* the target reads as it was configured, devices whose ids name one signal (DeviceConfig::validate), and a
\* TLS client that connects with the material and the verification it names and presents a renewed
\* certificate next (SecurityConfig::validate, build_client_config, write_enrolled): all but what
\* LeftToConnect and RenewalIsPresented name.
ConfigSound == done => /\ part = "layout" => FieldExact(in[1], in[2])
                       /\ part = "io" => OpensAsAccepted(in)
                       /\ part = "device" => DeviceSound(in[1], in[2])
                       /\ part = "security" => /\ AcceptedConnects(in[1], World(in[2]))
                                               /\ RenewalIsPresented(in[1], World(in[2]))
\* A request and a ForwardOpen reach the target as they were built, a tag path means what its text says,
\* and an answer is read as it was written or not at all (MessageRequest::encode, TagAddress::parse,
\* Cpf::decode, ForwardOpenRequest::encode).
MessagesExact == done => /\ part = "path" => RequestExact(1, in[1], in[2])
                         /\ part = "tag" => TagExact(in)
                         /\ part = "answer" => AnswerExact(in[1], in[2], in[3], in[4], in[5])
                         /\ part = "open" => OpenExact(in)
                         /\ part = "items" => CpfCanonical(in)

(***************************************************************************)
(* What the documentation says and the code does not do.                   *)
(***************************************************************************)
\* sample-configurations.md: "The O->T assembly is 32 bytes with a 32-bit run/idle header, produced in run
\* state": a fixed-size connection produces frames of the size it negotiated.
FramesNegotiated == done /\ part = "io" => ProducesAsNegotiated(in)

\* configuration.md: an output of size 0 is "a heartbeat connection", and `run` is the "Initial run/idle
\* state produced in the 32-bit header".
ConfigDocumented == done /\ part = "io" => OpensAsDocumented(in)

\* how-to-guides.md: an enrolled certificate is applied by the reload watcher, "the same path as a manual
\* rotation", wherever the identity and the trust anchor come from.
EnrollmentKeepsConnecting == done /\ part = "security" => RenewalConnects(in[1], World(in[2]))

\* types.rs: under a scale and an offset that are the identity, what is written is what was asked for.
IdentityWritesExact == done /\ part = "write" => IdentityExact(in[2], in[1].ty, in[1].scale, in[1].offset, in[1].array_count)

\* types.rs: what a transform cannot carry exactly is refused, "never a silent rounding".
TransformsExact == done /\ part = "write" => CarriedOrRefused(in[2], in[1].ty, in[1].scale, in[1].offset, in[1].array_count)
=============================================================================
