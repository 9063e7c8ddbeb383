------------------------------- MODULE EPath -------------------------------
(***************************************************************************)
(* Request paths (epath.rs, cm.rs) and the requests that carry them        *)
(* (message.rs): a tag path of the configuration to segments, segments to  *)
(* the padded bytes of the wire, and the way a message router takes the    *)
(* bytes apart.  A byte holds a number below Base; the code bytes of the   *)
(* segments are the protocol's own.                                        *)
(***************************************************************************)
EXTENDS Integers, Sequences, FiniteSets
LOCAL INSTANCE SequencesExt

Base == 4                 \* 256 in the code
MaxName == 3              \* u8::MAX
MaxPathWords == 6         \* MAX_PATH_WORDS, 255

(***************************************************************************)
(* Segments: [k, v]; v is a number, the text of a symbol, or [port, link]. *)
(***************************************************************************)
Seg(k, v) == [k |-> k, v |-> v]

\* The code bytes of the 8-bit form; the wider forms follow it.
Code == [Class |-> 32, Instance |-> 36, Element |-> 40, ConnectionPoint |-> 44, Attribute |-> 48]
SymbolCode == 145

\* n bytes of v, least significant first.
Bytes(v, n) == [i \in 1..n |-> (v \div Base^(i - 1)) % Base]
Pad(bytes) == IF Len(bytes) % 2 = 0 THEN bytes ELSE Append(bytes, 0)

\* Variant: a number of the 16-bit form is not padded.
encode_logical_packed(code, v) == IF v < Base THEN <<code, v>> ELSE <<code + 1>> \o Bytes(v, 2)
encode_logical(code, v) == IF v < Base THEN <<code, v>> ELSE <<code + 1, 0>> \o Bytes(v, 2)
encode_logical_wide(code, v) == IF v < Base^2 THEN encode_logical(code, v) ELSE <<code + 2, 0>> \o Bytes(v, 4)

PortEncode(p) == IF Len(p.link) > 1 THEN Pad(<<p.port + 16, Len(p.link)>> \o p.link) ELSE Pad(<<p.port>> \o p.link)

\* What Segment::encode refuses.
Encodable(s) == /\ s.k = "Symbol" => Len(s.v) \in 1..MaxName
                /\ s.k = "Port" => s.v.port <= 14 /\ Len(s.v.link) < Base
SegEncode(s) == CASE s.k \in {"Class", "Attribute", "ConnectionPoint"} -> encode_logical(Code[s.k], s.v)
                  [] s.k \in {"Instance", "Element"} -> encode_logical_wide(Code[s.k], s.v)
                  [] s.k = "Symbol" -> Pad(<<SymbolCode, Len(s.v)>> \o s.v)
                  [] OTHER -> PortEncode(s.v)

\* EPath::encode; a refused path is not ok.
PathEncode(path) ==
    IF \E i \in 1..Len(path) : ~Encodable(path[i]) THEN [ok |-> FALSE, bytes |-> <<>>]
    ELSE LET bytes == FlattenSeq([i \in 1..Len(path) |-> SegEncode(path[i])])
         IN  [ok |-> Len(bytes) % 2 = 0 /\ Len(bytes) \div 2 <= MaxPathWords, bytes |-> bytes]

message_router_path == <<Seg("Class", 2), Seg("Instance", 1)>>
connection_manager_path == <<Seg("Class", 6), Seg("Instance", 1)>>
\* io_connection_path: the configuration instance is optional, then O->T and T->O.
io_connection_path(config, output, input) ==
    <<Seg("Class", 4)>> \o [i \in 1..Len(config) |-> Seg("Instance", config[i])]
        \o <<Seg("ConnectionPoint", output), Seg("ConnectionPoint", input)>>

\* MessageRequest::encode
RequestEncode(service, path, data) ==
    LET p == PathEncode(path) IN [ok |-> p.ok, bytes |-> <<service, Len(p.bytes) \div 2>> \o p.bytes \o data]

(***************************************************************************)
(* The router's reading of a padded path, by the form of each code byte.   *)
(***************************************************************************)
WireNumber(bytes) == LET sum[i \in 0..Len(bytes)] == IF i = 0 THEN 0 ELSE sum[i - 1] + bytes[i] * Base^(i - 1)
                 IN  sum[Len(bytes)]
Even(n) == n + (n % 2)
\* The segment at byte p and where the next one starts; nothing when the bytes do not reach.
SegRead(b, p) ==
    LET at(from, n) == SubSeq(b, from, from + n - 1)
        logical == {<<k, w>> \in (DOMAIN Code) \X (0..2) : b[p] = Code[k] + w}
        size(w) == IF w = 0 THEN 2 ELSE 2 + 2^w
    IN  IF b[p] = SymbolCode
        THEN [seg |-> Seg("Symbol", at(p + 2, b[p + 1])), next |-> p + Even(2 + b[p + 1])]
        ELSE IF b[p] > 16 /\ b[p] < 31
        THEN [seg |-> Seg("Port", [port |-> b[p] - 16, link |-> at(p + 2, b[p + 1])]), next |-> p + Even(2 + b[p + 1])]
        ELSE IF b[p] < 15 THEN [seg |-> Seg("Port", [port |-> b[p], link |-> at(p + 1, 1)]), next |-> p + 2]
        ELSE LET kw == CHOOSE kw \in logical : TRUE
             IN  [seg |-> Seg(kw[1], IF kw[2] = 0 THEN b[p + 1] ELSE WireNumber(at(p + 2, 2^kw[2]))), next |-> p + size(kw[2])]
PathRead(b) ==
    LET read[p \in 1..(Len(b) + 1)] ==
            IF p > Len(b) THEN <<>> ELSE LET s == SegRead(b, p) IN <<s.seg>> \o read[s.next]
    IN  read[1]
RequestRead(b) == LET words == b[2] IN [service |-> b[1], path |-> PathRead(SubSeq(b, 3, 2 + 2 * words)),
                                        data |-> SubSeq(b, 3 + 2 * words, Len(b))]

\* A request that is sent reaches the router as the segments and the data it was built from; one that is
\* refused could not be written down.
RequestExact(service, path, data) ==
    LET r == RequestEncode(service, path, data)
    IN  IF r.ok THEN RequestRead(r.bytes) = [service |-> service, path |-> path, data |-> data]
        ELSE \/ \E i \in 1..Len(path) : ~Encodable(path[i])
             \/ Len(FlattenSeq([i \in 1..Len(path) |-> SegEncode(path[i])])) > 2 * MaxPathWords

(***************************************************************************)
(* Tag paths.  A character is "a" (a letter), "1" (a digit) or one of the  *)
(* separators; what a digit run counts is its length.                      *)
(***************************************************************************)
MaxIndex == 3   \* u32::MAX in the code: a larger index is a NumberOverflow
Separators == {".", "[", "]", ","}
Split(s, c) == LET cut == <<0>> \o SetToSortSeq({i \in 1..Len(s) : s[i] = c}, <) \o <<Len(s) + 1>>
               IN  [k \in 1..(Len(cut) - 1) |-> SubSeq(s, cut[k] + 1, cut[k + 1] - 1)]

NoSegs == [ok |-> FALSE, segs |-> <<>>]
Segs(s) == [ok |-> TRUE, segs |-> s]
Join(parts) == IF \E i \in 1..Len(parts) : ~parts[i].ok THEN NoSegs
               ELSE Segs(FlattenSeq([i \in 1..Len(parts) |-> parts[i].segs]))

parse_index(s) == IF s = <<>> \/ (\E i \in 1..Len(s) : s[i] # "1") \/ Len(s) > MaxIndex THEN NoSegs
                  ELSE Segs(<<Seg("Element", Len(s))>>)
validate_name(s) == /\ Len(s) \in 1..MaxName
                    /\ s[1] = "a"
                    /\ \A i \in 1..Len(s) : s[i] \in {"a", "1"}
parse_index_group(s) ==
    IF s[Len(s)] # "]" \/ Len(s) < 3 THEN NoSegs
    ELSE LET inner == Split(SubSeq(s, 2, Len(s) - 1), ",") IN Join([i \in 1..Len(inner) |-> parse_index(inner[i])])
parse_component(s) ==
    IF s = <<>> THEN NoSegs
    ELSE IF s[1] = "1" THEN parse_index(s)
    ELSE LET open == {i \in 1..Len(s) : s[i] = "["}
             cut == IF open = {} THEN Len(s) + 1 ELSE CHOOSE i \in open : \A j \in open : i <= j
             name == SubSeq(s, 1, cut - 1)
         IN  IF ~validate_name(name) THEN NoSegs
             ELSE IF open = {} THEN Segs(<<Seg("Symbol", name)>>)
             ELSE Join(<<Segs(<<Seg("Symbol", name)>>), parse_index_group(SubSeq(s, cut, Len(s)))>>)
\* TagAddress::parse
parse(s) == IF s = <<>> THEN NoSegs
            ELSE LET parts == Split(s, ".") IN Join([i \in 1..Len(parts) |-> parse_component(parts[i])])

\* The words of a text, between its separators.
Words(s) == LET starts == {i \in 1..Len(s) : s[i] \notin Separators /\ (i = 1 \/ s[i - 1] \in Separators)}
                end(i) == CHOOSE j \in i..Len(s) : /\ \A k \in i..j : s[k] \notin Separators
                                                  /\ (j = Len(s) \/ s[j + 1] \in Separators)
                seq == SetToSortSeq(starts, <)
            IN  [k \in 1..Len(seq) |-> SubSeq(s, seq[k], end(seq[k]))]
\* The way a text's separators may follow each other, with the brackets closed.
WellFormed(s) ==
    LET ok == {<<"w", "w">>, <<"w", ".">>, <<"w", "[">>, <<"w", "]">>, <<"w", ",">>, <<".", "w">>, <<"[", "w">>,
               <<",", "w">>, <<"]", ".">>}
        class(c) == IF c \in Separators THEN c ELSE "w"
        inside(i) == Cardinality({j \in 1..i : s[j] = "["}) - Cardinality({j \in 1..i : s[j] = "]"})
    IN  /\ s # <<>> /\ class(s[1]) = "w" /\ s[Len(s)] \in {"a", "1", "]"}
        /\ \A i \in 1..(Len(s) - 1) : <<class(s[i]), class(s[i + 1])>> \in ok
        /\ \A i \in 1..Len(s) : /\ inside(i) \in 0..1 /\ (s[i] = "." => inside(i) = 0) /\ (s[i] = "," => inside(i) = 1)
        /\ inside(Len(s)) = 0

\* A tag path is accepted exactly when it is a list of names and numbers with an index behind a name
\* only, each no longer than it may be, and then every word of it is one segment, in order: nothing the
\* operator wrote is dropped.
TagExact(s) ==
    LET p == parse(s)
        words == Words(s)
        digits(w) == \A i \in 1..Len(w) : w[i] = "1"
        before(i) == Cardinality({j \in 1..i : s[j] = "["})
        segment(w) == IF digits(w) THEN Seg("Element", Len(w)) ELSE Seg("Symbol", w)
    IN  /\ p.ok => /\ WellFormed(s) /\ \A k \in 1..Len(words) : Len(words[k]) <= (IF digits(words[k]) THEN MaxIndex ELSE MaxName)
                   /\ p.segs = [k \in 1..Len(words) |-> segment(words[k])]
        /\ ~p.ok => \/ ~WellFormed(s)
                    \/ \E k \in 1..Len(words) : digits(words[k]) /\ Len(words[k]) > MaxIndex
                    \/ \E k \in 1..Len(words) : ~digits(words[k]) /\ (words[k][1] = "1" \/ Len(words[k]) > MaxName)
                    \/ \E i \in 1..Len(s) : s[i] = "[" /\ \E j \in 1..i : s[j] = "1" /\ \A k \in j..(i - 1) : s[k] = "1"
                                            /\ (j = 1 \/ s[j - 1] = ".")
                    \/ \E i \in 1..Len(s) : s[i] = "a" /\ before(i) > Cardinality({j \in 1..i : s[j] = "]"})
=============================================================================
