------------------------------ MODULE Messages ------------------------------
(***************************************************************************)
(* The messages of the encapsulation layer: the Common Packet Format of a  *)
(* frame's data (cpf.rs) and the Message Router reply inside it            *)
(* (message.rs).  A cell stands for one field or one byte; a list of bytes *)
(* decodes to at most one message, a set.                                  *)
(***************************************************************************)
EXTENDS EPath

\* ItemType, the four of an explicit message.
NullAddress == 0
UnconnectedData == 1
ConnectedAddress == 2
ConnectedData == 3

ItemCells(item) == <<item.type, Len(item.data)>> \o item.data
CpfEncode(items) == <<Len(items)>> \o LET at[i \in 0..Len(items)] == IF i = 0 THEN <<>> ELSE at[i - 1] \o ItemCells(items[i])
                                      IN  at[Len(items)]

\* Cpf::decode_from: the items of b, each inside it, and how many cells they take.
CpfItems(b) ==
    LET take[n \in 0..Len(b), p \in 1..(Len(b) + 1)] ==
            IF n = 0 THEN {[items |-> <<>>, end |-> p]}
            ELSE IF p >= Len(b) \/ p + 1 + b[p + 1] > Len(b) THEN {}
            ELSE {[more EXCEPT !.items = <<[type |-> b[p], data |-> SubSeq(b, p + 2, p + 1 + b[p + 1])]>> \o @] :
                      more \in take[n - 1, p + 2 + b[p + 1]]}
    IN  IF b = <<>> \/ b[1] > Len(b) THEN {} ELSE take[b[1], 2]
\* Cpf::decode: nothing may follow the last item.
CpfDecode(b) == {d.items : d \in {d \in CpfItems(b) : d.end = Len(b) + 1}}

\* Cpf::find: the first of its type, wherever it is.
find(items, type) == LET of == {i \in 1..Len(items) : items[i].type = type}
                     IN  {items[i].data : i \in {i \in of : \A j \in of : i <= j}}
\* expect_explicit_data: an address and the data of one addressing model, and nothing else.
expect_explicit_data(items) ==
    IF Len(items) = 2 /\ <<items[1].type, items[2].type>> \in {<<NullAddress, UnconnectedData>>, <<ConnectedAddress, ConnectedData>>}
    THEN {items[2].data} ELSE {}

\* MessageReply::decode: service, a reserved byte, status, the count of extended words, the words, data.
ReplyDecode(b) == IF Len(b) < 4 \/ Len(b) < 4 + b[4] THEN {}
                  ELSE {[service |-> b[1], status |-> b[3], ext |-> SubSeq(b, 5, 4 + b[4]), data |-> SubSeq(b, 5 + b[4], Len(b))]}
ReplyBit == 128
expect_service(reply, service) == reply.service = service + ReplyBit

(***************************************************************************)
(* What a client takes from a target's answer.                             *)
(***************************************************************************)
ReplyCells(service, status, ext, data) == <<service + ReplyBit, 0, status, Len(ext)>> \o ext \o data
Answer(pair, service, status, ext, data) ==
    CpfEncode(<<[type |-> pair[1], data |-> <<>>], [type |-> pair[2], data |-> ReplyCells(service, status, ext, data)]>>)
\* The replies a client reads from a frame's data.
ReadAnswer(b) == UNION {ReplyDecode(d) : d \in UNION {expect_explicit_data(items) : items \in CpfDecode(b)}}

Explicit == {<<NullAddress, UnconnectedData>>, <<ConnectedAddress, ConnectedData>>}
\* An answer of one of the two shapes is read as the target wrote it, its data and its extended status
\* kept whatever the status is; cut short, or with something behind it, it is refused and never taken
\* for another answer; so is every other pairing of items.
AnswerExact(pair, service, status, ext, data) ==
    LET b == Answer(pair, service, status, ext, data)
        whole == [service |-> service + ReplyBit, status |-> status, ext |-> ext, data |-> data]
    IN  /\ ReadAnswer(b) = IF pair \in Explicit THEN {whole} ELSE {}
        /\ \A k \in 0..(Len(b) - 1) : ReadAnswer(SubSeq(b, 1, k)) = {}
        /\ \A c \in {0, 1} : ReadAnswer(Append(b, c)) = {}
        /\ \A s \in 0..2 : expect_service(whole, s) <=> s = service
        /\ \A items \in CpfDecode(b) : find(items, pair[2]) # {}
\* What any list of cells decodes to is what encodes to it.
CpfCanonical(b) == \A items \in CpfDecode(b) : CpfEncode(items) = b
(***************************************************************************)
(* The Connection Manager's messages (cm.rs): a ForwardOpen, its reply and *)
(* the ForwardClose that names the same connection.  A 32-bit field takes  *)
(* two cells, low half first; a refused encoding is the empty set.         *)
(***************************************************************************)
U32(v) == Bytes(v, 2)
FORWARD_OPEN == 84
LARGE_FORWARD_OPEN == 91

\* class3: a fixed pair of parameters, never large; class1: no O->T id, the target picks it.
class3(o_t, t_o, triple, path, rpi, code) ==
    [o_t |-> o_t, t_o |-> t_o, triple |-> triple, code |-> code, o_t_rpi |-> rpi, o_t_params |-> 2, t_o_rpi |-> rpi, t_o_params |-> 2,
     trigger |-> 3, path |-> path, large |-> FALSE]
class1(t_o, triple, code, o_t_rpi, o_t_params, t_o_rpi, t_o_params, path, large) ==
    [o_t |-> 0, t_o |-> t_o, triple |-> triple, code |-> code, o_t_rpi |-> o_t_rpi, o_t_params |-> o_t_params, t_o_rpi |-> t_o_rpi,
     t_o_params |-> t_o_params, trigger |-> 1, path |-> path, large |-> large]

OpenService(open) == IF open.large THEN LARGE_FORWARD_OPEN ELSE FORWARD_OPEN
Triple(t) == <<t.serial, t.vendor>> \o U32(t.originator)
write_params(open, p) == IF open.large THEN U32(p) ELSE <<p>>

OpenEncode(open) ==
    LET path == PathEncode(open.path)
    IN  IF ~path.ok \/ (~open.large /\ (open.o_t_params >= Base \/ open.t_o_params >= Base)) THEN {}
        ELSE {<<10, 14>> \o U32(open.o_t) \o U32(open.t_o) \o Triple(open.triple) \o <<open.code, 0, 0, 0>>
                  \o U32(open.o_t_rpi) \o write_params(open, open.o_t_params)
                  \o U32(open.t_o_rpi) \o write_params(open, open.t_o_params)
                  \o <<open.trigger, Len(path.bytes) \div 2>> \o path.bytes}
\* for_open and its encode: the triple and the path of the open, and a reserved byte of its own.
CloseEncode(open) == LET path == PathEncode(open.path)
                     IN  IF ~path.ok THEN {}
                         ELSE {<<10, 14>> \o Triple(open.triple) \o <<Len(path.bytes) \div 2, 0>> \o path.bytes}

At32(b, p) == b[p] + Base * b[p + 1]
TripleAt(b, p) == [serial |-> b[p], vendor |-> b[p + 1], originator |-> At32(b, p + 2)]
\* The target's reading of both; the service tells the width of the parameters.
OpenRead(service, b) ==
    LET wide == service = LARGE_FORWARD_OPEN
        params(p) == IF wide THEN At32(b, p) ELSE b[p]
        second == IF wide THEN 19 ELSE 18
        tail == second + 2 + (IF wide THEN 2 ELSE 1)
    IN  [o_t |-> At32(b, 3), t_o |-> At32(b, 5), triple |-> TripleAt(b, 7), code |-> b[11], o_t_rpi |-> At32(b, 15),
         o_t_params |-> params(17), t_o_rpi |-> At32(b, second), t_o_params |-> params(second + 2), trigger |-> b[tail],
         path |-> PathRead(SubSeq(b, tail + 2, tail + 1 + 2 * b[tail + 1])), large |-> wide]
CloseRead(b) == [triple |-> TripleAt(b, 3), path |-> PathRead(SubSeq(b, 9, 8 + 2 * b[7]))]

\* ForwardOpenSuccess::decode and ForwardRequestFail::decode
SuccessDecode(b) == IF Len(b) < 14 \/ Len(b) < 14 + 2 * b[13] THEN {}
                    ELSE {[o_t |-> At32(b, 1), t_o |-> At32(b, 3), triple |-> TripleAt(b, 5), apis |-> <<At32(b, 9), At32(b, 11)>>]}
FailDecode(b) == IF Len(b) < 4 THEN {} ELSE {[triple |-> TripleAt(b, 1), remaining |-> SubSeq(b, 5, IF Len(b) > 4 THEN 5 ELSE 4)]}

\* What the target builds of a request it read.
SuccessCells(read, o_t) == U32(o_t) \o U32(read.t_o) \o Triple(read.triple) \o U32(read.o_t_rpi) \o U32(read.t_o_rpi) \o <<0, 0>>
FailCells(read, remaining) == Triple(read.triple) \o remaining

\* The target reads the connection that was asked for; its answer, accepted or refused, is taken for the
\* answer to this request; and the close names the connection the target has under this triple.
OpenExact(open) ==
    \A b \in OpenEncode(open) :
        LET read == OpenRead(OpenService(open), b)
        IN  /\ read = open
            /\ \A reply \in SuccessDecode(SuccessCells(read, 9)) :
                   reply.t_o = open.t_o /\ reply.triple = open.triple /\ reply.o_t = 9 /\ reply.apis = <<open.o_t_rpi, open.t_o_rpi>>
            /\ SuccessDecode(SuccessCells(read, 9)) # {}
            /\ \A left \in {<<>>, <<1>>, <<1, 0>>} :
                   FailDecode(FailCells(read, left)) = {[triple |-> open.triple, remaining |-> IF left = <<>> THEN <<>> ELSE <<1>>]}
            /\ \A c \in CloseEncode(open) : CloseRead(c) = [triple |-> read.triple, path |-> read.path]
            /\ CloseEncode(open) # {}
=============================================================================
