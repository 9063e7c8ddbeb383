---------------------------- MODULE PollSession ----------------------------
(***************************************************************************)
(* The poll backend's session (eip/session.rs over logix.rs): reads,       *)
(* writes and tag-list pages against one device, request by request.  A    *)
(* BOOL array may be stored one element per byte or packed in words; the   *)
(* session learns which from the replies and asks for the next read        *)
(* accordingly.  A value that does not fit in one reply is read, and one   *)
(* that does not fit in one request is written, in fragments; between two  *)
(* of them the device runs on.                                             *)
(*                                                                         *)
(* A payload is a sequence of units: one unit is an element of a BOOL      *)
(* array or a bit of a packed word, so a BOOL is one unit long and a word  *)
(* W units (32 in the code, where an element is 1 or 4 bytes).             *)
(***************************************************************************)
EXTENDS Integers, Sequences, FiniteSets, SequencesExt

CONSTANTS
    W,           \* BOOLS_PER_DWORD
    Bits,        \* the number of booleans of the device's tag
    Counts,      \* the arrayCounts configured for it
    Cap,         \* max_value_bytes, in units
    Usable,      \* the elements a single Write Tag request can carry
    Chunk,       \* the elements of a fragment of a write
    Instances,   \* the symbol instance ids, 0 .. 2^32 - 1 in the code
    MaxFaults,   \* bound: replies that break the rules, errors and time-outs
    MaxOps,      \* bound: operations
    MaxChanges   \* bound: changes of the device

VARIABLES
    device,     \* its storage, denomination, bits, symbols and what it refuses
    observed,   \* EipSession.observed for the tag: the type last declared
    op,         \* the operation under way
    res,        \* the outcome of the last one
    bad,        \* history: BAD readings of arrays in a row since the device last changed
    held,       \* history: per bit, the values it had while the operation was under way
    walk,       \* history: a caller's walk over the tag list
    link,       \* "up", or "ended" by an error that poisons the session
    faults, ops, changes

vars == <<device, observed, op, res, bad, held, walk, link, faults, ops, changes>>

Top == CHOOSE i \in Instances : \A j \in Instances : j <= i
NoType == "none"
NoOp == [kind |-> "none"]
NoCursor == -1

(***************************************************************************)
(* types.rs and cip/types.rs: sizes, decoding, unpacking.                  *)
(***************************************************************************)
element_size(ty) == IF ty = "DWORD" THEN W ELSE 1

packed_dword_count(n) == (n + W - 1) \div W

\* CipValue::decode: the number of elements comes from the length; no element, or part of one, is
\* an error.
Decodable(ty, units) == Len(units) > 0 /\ Len(units) % element_size(ty) = 0
Elements(ty, units) == Len(units) \div element_size(ty)

Bad == [quality |-> "bad"]
\* The published value: the booleans, or the bare one when there is one.
Good(units, n) == [quality |-> "good", n |-> n, shape |-> IF n = 1 THEN "scalar" ELSE "array",
                   value |-> SubSeq(units, 1, n)]

is_bool_array(o) == o.array

\* unpack_bools: exactly as many words as n booleans need; the padding is dropped.
unpack_bools(units, n) ==
    IF Elements("DWORD", units) # packed_dword_count(n) THEN Bad ELSE Good(units, n)

decode_reading(o, ty, units) ==
    IF is_bool_array(o) /\ ty = "DWORD" THEN unpack_bools(units, o.n)
    ELSE IF ty # "BOOL" \/ Len(units) # o.n THEN Bad
    ELSE Good(units, o.n)

(***************************************************************************)
(* The device.  A packed tag's element count may be denominated in         *)
(* booleans or in words; a count past the end of the tag is an error.      *)
(***************************************************************************)
Units(from, to) == [i \in 1..(to - from) |-> device.bits[from + i - 1]]
Words(n) == IF device.denom = "bools" THEN packed_dword_count(n) ELSE n
\* How many units a request for n elements asks for.
Wanted(n) == IF device.storage = "DWORD" THEN Words(n) * W ELSE n
Answers(n) == Wanted(n) <= Bits

(***************************************************************************)
(* Operations.  The session serves one at a time.                          *)
(***************************************************************************)
Free == link = "up" /\ op = NoOp
Holding == held' = [i \in 0..(Bits - 1) |-> {device.bits[i]}]
Fault == faults < MaxFaults /\ faults' = faults + 1
NoFault == UNCHANGED faults

Issue(o) == /\ Free /\ ops < MaxOps /\ ops' = ops + 1
            /\ op' = o /\ res' = [quality |-> "none"] /\ Holding
            /\ UNCHANGED <<device, observed, bad, walk, link, faults, changes>>

reads_packed(array) == array /\ observed = "DWORD"

\* read_one: first contact asks for the logical count, a tag seen packed for its words.
Read(array, n) ==
    /\ array \/ n = 1
    /\ Issue([kind |-> "read", array |-> array, n |-> n, fragment |-> FALSE, code |-> NoType,
              acc |-> <<>>, asked |-> IF reads_packed(array) THEN packed_dword_count(n) ELSE n])

\* An operation ends with an outcome and the session goes on, or with one that poisons it.
Finish(r) == op' = NoOp /\ res' = r /\ UNCHANGED link
Poison == op' = NoOp /\ res' = [quality |-> "error"] /\ link' = "ended"

\* The history of BAD readings of an array.
Row(o, r) == bad' = IF ~o.array THEN bad ELSE IF r.quality = "bad" THEN bad + 1 ELSE 0

\* Variant: only a good reading is remembered.
Observe_good(ty, r) == observed' = IF r.quality = "good" THEN ty ELSE observed
\* The declared type is remembered before anything is decided about the reading.
Observe(ty, r) == observed' = ty

\* A whole value has arrived.
Arrived(ty, units) ==
    IF ~Decodable(ty, units) THEN Poison /\ UNCHANGED <<observed, bad>>
    ELSE LET r == decode_reading(op, ty, units)
         IN  Finish(r) /\ Observe(ty, r) /\ Row(op, r)

Stays == UNCHANGED <<device, held, walk, ops, changes>>

\* read_tag: the reply of a device that keeps the rules ...
ReadReply ==
    /\ op.kind = "read" /\ ~op.fragment /\ Answers(op.asked)
    /\ Arrived(device.storage, Units(0, Wanted(op.asked)))
    /\ NoFault /\ Stays

\* ... of one that answers with another number of elements ...
ReadReplyOdd ==
    \E k \in 0..Bits :
        /\ op.kind = "read" /\ ~op.fragment /\ k # Wanted(op.asked)
        /\ Arrived(device.storage, Units(0, k))
        /\ Fault /\ Stays

\* ... or too much for one reply: fragments, from the start.
ReadPartial ==
    /\ op.kind = "read" /\ ~op.fragment /\ Answers(op.asked)
    /\ op' = [op EXCEPT !.fragment = TRUE]
    /\ UNCHANGED <<observed, bad, res, link>> /\ NoFault /\ Stays

\* read_tag_fragmented: one fragment of k units, whose type must be that of the first.
Fragment(k, more) ==
    LET units == Units(Len(op.acc), Len(op.acc) + k)
        acc == op.acc \o units
    IN  IF \/ op.code # NoType /\ op.code # device.storage
           \/ Len(acc) > Cap
           \/ more /\ k = 0
        THEN Poison /\ UNCHANGED <<observed, bad>>
        ELSE IF more
        THEN /\ op' = [op EXCEPT !.acc = acc, !.code = device.storage]
             /\ UNCHANGED <<observed, bad, res, link>>
        ELSE Arrived(device.storage, acc)

ReadFragment ==
    \E k \in 0..Bits, more \in BOOLEAN :
        /\ op.kind = "read" /\ op.fragment /\ Len(op.acc) + k <= Bits
        /\ IF k > 0 /\ Len(op.acc) + k <= Wanted(op.asked)
                    /\ more = (Len(op.acc) + k < Wanted(op.asked))
           THEN NoFault ELSE Fault
        /\ Fragment(k, more) /\ Stays

\* A CIP error status or an isolated time-out: a BAD reading, nothing observed.
ReadRefused ==
    /\ op.kind = "read"
    /\ Finish(Bad) /\ Row(op, Bad) /\ UNCHANGED observed
    /\ IF ~op.fragment /\ ~Answers(op.asked) THEN NoFault ELSE Fault
    /\ Stays

\* Any other error ends the session (map_enip_error).
LinkFails ==
    /\ op # NoOp /\ Fault /\ Poison
    /\ UNCHANGED <<device, observed, bad, held, walk, ops, changes>>

(***************************************************************************)
(* write_signal and write_tag.                                             *)
(***************************************************************************)
Write(n, v) ==
    /\ Issue([kind |-> "write", array |-> TRUE, n |-> n, value |-> v, sent |-> 0, applied |-> {}])
    /\ ~reads_packed(TRUE)

\* A tag seen packed is refused before any request.
WriteRefused(n) ==
    /\ Free /\ ops < MaxOps /\ ops' = ops + 1 /\ reads_packed(TRUE)
    /\ res' = [quality |-> "refused"]
    /\ UNCHANGED <<device, observed, op, bad, held, walk, link, faults, changes>>

Fragments(n) == n > Usable
ChunkEnd(o) == IF Fragments(o.n) /\ o.sent + Chunk < o.n THEN o.sent + Chunk ELSE o.n

Success(status) == status = "ok"

\* One request of the write: the device applies it, or answers with another status.
WriteReply(status) ==
    LET end == ChunkEnd(op)
        range == op.sent..(end - 1)
        applies == status = "ok"
    IN  /\ op.kind = "write"
        /\ applies => device.storage = "BOOL"
        /\ IF applies \/ device.storage # "BOOL" THEN NoFault ELSE Fault
        /\ device' = IF applies
                     THEN [device EXCEPT !.bits = [i \in DOMAIN @ |-> IF i \in range THEN op.value ELSE @[i]]]
                     ELSE device
        /\ LET done == [op EXCEPT !.sent = end, !.applied = IF applies THEN @ \cup range ELSE @]
           IN  IF ~Success(status) THEN Finish([quality |-> "rejected"])
               ELSE IF end < op.n THEN op' = done /\ UNCHANGED <<res, link>>
               ELSE Finish([quality |-> "written", n |-> op.n, applied |-> done.applied])
        /\ UNCHANGED <<observed, bad, held, walk, ops, changes>>

WriteTimesOut ==
    /\ op.kind = "write" /\ Fault /\ Finish([quality |-> "rejected"])
    /\ UNCHANGED <<device, observed, bad, held, walk, ops, changes>>

(***************************************************************************)
(* browse, list_tags and the caller that follows the cursor.               *)
(***************************************************************************)
Ascending(page) == \A i \in 1..(Len(page) - 1) : page[i] < page[i + 1]

\* list_tags: the resume point after a page, NoCursor when the enumeration ends.
Resume(page, more) == IF ~more \/ page = <<>> \/ Last(page) = Top THEN NoCursor ELSE Last(page) + 1

\* paginate_browse: a page cut to max resumes after the last record returned.
Cut(page, max) == IF Len(page) > max THEN SubSeq(page, 1, max) ELSE page
\* Variant: the device's own cursor is passed through.
CutCursor_device(page, more, max) == Resume(page, more)
CutCursor(page, more, max) ==
    IF Len(page) <= max THEN Resume(page, more)
    ELSE IF page[max] = Top THEN NoCursor ELSE page[max] + 1

\* The caller walks from the start, asking for at most max records of every page.
Browse(max) ==
    /\ ~walk.done
    /\ Issue([kind |-> "browse", array |-> FALSE, start |-> walk.cursor, max |-> max])

\* The records a page may list: strictly ascending sequences of symbols.
Pages == {page \in BoundedSeq(Instances, Cardinality(Instances)) : Ascending(page)}

Page(page, more) ==
    IF ~Ascending(page) \/ (Resume(page, more) # NoCursor /\ Resume(page, more) <= op.start)
    THEN Finish([quality |-> "failed"]) /\ UNCHANGED walk
    ELSE LET cut == Cut(page, op.max)
             cursor == CutCursor(page, more, op.max)
         IN  /\ Finish([quality |-> "page"])
             /\ walk' = [walk EXCEPT !.got = @ \o cut, !.done = cursor = NoCursor,
                                     !.cursor = IF cursor = NoCursor THEN @ ELSE cursor]

\* The device's next records from where it was asked to start, and whether more follow.
Complies(page, more) ==
    LET rest == {i \in device.symbols : i >= op.start}
    IN  /\ ToSet(page) \subseteq rest /\ (page = <<>> => rest = {})
        /\ \A i \in rest \ ToSet(page), j \in ToSet(page) : j < i
        /\ more = (ToSet(page) # rest)

BrowseReply ==
    /\ op.kind = "browse" /\ ~(device.startOnly /\ op.start > 0)
    /\ \E page \in Pages, more \in BOOLEAN : Complies(page, more) /\ Page(page, more)
    /\ NoFault /\ UNCHANGED <<device, observed, bad, held, ops, changes>>

\* A device that starts over, in order or backwards.
BrowseReplyOdd ==
    /\ op.kind = "browse" /\ op.start > 0 /\ device.symbols # {}
    /\ \E page \in Pages : /\ ToSet(page) = device.symbols
                           /\ Page(page, TRUE) \/ Page(Reverse(page), TRUE)
    /\ Fault /\ UNCHANGED <<device, observed, bad, held, ops, changes>>

\* An empty page that says more follow: there is no record to resume behind, and the walk ends.
BrowseReplyEmpty ==
    /\ op.kind = "browse"
    /\ Finish([quality |-> "page"]) /\ walk' = [walk EXCEPT !.done = TRUE, !.short = TRUE]
    /\ Fault /\ UNCHANGED <<device, observed, bad, held, ops, changes>>

\* 0x08: no such service at the start of the walk, a failed page afterwards.
BrowseRefused ==
    /\ op.kind = "browse" /\ device.startOnly /\ (op.start > 0 \/ device.symbols = {})
    /\ Finish([quality |-> IF op.start = 0 THEN "unsupported" ELSE "failed"])
    /\ NoFault /\ UNCHANGED <<device, observed, bad, held, walk, ops, changes>>

(***************************************************************************)
(* The device's program writes its bits, and it may be reprogrammed.       *)
(***************************************************************************)
Toggle(i) ==
    LET bits == [device.bits EXCEPT ![i] = ~@]
    IN  /\ link = "up" /\ changes < MaxChanges /\ changes' = changes + 1
        /\ device' = [device EXCEPT !.bits = bits]
        /\ held' = [held EXCEPT ![i] = @ \cup {bits[i]}]
        /\ UNCHANGED <<observed, op, res, bad, walk, link, faults, ops>>

Reprogram ==
    /\ link = "up" /\ changes < MaxChanges /\ changes' = changes + 1
    /\ device' = [device EXCEPT !.storage = IF @ = "BOOL" THEN "DWORD" ELSE "BOOL"]
    /\ bad' = 0
    /\ UNCHANGED <<observed, op, res, held, walk, link, faults, ops>>

(***************************************************************************)
(* The specification.                                                      *)
(***************************************************************************)
Init ==
    /\ device \in [storage : {"BOOL", "DWORD"}, denom : {"bools", "words"},
                   bits : {[i \in 0..(Bits - 1) |-> i % 2 = 0]},
                   symbols : {Instances, {}, Instances \ {0}}, startOnly : BOOLEAN]
    /\ observed = NoType /\ op = NoOp /\ res = [quality |-> "none"] /\ bad = 0
    /\ held = [i \in 0..(Bits - 1) |-> {}]
    /\ walk = [cursor |-> 0, got |-> <<>>, done |-> FALSE, short |-> FALSE]
    /\ link = "up" /\ faults = 0 /\ ops = 0 /\ changes = 0

Next ==
    \/ \E n \in Counts : \/ \E array \in BOOLEAN : Read(array, n)
                         \/ \E v \in BOOLEAN : Write(n, v)
                         \/ WriteRefused(n)
    \/ ReadReply \/ ReadReplyOdd \/ ReadPartial \/ ReadFragment \/ ReadRefused \/ LinkFails
    \/ \E s \in {"ok", "partial", "refused"} : WriteReply(s)
    \/ WriteTimesOut
    \/ \E max \in 1..2 : Browse(max)
    \/ BrowseReply \/ BrowseReplyOdd \/ BrowseReplyEmpty \/ BrowseRefused
    \/ \E i \in 0..(Bits - 1) : Toggle(i)
    \/ Reprogram

Spec == Init /\ [][Next]_vars

(***************************************************************************)
(* Properties.                                                             *)
(***************************************************************************)
\* A GOOD reading is the configured contract, whatever the device's storage, count and fragments
\* were (read_one, decode_reading): one bare boolean when one is configured and as many as
\* configured otherwise, each of them a value the tag's element had while the read was under way.
GoodIsWhole ==
    res.quality = "good" =>
        /\ Len(res.value) = res.n
        /\ res.shape = IF res.n = 1 THEN "scalar" ELSE "array"
        /\ \A i \in 1..Len(res.value) : res.value[i] \in held[i - 1]

\* A write is reported done only when the device applied every element of it (write_tag: every
\* fragment must be answered with status 0).
WrittenIsApplied == res.quality = "written" => res.applied = 0..(res.n - 1)

\* A walk of the tag list with any page sizes returns every symbol, from instance 0 to the end of
\* the instance space, in order and so each once unless the device starts over (list_tags,
\* paginate_browse).  A device that sends an empty page and says more follow cuts it short: what was
\* listed is the device's, and the caller is not told that it is not all.
WalkExact == walk.done => /\ ToSet(walk.got) \subseteq device.symbols
                          /\ ~walk.short => ToSet(walk.got) = device.symbols
                          /\ faults = 0 => Ascending(walk.got)

\* The device answers every configured count: that of first contact, and the learnt number of words with
\* as many words.  True of every tag stored one boolean per byte that is long enough; of a packed tag
\* of at most one word where counts are in booleans; and where they are in words, of a tag that is so
\* long that the first request, for n words, is within it.
CountsAnswered ==
    \A n \in Counts :
        /\ Answers(n)
        /\ device.storage = "DWORD" => Words(packed_dword_count(n)) = packed_dword_count(n)

\* A change of representation costs at most one reading (EipSession.observed): a device that answers
\* the counts is never read BAD twice in a row, whatever it was before.  Of the others
\* ConvergesEitherWay claims the same, and is refuted.
OneSampleAtMost == CountsAnswered /\ faults = 0 => bad <= 1

\* DESIGN.md, D-EIP-35: "asking for N converges either way [...] The cost of guessing wrong is one
\* sample, not a permanent failure."
ConvergesEitherWay == faults = 0 => bad <= 1

\* session.rs, module comment: a reply whose element count is not the configured one becomes a BAD
\* reading, and "a malformed reply must not bounce the link".
ReplyNeverBounces ==
    [][ReadReplyOdd => link' = "up"]_vars
=============================================================================
