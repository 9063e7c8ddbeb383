------------------------------ MODULE Framing ------------------------------
(***************************************************************************)
(* The encapsulation layer's byte stream (encap/codec.rs, encap/mod.rs     *)
(* and its framed reader): the frames a peer sends, cut by TCP wherever it *)
(* likes, through the codec to the frames the session sees.  A cell stands *)
(* for a field or a byte; a header is its command and its length.          *)
(***************************************************************************)
EXTENDS Integers, Sequences, FiniteSets
LOCAL INSTANCE SequencesExt

CONSTANTS MaxData,      \* MAX_DATA_LEN
          Contents      \* the data portions the peer may send

Header == 2             \* HEADER_LEN
Nop == 0                \* Command::Nop

VARIABLES
    sent,       \* the frames the peer writes, [command, data]
    rest,       \* the cells of theirs still on the way
    given,      \* how many cells have arrived
    buf,        \* the reader's buffer
    mode,       \* the reader: "reading", "framing", "eof", "closed"
    closed,     \* the peer has closed its side
    out,        \* the frames the session got
    end         \* how the stream ended: "open", "eof", "lost", "malformed"
fvars == <<sent, rest, given, buf, mode, closed, out, end>>

\* EncapFrame::encode: the length is taken from the data; a frame above the cap is another program's.
FrameCells(f) == <<f.command, Len(f.data)>> \o f.data
Cells(frames) == FlattenSeq([i \in 1..Len(frames) |-> FrameCells(frames[i])])

Frames == [command : {Nop, 1}, data : Contents]

FramingInit == /\ sent \in UNION {[1..n -> Frames] : n \in 0..2} \cup [1..3 -> {f \in Frames : Len(f.data) <= 1}]
               /\ rest = Cells(sent) /\ given = 0 /\ buf = <<>> /\ mode = "reading" /\ closed = FALSE /\ out = <<>> /\ end = "open"

(***************************************************************************)
(* EncapCodec::decode of a buffer: what it finds behind the NOP frames,    *)
(* and the buffer it leaves.                                               *)
(***************************************************************************)
HasHeader(b) == Len(b) >= Header
TooLong(b) == HasHeader(b) /\ b[2] > MaxData
Whole(b) == HasHeader(b) /\ Len(b) >= Header + b[2]
FirstFrame(b) == [command |-> b[1], data |-> SubSeq(b, Header + 1, Header + b[2])]
Drop(b) == SubSeq(b, Header + b[2] + 1, Len(b))

\* The buffer behind the NOPs at its front.
SkipNops(b) == LET skip[p \in 0..Len(b)] ==
                       LET r == SubSeq(b, p + 1, Len(b))
                       IN  IF ~TooLong(r) /\ Whole(r) /\ r[1] = Nop THEN skip[p + Header + r[2]] ELSE r
               IN  skip[0]

\* Variant: the length is not held against the cap before the data is waited for.
decode_uncapped(b) ==
    LET r == SkipNops(b)
    IN  IF Whole(r) THEN [found |-> "frame", frame |-> FirstFrame(r), left |-> Drop(r)]
        ELSE [found |-> "more", frame |-> <<>>, left |-> r]

decode(b) ==
    LET r == SkipNops(b)
    IN  IF TooLong(r) THEN [found |-> "error", frame |-> <<>>, left |-> r]
        ELSE IF Whole(r) THEN [found |-> "frame", frame |-> FirstFrame(r), left |-> Drop(r)]
        ELSE [found |-> "more", frame |-> <<>>, left |-> r]

(***************************************************************************)
(* The framed reader over it: it reads, decodes until the codec wants      *)
(* more, and at the end of the stream decodes what is left.                *)
(***************************************************************************)
\* A part of what is on the way arrives.
Arrive == /\ mode = "reading" /\ rest # <<>>
          /\ \E n \in 1..Len(rest) : /\ buf' = buf \o SubSeq(rest, 1, n)
                                     /\ rest' = SubSeq(rest, n + 1, Len(rest))
                                     /\ given' = given + n
          /\ mode' = "framing"
          /\ UNCHANGED <<sent, closed, out, end>>

\* The peer goes away; what it had not got out is lost.
PeerCloses == /\ ~closed /\ closed' = TRUE
              /\ \/ rest' = rest
                 \/ \E n \in 0..(Len(rest) - 1) : rest' = SubSeq(rest, 1, n)
              /\ UNCHANGED <<sent, given, buf, mode, out, end>>

EndOfStream == /\ mode = "reading" /\ closed /\ rest = <<>>
               /\ mode' = "eof"
               /\ UNCHANGED <<sent, rest, given, buf, closed, out, end>>

Found(d) == d.found = "frame" /\ out' = Append(out, d.frame) /\ buf' = d.left /\ UNCHANGED <<mode, end>>
Broken(d) == d.found = "error" /\ mode' = "closed" /\ end' = "malformed" /\ buf' = d.left /\ UNCHANGED out

Decode == /\ mode = "framing"
          /\ LET d == decode(buf)
             IN  \/ Found(d)
                 \/ Broken(d)
                 \/ d.found = "more" /\ mode' = "reading" /\ buf' = d.left /\ UNCHANGED <<out, end>>
          /\ UNCHANGED <<sent, rest, given, closed>>

\* decode_eof: a rest that cannot become a frame is a lost connection.
DecodeEof == /\ mode = "eof"
             /\ LET d == decode(buf)
                IN  \/ Found(d)
                    \/ Broken(d)
                    \/ /\ d.found = "more" /\ mode' = "closed" /\ buf' = d.left
                       /\ end' = IF d.left = <<>> THEN "eof" ELSE "lost"
                       /\ UNCHANGED out
             /\ UNCHANGED <<sent, rest, given, closed>>

FramingNext == Arrive \/ PeerCloses \/ EndOfStream \/ Decode \/ DecodeEof

(***************************************************************************)
(* Properties.                                                             *)
(***************************************************************************)
Bad == {i \in 1..Len(sent) : Len(sent[i].data) > MaxData}
UpTo(i) == Len(Cells(SubSeq(sent, 1, i)))
\* The frames of which every cell has arrived, by the sender's own boundaries, before the first one that
\* is above the cap.
Complete == {i \in 1..Len(sent) : UpTo(i) <= given /\ \A j \in Bad : i < j}
Due == SelectSeq(SubSeq(sent, 1, Cardinality(Complete)), LAMBDA f : f.command # Nop)

\* However TCP cuts the stream, the session sees the peer's frames in order, each once and whole, and no
\* filler; a reader that waits has kept nothing complete back and never holds more than one frame; and
\* the end is named for what it was: clean at a frame's boundary, lost within one (EncapCodec).
FramesWhole ==
    /\ IsPrefix(out, Due)
    /\ mode = "reading" => out = Due /\ Len(buf) < Header + MaxData
    /\ mode = "closed" => /\ out = Due
                          /\ end = "malformed" => Bad # {}
                          /\ end = "eof" <=> given = UpTo(Cardinality(Complete))
=============================================================================
