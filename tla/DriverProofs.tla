---------------------------- MODULE DriverProofs ----------------------------
(***************************************************************************)
(* Proofs about the two drivers of a device, the poll loop and the consume *)
(* loop with its translator, for every set of values and readings, and     *)
(* every deadband, publish mode, window, interval, sample floor, channel   *)
(* depth and staleness threshold.                                          *)
(***************************************************************************)
EXTENDS Device, QueueTheorems

-----------------------------------------------------------------------------
(* The poll loop *)

\* The GOOD samples of a poll batch: LastGoodIs, LastGoodSmall and
\* LastGoodAppend for this instance.
LEMMA PollLastGood ==
    ASSUME NEW q, NEW e
    PROVE  Poll!Goods(q) = Goods(q) /\ Poll!LastGood(q, e) = LastGood(q, e)
BY DEF Poll!Goods, Poll!LastGood, Goods, LastGood

\* The last GOOD sample of a poll batch.
LEMMA PollLastGoodIs ==
    ASSUME NEW S, NEW q \in Seq(S), Poll!Goods(q) # {}
    PROVE  \E m \in Poll!Goods(q) : /\ \A j \in Poll!Goods(q) : j <= m
                                /\ \A e : Poll!LastGood(q, e) = q[m].value
BY LastGoodIs, PollLastGood

\* An empty poll batch, and one of one.
LEMMA PollLastGoodSmall ==
    ASSUME NEW e, NEW x
    PROVE  /\ Poll!Goods(<<>>) = {} /\ Poll!LastGood(<<>>, e) = e
           /\ x.quality = "GOOD" => Poll!LastGood(<<x>>, e) = x.value /\ Poll!Goods(<<x>>) # {}
           /\ x.quality # "GOOD" => Poll!LastGood(<<x>>, e) = e /\ Poll!Goods(<<x>>) = {}
<1>1. Poll!Goods(<<>>) = Goods(<<>>) /\ Poll!LastGood(<<>>, e) = LastGood(<<>>, e)  BY PollLastGood
<1>2. Poll!Goods(<<x>>) = Goods(<<x>>) /\ Poll!LastGood(<<x>>, e) = LastGood(<<x>>, e)  BY PollLastGood, Zenon
<1>3. /\ Goods(<<>>) = {} /\ LastGood(<<>>, e) = e
      /\ x.quality = "GOOD" => LastGood(<<x>>, e) = x.value /\ Goods(<<x>>) # {}
      /\ x.quality # "GOOD" => LastGood(<<x>>, e) = e /\ Goods(<<x>>) = {}
  BY LastGoodSmall
<1>4. QED  BY <1>1, <1>2, <1>3, Zenon

\* Buffering a sample in a poll batch.
LEMMA PollLastGoodAppend ==
    ASSUME NEW S, NEW q \in Seq(S), NEW x \in S, NEW e
    PROVE  /\ x.quality = "GOOD" =>
                 /\ Poll!Goods(Append(q, x)) = Poll!Goods(q) \cup {Len(q) + 1}
                 /\ Poll!LastGood(Append(q, x), e) = x.value
           /\ x.quality # "GOOD" =>
                 /\ Poll!Goods(Append(q, x)) = Poll!Goods(q)
                 /\ Poll!LastGood(Append(q, x), e) = Poll!LastGood(q, e)
<1> DEFINE a == Append(q, x)
<1>1. Poll!Goods(a) = Goods(a) /\ Poll!LastGood(a, e) = LastGood(a, e)  BY PollLastGood
<1>2. Poll!Goods(q) = Goods(q) /\ Poll!LastGood(q, e) = LastGood(q, e)  BY PollLastGood
<1>3. /\ x.quality = "GOOD" => Goods(a) = Goods(q) \cup {Len(q) + 1} /\ LastGood(a, e) = x.value
      /\ x.quality # "GOOD" => Goods(a) = Goods(q) /\ LastGood(a, e) = LastGood(q, e)
  BY LastGoodAppend
<1>4. QED  BY <1>1, <1>2, <1>3, Zenon

\* The loop's own flag and the shared one agree while a session is open; an
\* engine lives within a session, and one that has not met the signal has not
\* published it.
PollSessionPart ==
    /\ quiet = (up /\ hold)
    /\ ~up => st = None
    /\ (up /\ st = None) => sent = None

\* The open window: none without batching, nothing from before a pause, and
\* every GOOD sample carries a value.
PollWindowPart ==
    st # None =>
        /\ PollSettings.batch = 0 => st.buffer = <<>>
        /\ \A i \in 1..Len(st.buffer) :
              ~st.buffer[i].old /\ (st.buffer[i].quality = "GOOD" => st.buffer[i].value \in PollSettings.values)

\* Outside a pause the signal's staleness clock is not ahead of unpaused time.
PollClockPart == (st # None /\ ~hold /\ st.last_good # None) => st.last_good <= awake

PollInv ==
    /\ Poll!TypeOK /\ PollSessionPart /\ PollWindowPart /\ PollClockPart
    /\ Poll!BaselineIsPublished /\ Poll!WindowHasNoRepeats /\ Poll!PauseIsSilent

-----------------------------------------------------------------------------
(* What the engine's operations do to a signal's state *)

\* A signal the engine has not met starts empty.
LEMMA PollFreshState == Poll!DriverConstants => Poll!Fresh \in Poll!SignalState(Poll!Sample)
BY EmptySeq DEF Poll!DriverConstants, Poll!EngineConstants, Poll!Fresh, Poll!SignalState, Poll!Age

\* Reading a signal (entry(id).or_default(), then last_good).
LEMMA PollReadShape ==
    ASSUME Poll!DriverConstants, NEW x \in Poll!SignalState(Poll!Sample) \cup {None}, NEW r \in PollSettings.readings,
           NEW s, s = Poll!Read(x, r)
    PROVE  /\ s \in Poll!SignalState(Poll!Sample) /\ s # None
           /\ s.committed = IF x = None THEN None ELSE x.committed
           /\ s.pending = IF x = None THEN None ELSE x.pending
           /\ s.buffer = IF x = None THEN <<>> ELSE x.buffer
           /\ s.last_good = IF r.quality = "GOOD" THEN 0 ELSE IF x = None THEN None ELSE x.last_good
<1> DEFINE t == Poll!Tracked(x)
<1>1. /\ t \in Poll!SignalState(Poll!Sample)
      /\ t.committed = IF x = None THEN None ELSE x.committed
      /\ t.pending = IF x = None THEN None ELSE x.pending
      /\ t.buffer = IF x = None THEN <<>> ELSE x.buffer
      /\ t.last_good = IF x = None THEN None ELSE x.last_good
  BY PollFreshState DEF Poll!Tracked, Poll!Fresh
<1>2. s = [t EXCEPT !.last_good = IF r.quality = "GOOD" THEN 0 ELSE @]
  BY DEF Poll!Read
<1> HIDE DEF t
<1>3. s \in Poll!SignalState(Poll!Sample)
  BY <1>1, <1>2 DEF Poll!DriverConstants, Poll!EngineConstants, Poll!SignalState, Poll!Age
<1>4. QED
  BY <1>1, <1>2, <1>3 DEF Poll!DriverConstants, Poll!SignalState

\* A gated-in GOOD value is pending.
LEMMA PollAdmitShape ==
    ASSUME Poll!DriverConstants, NEW x \in Poll!SignalState(Poll!Sample), NEW r \in PollSettings.readings,
           NEW s, s = Poll!Admit(x, r)
    PROVE  /\ s \in Poll!SignalState(Poll!Sample) /\ s.committed = x.committed
           /\ s.pending = (IF r.quality = "GOOD" THEN r.value ELSE x.pending)
           /\ s.buffer = x.buffer /\ s.last_good = x.last_good
BY DEF Poll!DriverConstants, Poll!SignalState, Poll!Admit

\* Batcher::add.
LEMMA PollBufferShape ==
    ASSUME Poll!DriverConstants, NEW x \in Poll!SignalState(Poll!Sample), NEW m \in Poll!Sample,
           NEW s, s = Poll!Buffer(x, m)
    PROVE  /\ s \in Poll!SignalState(Poll!Sample) /\ s.committed = x.committed /\ s.pending = x.pending
           /\ s.buffer = Append(x.buffer, m) /\ s.last_good = x.last_good
<1>1. x.buffer \in Seq(Poll!Sample) /\ Append(x.buffer, m) \in Seq(Poll!Sample)
  BY AppendProperties DEF Poll!SignalState
<1> DEFINE b == Append(x.buffer, m)
           w == IF x.window = None THEN 0 ELSE x.window
<1>2. s = [x EXCEPT !.buffer = b, !.window = w] /\ w \in Poll!Age(PollSettings.batch)
  BY DEF Poll!Buffer, Poll!DriverConstants, Poll!EngineConstants, Poll!SignalState, Poll!Age
<1> HIDE DEF b, w
<1>3. b \in Seq(Poll!Sample)  BY <1>1 DEF b
<1>4. s \in Poll!SignalState(Poll!Sample) /\ s.committed = x.committed /\ s.pending = x.pending
           /\ s.buffer = b /\ s.last_good = x.last_good
  BY <1>2, <1>3 DEF Poll!SignalState
<1>5. QED  BY <1>4 DEF b

\* Taking a due window.
LEMMA PollDrainedShape ==
    ASSUME Poll!DriverConstants, NEW x \in Poll!SignalState(Poll!Sample), NEW s, s = Poll!Drained(x)
    PROVE  /\ s \in Poll!SignalState(Poll!Sample) /\ s.committed = x.committed /\ s.pending = x.pending
           /\ s.buffer = <<>> /\ s.last_good = x.last_good
BY EmptySeq DEF Poll!SignalState, Poll!Drained, Poll!Age

\* settle after the facade answered.
LEMMA PollSettleShape ==
    ASSUME Poll!DriverConstants, NEW x \in Poll!SignalState(Poll!Sample), NEW published \in BOOLEAN,
           NEW s, s = Poll!settle(x, published)
    PROVE  /\ s \in Poll!SignalState(Poll!Sample)
           /\ s.committed = (IF published /\ x.pending # None THEN x.pending ELSE x.committed)
           /\ s.pending = None
           /\ s.buffer = x.buffer /\ s.last_good = x.last_good
BY DEF Poll!SignalState, Poll!settle

\* What a pause leaves of a signal's state.
LEMMA PollDiscardShape ==
    ASSUME Poll!DriverConstants, NEW x \in Poll!SignalState(Poll!Sample), NEW s, s = Poll!discard_open_batches(x)
    PROVE  /\ s \in Poll!SignalState(Poll!Sample) /\ s # None /\ s.committed = x.committed
           /\ s.pending = (IF x.buffer # <<>> THEN None ELSE x.pending)
           /\ s.buffer = <<>> /\ s.last_good = x.last_good
<1>1. x # None  BY DEF Poll!DriverConstants
<1> DEFINE d == Poll!Drained(x)
<1>2. s = [d EXCEPT !.pending = IF x.buffer # <<>> THEN None ELSE @]  BY <1>1 DEF Poll!discard_open_batches
<1>3. /\ d \in Poll!SignalState(Poll!Sample) /\ d.committed = x.committed /\ d.pending = x.pending
      /\ d.buffer = <<>> /\ d.last_good = x.last_good
  BY PollDrainedShape
<1> HIDE DEF d
<1>4. s \in Poll!SignalState(Poll!Sample)  BY <1>2, <1>3 DEF Poll!SignalState
<1>5. QED  BY <1>2, <1>3, <1>4 DEF Poll!DriverConstants, Poll!SignalState

\* An age that the clock advances.
LEMMA PollOlderAge ==
    ASSUME NEW top \in Nat, None \notin Int, NEW a \in Poll!Age(top)
    PROVE  /\ Poll!Older(a, top) \in Poll!Age(top) /\ (Poll!Older(a, top) = None <=> a = None)
           /\ a # None => a \in 0..top /\ Poll!Older(a, top) \in 0..top
           /\ \A b \in 0..top : a # None /\ a <= b => Poll!Older(a, top) <= Poll!Older(b, top)
BY DEF Poll!Older, Poll!Age

\* A tick of the clock.
LEMMA PollAgedShape ==
    ASSUME Poll!DriverConstants, NEW x \in Poll!SignalState(Poll!Sample), NEW s, s = Poll!Aged(x)
    PROVE  /\ s \in Poll!SignalState(Poll!Sample) /\ s # None /\ s.committed = x.committed
           /\ s.pending = x.pending /\ s.buffer = x.buffer
           /\ s.last_good = Poll!Older(x.last_good, PollSettings.stale)
<1>1. x # None /\ x.last_good \in Poll!Age(PollSettings.stale)
      /\ x.last_eligible \in Poll!Age(PollSettings.floor) /\ x.window \in Poll!Age(PollSettings.batch)
  BY DEF Poll!DriverConstants, Poll!SignalState
<1> DEFINE g == Poll!Older(x.last_good, PollSettings.stale)
           l == Poll!Older(x.last_eligible, PollSettings.floor)
           w == Poll!Older(x.window, PollSettings.batch)
<1>2. g \in Poll!Age(PollSettings.stale) /\ l \in Poll!Age(PollSettings.floor) /\ w \in Poll!Age(PollSettings.batch)
  BY <1>1, PollOlderAge DEF Poll!DriverConstants, Poll!EngineConstants
<1>3. s = [x EXCEPT !.last_good = g, !.last_eligible = l, !.window = w]
  BY <1>1 DEF Poll!Aged
<1> HIDE DEF g, l, w
<1>4. s \in Poll!SignalState(Poll!Sample) /\ s.committed = x.committed
      /\ s.pending = x.pending /\ s.buffer = x.buffer /\ s.last_good = g
  BY <1>2, <1>3 DEF Poll!SignalState
<1>5. QED  BY <1>4 DEF g, Poll!DriverConstants

-----------------------------------------------------------------------------
(* The open window *)

\* Nothing in the batch is from before a pause, and GOOD samples have values.
PollClean(b) == \A i \in 1..Len(b) : ~b[i].old /\ (b[i].quality = "GOOD" => b[i].value \in PollSettings.values)

\* Every GOOD sample differs from the committed value c and from the GOOD one
\* before it.
PollSpaced(c, b) ==
    \A j \in Poll!Goods(b) :
        /\ c = None \/ Poll!value_changed(c, b[j].value)
        /\ \A i \in Poll!Goods(b) :
              (i < j /\ \A k \in Poll!Goods(b) : k <= i \/ k >= j) => Poll!value_changed(b[i].value, b[j].value)

\* The parts of the invariant that are about the window, in these terms.
LEMMA PollWindowTerms ==
    /\ PollWindowPart <=> (st # None => (PollSettings.batch = 0 => st.buffer = <<>>) /\ PollClean(st.buffer))
    /\ Poll!WindowHasNoRepeats <=> (st # None /\ PollSettings.publish = "onChange" => PollSpaced(st.committed, st.buffer))
BY DEF PollWindowPart, Poll!WindowHasNoRepeats, PollClean, PollSpaced

\* An empty window holds nothing.
LEMMA PollEmptyWindow == PollClean(<<>>) /\ \A c : PollSpaced(c, <<>>)
<1>1. Poll!Goods(<<>>) = {}  BY PollLastGoodSmall
<1>2. \A c : PollSpaced(c, <<>>)  BY <1>1 DEF PollSpaced
<1>3. Len(<<>>) = 0  OBVIOUS
<1>4. PollClean(<<>>)  BY <1>3 DEF PollClean
<1>5. QED  BY <1>2, <1>4

\* The newest GOOD value of a clean batch is a value.
LEMMA PollNewestIsValue ==
    ASSUME NEW b \in Seq(Poll!Sample), PollClean(b), NEW e
    PROVE  IF Poll!Goods(b) = {} THEN Poll!LastGood(b, e) = e
           ELSE Poll!LastGood(b, e) = Poll!LastGood(b, None) /\ Poll!LastGood(b, None) \in PollSettings.values
<1>1. CASE Poll!Goods(b) = {}  BY <1>1 DEF Poll!LastGood
<1>2. CASE Poll!Goods(b) # {}
  <2>1. PICK m \in Poll!Goods(b) : \A x : Poll!LastGood(b, x) = b[m].value  BY <1>2, PollLastGoodIs
  <2>2. b[m].value \in PollSettings.values  BY <2>1 DEF Poll!Goods, PollClean
  <2>3. QED  BY <1>2, <2>1, <2>2
<1>3. QED  BY <1>1, <1>2

\* Buffering what was just read keeps the window clean.
LEMMA PollAppendWindow ==
    ASSUME NEW b \in Seq(Poll!Sample), PollClean(b), NEW m \in Poll!Sample, ~m.old,
           m.quality = "GOOD" => m.value \in PollSettings.values
    PROVE  PollClean(Append(b, m))
<1> DEFINE a == Append(b, m)
<1>1. /\ Len(a) = Len(b) + 1 /\ Len(b) \in Nat /\ a[Len(b) + 1] = m
      /\ \A i \in 1..Len(b) : a[i] = b[i]
  BY AppendIn
<1> HIDE DEF a
<1>2. ASSUME NEW i \in 1..Len(a) PROVE ~a[i].old /\ (a[i].quality = "GOOD" => a[i].value \in PollSettings.values)
  <2>1. CASE i = Len(b) + 1  BY <1>1, <2>1
  <2>2. CASE i # Len(b) + 1
    <3>1. i \in 1..Len(b)  BY <1>1, <2>2
    <3>2. QED  BY <1>1, <3>1 DEF PollClean
  <2>3. QED  BY <2>1, <2>2
<1>3. QED  BY <1>2 DEF PollClean, a

\* A GOOD sample that differs from both halves of the baseline pair differs
\* from its predecessor in the window.
LEMMA PollAppendSpaced ==
    ASSUME NEW b \in Seq(Poll!Sample), PollClean(b), NEW m \in Poll!Sample, NEW c, PollSpaced(c, b),
           None \notin PollSettings.values,
           m.quality = "GOOD" =>
              /\ c = None \/ Poll!value_changed(c, m.value)
              /\ Poll!LastGood(b, None) = None \/ Poll!value_changed(Poll!LastGood(b, None), m.value)
    PROVE  PollSpaced(c, Append(b, m))
<1> DEFINE a == Append(b, m)
<1>1. /\ Len(b) \in Nat /\ a[Len(b) + 1] = m /\ \A i \in 1..Len(b) : a[i] = b[i]
  BY AppendIn
<1>2. /\ m.quality = "GOOD" => Poll!Goods(a) = Poll!Goods(b) \cup {Len(b) + 1}
      /\ m.quality # "GOOD" => Poll!Goods(a) = Poll!Goods(b)
  BY PollLastGoodAppend
<1>3. Poll!Goods(b) \subseteq 1..Len(b)  BY DEF Poll!Goods
<1> HIDE DEF a
<1>4. ASSUME NEW j \in Poll!Goods(b) PROVE c = None \/ Poll!value_changed(c, a[j].value)
  <2>1. a[j] = b[j]  BY <1>1, <1>3
  <2>2. QED  BY <2>1 DEF PollSpaced
<1>5. ASSUME NEW j \in Poll!Goods(b), NEW i \in Poll!Goods(a), i < j, \A k \in Poll!Goods(a) : k <= i \/ k >= j
      PROVE  Poll!value_changed(a[i].value, a[j].value)
  <2>1. i \in Poll!Goods(b) /\ \A k \in Poll!Goods(b) : k <= i \/ k >= j  BY <1>1, <1>2, <1>3, <1>5
  <2>2. a[i] = b[i] /\ a[j] = b[j]  BY <1>1, <1>3, <2>1
  <2>3. QED  BY <1>5, <2>1, <2>2 DEF PollSpaced
<1>6. ASSUME m.quality = "GOOD", NEW i \in Poll!Goods(b), \A k \in Poll!Goods(a) : k <= i \/ k >= Len(b) + 1
      PROVE  Poll!value_changed(a[i].value, m.value)
  <2>1. PICK x \in Poll!Goods(b) : (\A k \in Poll!Goods(b) : k <= x) /\ \A e : Poll!LastGood(b, e) = b[x].value
    BY <1>6, PollLastGoodIs
  <2>2. x \in Poll!Goods(a)  BY <1>2, <1>6
  <2>3. i = x  BY <1>1, <1>3, <1>6, <2>1, <2>2
  <2>4. b[i].value \in PollSettings.values  BY <1>3, <1>6 DEF PollClean, Poll!Goods
  <2>5. Poll!LastGood(b, None) = b[i].value /\ b[i].value # None  BY <2>1, <2>3, <2>4
  <2>6. a[i] = b[i]  BY <1>1, <1>3
  <2>7. QED  BY <1>6, <2>5, <2>6
<1>7. CASE m.quality # "GOOD"
  BY <1>2, <1>4, <1>5, <1>7 DEF PollSpaced, a
<1>8. CASE m.quality = "GOOD"
  <2>1. ASSUME NEW j \in Poll!Goods(a) PROVE c = None \/ Poll!value_changed(c, a[j].value)
    BY <1>1, <1>2, <1>4, <1>8
  <2>2. ASSUME NEW j \in Poll!Goods(a), NEW i \in Poll!Goods(a), i < j, \A k \in Poll!Goods(a) : k <= i \/ k >= j
        PROVE  Poll!value_changed(a[i].value, a[j].value)
    <3>1. CASE j \in Poll!Goods(b)  BY <1>5, <2>2, <3>1
    <3>2. CASE j \notin Poll!Goods(b)
      <4>1. j = Len(b) + 1 /\ i \in Poll!Goods(b)  BY <1>1, <1>2, <1>3, <1>8, <2>2, <3>2
      <4>2. QED  BY <1>1, <1>6, <1>8, <2>2, <4>1
    <3>3. QED  BY <3>1, <3>2
  <2>3. QED  BY <2>1, <2>2 DEF PollSpaced, a
<1>9. QED  BY <1>7, <1>8

-----------------------------------------------------------------------------
(* One step per action *)

\* The window after a step, when the step leaves it alone, empties it or ends
\* the engine.
LEMMA PollWindowKept ==
    ASSUME PollInv, st # None, st' # None, sent' = sent,
           st'.committed = st.committed, st'.pending = st.pending, st'.buffer = st.buffer
    PROVE  PollWindowPart' /\ Poll!BaselineIsPublished' /\ Poll!WindowHasNoRepeats'
BY DEF PollInv, PollWindowPart, Poll!BaselineIsPublished, Poll!WindowHasNoRepeats

\* The window after a step that leaves it empty.
LEMMA PollWindowEmpty ==
    ASSUME st' # None, st'.committed = sent', st'.pending = None, st'.buffer = <<>>
    PROVE  PollWindowPart' /\ Poll!BaselineIsPublished' /\ Poll!WindowHasNoRepeats'
<1>1. Poll!BaselineIsPublished'  BY PollLastGoodSmall DEF Poll!BaselineIsPublished
<1>2. Poll!Goods(st'.buffer) = {} /\ Len(st'.buffer) = 0  BY PollLastGoodSmall
<1>3. QED  BY <1>1, <1>2 DEF PollWindowPart, Poll!WindowHasNoRepeats

\* An engine that is gone, or that has not met the signal, has no window.
LEMMA PollWindowGone ==
    ASSUME st' = None
    PROVE  PollWindowPart' /\ Poll!BaselineIsPublished' /\ Poll!WindowHasNoRepeats' /\ PollClockPart'
BY DEF PollWindowPart, Poll!BaselineIsPublished, Poll!WindowHasNoRepeats, PollClockPart

\* Nothing is published by a step that hands nothing to the facade.
LEMMA PollSilentStep == out' = <<>> => Poll!PauseIsSilent' /\ out' \in Seq(Poll!Sample)
BY EmptySeq DEF Poll!PauseIsSilent

\* The initial state.
LEMMA InitPoll == Poll!DriverConstants /\ Poll!Init => PollInv
<1> SUFFICES ASSUME Poll!DriverConstants, Poll!Init PROVE PollInv  OBVIOUS
<1>1. Poll!TypeOK
  <2>1. out \in Seq(Poll!Sample)  BY EmptySeq DEF Poll!Init
  <2>2. 0 \in 0..PollSettings.stale /\ 0 \in -PollSettings.interval..PollSettings.interval
    BY DEF Poll!DriverConstants, Poll!EngineConstants
  <2>3. QED  BY <2>1, <2>2 DEF Poll!Init, Poll!TypeOK
<1>2. QED
  BY <1>1 DEF Poll!Init, PollInv, PollSessionPart, PollWindowPart, PollClockPart, Poll!BaselineIsPublished,
         Poll!WindowHasNoRepeats, Poll!PauseIsSilent

\* A session opens.
LEMMA PollOpenInv == Poll!DriverConstants /\ PollInv /\ Poll!Open => PollInv'
<1> SUFFICES ASSUME Poll!DriverConstants, PollInv, Poll!Open PROVE PollInv'  OBVIOUS
<1>1. PollWindowPart' /\ Poll!BaselineIsPublished' /\ Poll!WindowHasNoRepeats' /\ PollClockPart'
  BY PollWindowGone DEF Poll!Open
<1>2. Poll!PauseIsSilent' /\ out' \in Seq(Poll!Sample)  BY PollSilentStep DEF Poll!Open
<1>3. Poll!TypeOK'  BY <1>2 DEF PollInv, Poll!TypeOK, Poll!Open, Poll!DriverConstants, Poll!EngineConstants
<1>4. PollSessionPart'  BY DEF PollInv, PollSessionPart, Poll!TypeOK, Poll!Open
<1>5. QED  BY <1>1, <1>2, <1>3, <1>4 DEF PollInv

\* The loop ends.
LEMMA PollLeaveInv == Poll!DriverConstants /\ PollInv /\ Poll!Leave => PollInv'
<1> SUFFICES ASSUME Poll!DriverConstants, PollInv, Poll!Leave PROVE PollInv'  OBVIOUS
<1>1. PollWindowPart' /\ Poll!BaselineIsPublished' /\ Poll!WindowHasNoRepeats' /\ PollClockPart'
  BY PollWindowGone DEF Poll!Leave
<1>2. Poll!PauseIsSilent' /\ out' \in Seq(Poll!Sample)  BY PollSilentStep DEF Poll!Leave
<1>3. Poll!TypeOK'  BY <1>2 DEF PollInv, Poll!TypeOK, Poll!Leave
<1>4. PollSessionPart'  BY DEF PollInv, PollSessionPart, Poll!Leave
<1>5. QED  BY <1>1, <1>2, <1>3, <1>4 DEF PollInv

\* The health emit, a change of the device and the rest touch neither the
\* engine nor the flags.
LEMMA PollQuietStepInv ==
    ASSUME Poll!DriverConstants, PollInv, out' = <<>>,
           UNCHANGED <<up, hold, quiet, st, start, due, bus, sent, awake>>,
           stale' \in {0, 1}, dev' \in PollSettings.readings, calm' \in BOOLEAN
    PROVE  PollInv'
<1>1. Poll!PauseIsSilent' /\ out' \in Seq(Poll!Sample)  BY PollSilentStep
<1>2. Poll!TypeOK'  BY <1>1 DEF PollInv, Poll!TypeOK
<1>3. PollSessionPart' /\ PollWindowPart' /\ PollClockPart' /\ Poll!BaselineIsPublished' /\ Poll!WindowHasNoRepeats'
  BY DEF PollInv, PollSessionPart, PollWindowPart, PollClockPart, Poll!BaselineIsPublished, Poll!WindowHasNoRepeats
<1>4. QED  BY <1>1, <1>2, <1>3 DEF PollInv

\* `sb/pause` discards the open window with its pending baseline.
LEMMA PollPauseInv == Poll!DriverConstants /\ PollInv /\ Poll!Pause => PollInv'
<1> SUFFICES ASSUME Poll!DriverConstants, PollInv, Poll!Pause PROVE PollInv'  OBVIOUS
<1>1. Poll!PauseIsSilent' /\ out' \in Seq(Poll!Sample)  BY PollSilentStep DEF Poll!Pause
<1>2. CASE st = None
  <2>1. st' = None  BY <1>2 DEF Poll!Pause, Poll!discard_open_batches
  <2>2. PollWindowPart' /\ Poll!BaselineIsPublished' /\ Poll!WindowHasNoRepeats' /\ PollClockPart'
    BY <2>1, PollWindowGone
  <2>3. Poll!TypeOK'  BY <1>1, <2>1 DEF PollInv, Poll!TypeOK, Poll!Pause
  <2>4. PollSessionPart'  BY <1>2, <2>1 DEF PollInv, PollSessionPart, Poll!TypeOK, Poll!Pause
  <2>5. QED  BY <1>1, <2>2, <2>3, <2>4 DEF PollInv
<1>3. CASE st # None
  <2> DEFINE s == Poll!discard_open_batches(st)
  <2>1. st \in Poll!SignalState(Poll!Sample)  BY <1>3 DEF PollInv, Poll!TypeOK
  <2>2. /\ s \in Poll!SignalState(Poll!Sample) /\ s # None /\ s.committed = st.committed
        /\ s.pending = (IF st.buffer # <<>> THEN None ELSE st.pending)
        /\ s.buffer = <<>>
    BY <2>1, PollDiscardShape
  <2>3. st' = [s EXCEPT !.buffer = Poll!MarkOld(@)]  BY <2>2 DEF Poll!Pause
  <2> HIDE DEF s
  <2>4. Poll!MarkOld(<<>>) = <<>>
    <3>1. DOMAIN <<>> = {}  OBVIOUS
    <3>2. QED  BY <3>1 DEF Poll!MarkOld
  <2>5. st' = s  BY <2>2, <2>3, <2>4 DEF Poll!SignalState
  <2>6. s.pending = None
    <3>1. st.pending = Poll!LastGood(st.buffer, None)  BY <1>3 DEF PollInv, Poll!BaselineIsPublished
    <3>2. QED  BY <2>2, <3>1, PollLastGoodSmall
  <2>7. st'.committed = sent'  BY <1>3, <2>2, <2>5 DEF PollInv, Poll!BaselineIsPublished, Poll!Pause
  <2>8. PollWindowPart' /\ Poll!BaselineIsPublished' /\ Poll!WindowHasNoRepeats'
    BY <2>2, <2>5, <2>6, <2>7, PollWindowEmpty
  <2>9. Poll!TypeOK'  BY <1>1, <2>2, <2>5 DEF PollInv, Poll!TypeOK, Poll!Pause
  <2>10. PollSessionPart' /\ PollClockPart'
    BY <1>3, <2>2, <2>5 DEF PollInv, PollSessionPart, PollClockPart, Poll!TypeOK, Poll!Pause
  <2>11. QED  BY <1>1, <2>8, <2>9, <2>10 DEF PollInv
<1>4. QED  BY <1>2, <1>3

\* `sb/resume` re-bases the staleness clock of a tracked signal.
LEMMA PollResumeInv == Poll!DriverConstants /\ PollInv /\ Poll!Resume => PollInv'
<1> SUFFICES ASSUME Poll!DriverConstants, PollInv, Poll!Resume PROVE PollInv'  OBVIOUS
<1>1. Poll!PauseIsSilent' /\ out' \in Seq(Poll!Sample)  BY PollSilentStep DEF Poll!Resume
<1>2. /\ awake' \in 0..PollSettings.stale /\ due' \in -PollSettings.interval..PollSettings.interval
      /\ hold' = FALSE /\ quiet' = FALSE /\ UNCHANGED <<up, start, stale, dev, bus, calm, sent>>
  BY DEF PollInv, Poll!TypeOK, Poll!Resume, Poll!DriverConstants, Poll!EngineConstants
<1>3. CASE st = None
  <2>1. st' = None  BY <1>3 DEF Poll!Resume, Poll!rebase_stale
  <2>2. PollWindowPart' /\ Poll!BaselineIsPublished' /\ Poll!WindowHasNoRepeats' /\ PollClockPart'
    BY <2>1, PollWindowGone
  <2>3. Poll!TypeOK'  BY <1>1, <1>2, <2>1 DEF PollInv, Poll!TypeOK
  <2>4. PollSessionPart'  BY <1>3, <2>1 DEF PollInv, PollSessionPart, Poll!TypeOK, Poll!Resume
  <2>5. QED  BY <1>1, <2>2, <2>3, <2>4 DEF PollInv
<1>4. CASE st # None
  <2>1. st \in Poll!SignalState(Poll!Sample) /\ up  BY <1>4 DEF PollInv, Poll!TypeOK, PollSessionPart
  <2>2. /\ st' \in Poll!SignalState(Poll!Sample) /\ st'.committed = st.committed /\ st'.pending = st.pending
        /\ st'.buffer = st.buffer /\ st'.last_good = (IF hold THEN 0 ELSE st.last_good)
    BY <1>4, <2>1 DEF Poll!Resume, Poll!rebase_stale, Poll!SignalState, Poll!Age, Poll!DriverConstants,
           Poll!EngineConstants
  <2>3. st' # None /\ sent' = sent  BY <2>2 DEF Poll!DriverConstants, Poll!Resume
  <2>4. PollWindowPart' /\ Poll!BaselineIsPublished' /\ Poll!WindowHasNoRepeats'  BY <1>4, <2>2, <2>3, PollWindowKept
  <2>5. Poll!TypeOK'  BY <1>1, <1>2, <2>2 DEF PollInv, Poll!TypeOK
  <2>6. PollSessionPart'  BY <2>1, <2>3 DEF PollInv, PollSessionPart, Poll!TypeOK, Poll!Resume
  <2>7. PollClockPart'
    <3>1. CASE hold
      <4>1. st'.last_good = 0 /\ awake' = 0  BY <2>2, <3>1 DEF Poll!Resume
      <4>2. QED  BY <4>1 DEF PollClockPart
    <3>2. CASE ~hold
      <4>1. st'.last_good = st.last_good /\ awake' = awake  BY <2>2, <3>2 DEF Poll!Resume
      <4>2. QED  BY <1>4, <3>2, <4>1 DEF PollInv, PollClockPart
    <3>3. QED  BY <3>1, <3>2
  <2>8. QED  BY <1>1, <2>4, <2>5, <2>6, <2>7 DEF PollInv
<1>5. QED  BY <1>3, <1>4

\* Time passes; unpaused time and the staleness clock advance together.
LEMMA PollTickInv == Poll!DriverConstants /\ PollInv /\ Poll!Tick => PollInv'
<1> SUFFICES ASSUME Poll!DriverConstants, PollInv, Poll!Tick PROVE PollInv'  OBVIOUS
<1>1. Poll!PauseIsSilent' /\ out' \in Seq(Poll!Sample)  BY PollSilentStep DEF Poll!Tick
<1>2. /\ start' \in 0..PollSettings.stale /\ awake' \in 0..PollSettings.stale /\ due' \in -PollSettings.interval..PollSettings.interval
      /\ UNCHANGED <<up, hold, quiet, stale, dev, bus, calm, sent>>
  <2>1. PollSettings.stale \in Nat /\ PollSettings.interval \in Nat  BY DEF Poll!DriverConstants, Poll!EngineConstants
  <2>2. /\ start \in 0..PollSettings.stale /\ awake \in 0..PollSettings.stale
        /\ due \in -PollSettings.interval..PollSettings.interval
    BY DEF PollInv, Poll!TypeOK
  <2>3. start' \in 0..PollSettings.stale  BY <2>1, <2>2 DEF Poll!Tick, Poll!Older
  <2>4. awake' \in 0..PollSettings.stale  BY <2>1, <2>2 DEF Poll!Tick, Poll!Older
  <2>5. due' \in -PollSettings.interval..PollSettings.interval  BY <2>1, <2>2 DEF Poll!Tick
  <2>6. QED  BY <2>3, <2>4, <2>5 DEF Poll!Tick
<1>3. CASE st = None
  <2>1. st' = None  BY <1>3 DEF Poll!Tick, Poll!Aged
  <2>2. PollWindowPart' /\ Poll!BaselineIsPublished' /\ Poll!WindowHasNoRepeats' /\ PollClockPart'
    BY <2>1, PollWindowGone
  <2>3. Poll!TypeOK'  BY <1>1, <1>2, <2>1 DEF PollInv, Poll!TypeOK
  <2>4. PollSessionPart'  BY <1>2, <1>3, <2>1 DEF PollInv, PollSessionPart
  <2>5. QED  BY <1>1, <2>2, <2>3, <2>4 DEF PollInv
<1>4. CASE st # None
  <2>1. st \in Poll!SignalState(Poll!Sample)  BY <1>4 DEF PollInv, Poll!TypeOK
  <2>2. /\ st' \in Poll!SignalState(Poll!Sample) /\ st' # None /\ st'.committed = st.committed
        /\ st'.pending = st.pending /\ st'.buffer = st.buffer
        /\ st'.last_good = Poll!Older(st.last_good, PollSettings.stale)
    BY <2>1, PollAgedShape DEF Poll!Tick
  <2>3. PollWindowPart' /\ Poll!BaselineIsPublished' /\ Poll!WindowHasNoRepeats'  BY <1>2, <1>4, <2>2, PollWindowKept
  <2>4. Poll!TypeOK'  BY <1>1, <1>2, <2>2 DEF PollInv, Poll!TypeOK
  <2>5. PollSessionPart'  BY <1>2, <1>4, <2>2 DEF PollInv, PollSessionPart
  <2>6. PollClockPart'
    <3> SUFFICES ASSUME ~hold, st'.last_good # None PROVE st'.last_good <= awake'
      BY <1>2 DEF PollClockPart
    <3>1. st.last_good \in Poll!Age(PollSettings.stale) /\ awake \in 0..PollSettings.stale
          /\ awake' = Poll!Older(awake, PollSettings.stale)
      BY <2>1 DEF Poll!SignalState, PollInv, Poll!TypeOK, Poll!Tick
    <3>2. st.last_good # None  BY <2>2, <3>1 DEF Poll!Older
    <3>3. st.last_good <= awake  BY <1>4, <3>2 DEF PollInv, PollClockPart
    <3>4. QED  BY <2>2, <3>1, <3>2, <3>3, PollOlderAge DEF Poll!DriverConstants, Poll!EngineConstants
  <2>7. QED  BY <1>1, <2>3, <2>4, <2>5, <2>6 DEF PollInv
<1>5. QED  BY <1>3, <1>4

\* What the facade was handed is published, outside a pause: the parts of the
\* invariant a publish can disturb.
LEMMA PollPublishInv ==
    ASSUME Poll!DriverConstants, PollInv, up, ~quiet,
           NEW b \in Seq(Poll!Sample), PollClean(b), b # <<>>,
           NEW s \in Poll!SignalState(Poll!Sample), s.committed = sent, s.pending = Poll!LastGood(b, None),
           s.buffer = <<>>, Poll!Publish(b, s), UNCHANGED <<up, hold>>
    PROVE  /\ out' \in Seq(Poll!Sample) /\ Poll!PauseIsSilent'
           /\ st' \in Poll!SignalState(Poll!Sample) /\ st' # None /\ st'.last_good = s.last_good
           /\ bus' \in PollSettings.values \cup {None} /\ sent' \in PollSettings.values \cup {None}
           /\ PollWindowPart' /\ Poll!BaselineIsPublished' /\ Poll!WindowHasNoRepeats'
<1>1. calm \in BOOLEAN /\ bus \in PollSettings.values \cup {None} /\ sent \in PollSettings.values \cup {None}
  BY DEF PollInv, Poll!TypeOK
<1>2. PICK published \in BOOLEAN :
          /\ out' = b /\ st' = Poll!settle(s, published)
          /\ bus' = (IF published THEN Poll!LastGood(b, bus) ELSE bus)
          /\ sent' = (IF published THEN Poll!LastGood(b, sent) ELSE sent)
  BY <1>1 DEF Poll!Publish
<1>3. /\ st' \in Poll!SignalState(Poll!Sample) /\ st'.pending = None /\ st'.buffer = <<>> /\ st'.last_good = s.last_good
      /\ st'.committed = (IF published /\ s.pending # None THEN s.pending ELSE s.committed)
  BY <1>2, PollSettleShape
<1>4. \A e : IF Poll!Goods(b) = {} THEN Poll!LastGood(b, e) = e
             ELSE Poll!LastGood(b, e) = Poll!LastGood(b, None) /\ Poll!LastGood(b, None) \in PollSettings.values
  BY PollNewestIsValue
<1>5. bus' \in PollSettings.values \cup {None} /\ sent' \in PollSettings.values \cup {None}
  BY <1>1, <1>2, <1>4
<1>6. st'.committed = sent'
  BY <1>2, <1>3, <1>4 DEF Poll!DriverConstants, Poll!EngineConstants
<1>7. st' # None  BY <1>3 DEF Poll!DriverConstants
<1>8. PollWindowPart' /\ Poll!BaselineIsPublished' /\ Poll!WindowHasNoRepeats'
  BY <1>3, <1>6, <1>7, PollWindowEmpty
<1>9. Poll!PauseIsSilent'
  <2>1. ~hold'  BY DEF PollInv, PollSessionPart
  <2>2. DOMAIN b = 1..Len(b)  BY LenProperties
  <2>3. QED  BY <1>2, <2>1, <2>2 DEF Poll!PauseIsSilent, PollClean
<1>10. QED  BY <1>2, <1>3, <1>5, <1>7, <1>8, <1>9

\* process_group: suppressed, buffered or published at once.
LEMMA PollProcessInv ==
    ASSUME Poll!DriverConstants, PollInv, up, ~quiet, Poll!Process(dev),
           UNCHANGED <<up, hold, quiet, start, stale, dev, calm>>,
           due' \in -PollSettings.interval..PollSettings.interval
    PROVE  PollInv'
<1> DEFINE s1 == Poll!Read(st, dev)
           s2 == Poll!Admit(s1, dev)
           m  == [value |-> dev.value, quality |-> dev.quality, old |-> FALSE]
<1>1. dev \in PollSettings.readings /\ st \in Poll!SignalState(Poll!Sample) \cup {None}  BY DEF PollInv, Poll!TypeOK
<1>2. /\ dev.value \in PollSettings.values \cup {None} /\ dev.quality \in Poll!Qualities
      /\ dev.quality = "GOOD" => dev.value \in PollSettings.values
      /\ m \in Poll!Sample /\ ~m.old /\ m.value = dev.value /\ m.quality = dev.quality
  BY <1>1 DEF Poll!DriverConstants, Poll!Reading, Poll!Sample
<1>3. /\ s1 \in Poll!SignalState(Poll!Sample) /\ s1 # None
      /\ s1.committed = IF st = None THEN None ELSE st.committed
      /\ s1.pending = IF st = None THEN None ELSE st.pending
      /\ s1.buffer = IF st = None THEN <<>> ELSE st.buffer
      /\ s1.last_good = IF dev.quality = "GOOD" THEN 0 ELSE IF st = None THEN None ELSE st.last_good
  BY <1>1, PollReadShape
<1>4. /\ s2 \in Poll!SignalState(Poll!Sample) /\ s2.committed = s1.committed
      /\ s2.pending = (IF dev.quality = "GOOD" THEN dev.value ELSE s1.pending)
      /\ s2.buffer = s1.buffer /\ s2.last_good = s1.last_good
  BY <1>1, <1>3, PollAdmitShape
<1>5. /\ awake' = IF dev.quality = "GOOD" THEN 0 ELSE awake
      /\ \/ ~Poll!gate_passes(s1, dev) /\ st' = s1 /\ out' = <<>> /\ UNCHANGED <<bus, sent>>
         \/ /\ Poll!gate_passes(s1, dev) /\ PollSettings.batch > 0
            /\ st' = Poll!Buffer(s2, m) /\ out' = <<>> /\ UNCHANGED <<bus, sent>>
         \/ Poll!gate_passes(s1, dev) /\ PollSettings.batch = 0 /\ Poll!Publish(<<m>>, s2)
  BY DEF Poll!Process
<1> HIDE DEF s1, s2, m
<1>6. /\ s1.committed = sent /\ s1.pending = Poll!LastGood(s1.buffer, None) /\ s1.buffer \in Seq(Poll!Sample)
      /\ PollSettings.batch = 0 => s1.buffer = <<>>
      /\ PollClean(s1.buffer)
      /\ PollSettings.publish = "onChange" => PollSpaced(s1.committed, s1.buffer)
  <2>1. CASE st = None
    <3>1. s1.committed = None /\ s1.pending = None /\ s1.buffer = <<>>  BY <1>3, <2>1
    <3>2. sent = None  BY <2>1 DEF PollInv, PollSessionPart
    <3>3. QED  BY <3>1, <3>2, PollLastGoodSmall, PollEmptyWindow, EmptySeq
  <2>2. CASE st # None
    <3>1. s1.committed = st.committed /\ s1.pending = st.pending /\ s1.buffer = st.buffer  BY <1>3, <2>2
    <3>2. st.committed = sent /\ st.pending = Poll!LastGood(st.buffer, None)
      BY <2>2 DEF PollInv, Poll!BaselineIsPublished
    <3>3. /\ PollSettings.batch = 0 => st.buffer = <<>>
          /\ PollClean(st.buffer) /\ (PollSettings.publish = "onChange" => PollSpaced(st.committed, st.buffer))
      BY <2>2, PollWindowTerms DEF PollInv
    <3>4. s1.buffer \in Seq(Poll!Sample)  BY <1>3 DEF Poll!SignalState
    <3>5. QED  BY <3>1, <3>2, <3>3, <3>4
  <2>3. QED  BY <2>1, <2>2
<1>7. awake' \in 0..PollSettings.stale /\ (s1.last_good # None => s1.last_good <= awake')
  <2>1. awake \in 0..PollSettings.stale /\ 0 \in 0..PollSettings.stale
    BY DEF PollInv, Poll!TypeOK, Poll!DriverConstants, Poll!EngineConstants
  <2>2. CASE dev.quality = "GOOD"  BY <1>3, <1>5, <2>1, <2>2
  <2>3. CASE dev.quality # "GOOD"
    <3>1. ~hold  BY DEF PollInv, PollSessionPart
    <3>2. awake' = awake /\ s1.last_good = IF st = None THEN None ELSE st.last_good  BY <1>3, <1>5, <2>3
    <3>3. QED  BY <2>1, <3>1, <3>2 DEF PollInv, PollClockPart
  <2>4. QED  BY <2>2, <2>3
<1>8. SUFFICES /\ st' \in Poll!SignalState(Poll!Sample) /\ st'.last_good = s1.last_good
               /\ out' \in Seq(Poll!Sample) /\ Poll!PauseIsSilent'
               /\ bus' \in PollSettings.values \cup {None} /\ sent' \in PollSettings.values \cup {None}
               /\ PollWindowPart' /\ Poll!BaselineIsPublished' /\ Poll!WindowHasNoRepeats'
  <2>1. st' # None  BY <1>8 DEF Poll!DriverConstants
  <2>2. Poll!TypeOK'  BY <1>7, <1>8 DEF PollInv, Poll!TypeOK
  <2>3. PollSessionPart'  BY <2>1 DEF PollInv, PollSessionPart
  <2>4. PollClockPart'  BY <1>7, <1>8 DEF PollClockPart
  <2>5. QED  BY <1>8, <2>2, <2>3, <2>4 DEF PollInv
<1>9. CASE ~Poll!gate_passes(s1, dev) /\ st' = s1 /\ out' = <<>> /\ UNCHANGED <<bus, sent>>
  <2>1. Poll!PauseIsSilent' /\ out' \in Seq(Poll!Sample)  BY <1>9, PollSilentStep
  <2>2. PollWindowPart' /\ Poll!BaselineIsPublished' /\ Poll!WindowHasNoRepeats'
    <3>1. CASE st = None
      <4>1. st'.committed = sent' /\ st'.pending = None /\ st'.buffer = <<>> /\ st' # None
        BY <1>3, <1>6, <1>9, <3>1
      <4>2. QED  BY <4>1, PollWindowEmpty
    <3>2. CASE st # None
      <4>1. /\ st' # None /\ st'.committed = st.committed /\ st'.pending = st.pending
            /\ st'.buffer = st.buffer /\ sent' = sent
        BY <1>3, <1>9, <3>2
      <4>2. QED  BY <3>2, <4>1, PollWindowKept
    <3>3. QED  BY <3>1, <3>2
  <2>3. QED  BY <1>3, <1>9, <2>1, <2>2 DEF PollInv, Poll!TypeOK
<1>10. CASE /\ Poll!gate_passes(s1, dev) /\ PollSettings.batch > 0
            /\ st' = Poll!Buffer(s2, m) /\ out' = <<>> /\ UNCHANGED <<bus, sent>>
  <2>1. Poll!PauseIsSilent' /\ out' \in Seq(Poll!Sample)  BY <1>10, PollSilentStep
  <2>2. /\ st' \in Poll!SignalState(Poll!Sample) /\ st'.committed = s2.committed /\ st'.pending = s2.pending
        /\ st'.buffer = Append(s2.buffer, m) /\ st'.last_good = s2.last_good
    BY <1>2, <1>4, <1>10, PollBufferShape
  <2>3. Poll!BaselineIsPublished'
    <3>1. /\ m.quality = "GOOD" => Poll!LastGood(Append(s1.buffer, m), None) = m.value
          /\ m.quality # "GOOD" => Poll!LastGood(Append(s1.buffer, m), None) = Poll!LastGood(s1.buffer, None)
      BY <1>2, <1>6, PollLastGoodAppend
    <3>2. st'.committed = sent'  BY <1>4, <1>6, <1>10, <2>2
    <3>3. st'.pending = Poll!LastGood(st'.buffer, None)  BY <1>2, <1>4, <1>6, <2>2, <3>1
    <3>4. QED  BY <3>2, <3>3 DEF Poll!BaselineIsPublished
  <2>4. PollClean(Append(s1.buffer, m))  BY <1>2, <1>6, PollAppendWindow
  <2>5. PollSettings.publish = "onChange" => PollSpaced(s1.committed, Append(s1.buffer, m))
    <3> SUFFICES ASSUME PollSettings.publish = "onChange" PROVE PollSpaced(s1.committed, Append(s1.buffer, m))  OBVIOUS
    <3>1. m.quality = "GOOD" =>
              /\ s1.committed = None \/ Poll!value_changed(s1.committed, m.value)
              /\ s1.pending = None \/ Poll!value_changed(s1.pending, m.value)
      BY <1>2, <1>10 DEF Poll!gate_passes, Poll!should_publish
    <3>2. None \notin PollSettings.values  BY DEF Poll!DriverConstants, Poll!EngineConstants
    <3>3. QED  BY <1>2, <1>6, <3>1, <3>2, PollAppendSpaced
  <2>6. PollWindowPart' /\ Poll!WindowHasNoRepeats'
    <3>1. st'.buffer = Append(s1.buffer, m) /\ st'.committed = s1.committed  BY <1>4, <2>2
    <3>2. PollSettings.batch # 0  BY <1>10 DEF Poll!DriverConstants, Poll!EngineConstants
    <3>3. PollClean(st'.buffer) /\ (PollSettings.publish = "onChange" => PollSpaced(st'.committed, st'.buffer))
      BY <2>4, <2>5, <3>1
    <3>4. QED  BY <3>2, <3>3 DEF PollWindowPart, Poll!WindowHasNoRepeats, PollClean, PollSpaced
  <2>7. QED  BY <1>4, <1>10, <2>1, <2>2, <2>3, <2>6 DEF PollInv, Poll!TypeOK
<1>11. CASE Poll!gate_passes(s1, dev) /\ PollSettings.batch = 0 /\ Poll!Publish(<<m>>, s2)
  <2> DEFINE b == <<m>>
  <2>1. b \in Seq(Poll!Sample) /\ Len(b) = 1 /\ b[1] = m /\ b # <<>>  BY <1>2
  <2>2. /\ m.quality = "GOOD" => Poll!LastGood(b, None) = m.value
        /\ m.quality # "GOOD" => Poll!LastGood(b, None) = None
    BY PollLastGoodSmall
  <2>3. Poll!Publish(b, s2)  BY <1>11
  <2> HIDE DEF b
  <2>4. PollClean(b)  BY <1>2, <2>1 DEF PollClean
  <2>5. s2.buffer = <<>> /\ s1.pending = None /\ s2.committed = sent
    BY <1>4, <1>6, <1>11, PollLastGoodSmall
  <2>6. s2.pending = Poll!LastGood(b, None)  BY <1>2, <1>4, <2>2, <2>5
  <2>7. /\ out' \in Seq(Poll!Sample) /\ Poll!PauseIsSilent'
        /\ st' \in Poll!SignalState(Poll!Sample) /\ st'.last_good = s2.last_good
        /\ bus' \in PollSettings.values \cup {None} /\ sent' \in PollSettings.values \cup {None}
        /\ PollWindowPart' /\ Poll!BaselineIsPublished' /\ Poll!WindowHasNoRepeats'
    BY <1>4, <2>1, <2>3, <2>4, <2>5, <2>6, PollPublishInv
  <2>8. QED  BY <1>4, <2>7
<1>12. QED  BY <1>5, <1>9, <1>10, <1>11

\* A due group, or a `repoll`.
LEMMA PollsInv == Poll!DriverConstants /\ PollInv /\ (Poll!Poll \/ Poll!Repoll) => PollInv'
<1> SUFFICES ASSUME Poll!DriverConstants, PollInv, Poll!Poll \/ Poll!Repoll PROVE PollInv'  OBVIOUS
<1>1. due' \in -PollSettings.interval..PollSettings.interval
  BY DEF PollInv, Poll!TypeOK, Poll!Poll, Poll!Repoll, Poll!Max0, Poll!DriverConstants
<1>2. up /\ ~quiet /\ Poll!Process(dev) /\ UNCHANGED <<up, hold, quiet, start, stale, dev, calm>>
  BY DEF Poll!Poll, Poll!Repoll
<1>3. QED  BY <1>1, <1>2, PollProcessInv

\* A due window is published as one batch.
LEMMA PollFlushInv == Poll!DriverConstants /\ PollInv /\ Poll!Flush => PollInv'
<1> SUFFICES ASSUME Poll!DriverConstants, PollInv, Poll!Flush PROVE PollInv'  OBVIOUS
<1> DEFINE d == Poll!Drained(st)
<1>1. /\ up /\ ~quiet /\ st # None /\ st.buffer # <<>> /\ Poll!Publish(st.buffer, d)
      /\ UNCHANGED <<up, hold, quiet, start, due, stale, dev, calm, awake>>
  BY DEF Poll!Flush, Poll!take_due
<1>2. st \in Poll!SignalState(Poll!Sample) /\ st.buffer \in Seq(Poll!Sample)
  BY <1>1 DEF PollInv, Poll!TypeOK, Poll!SignalState
<1>3. /\ d \in Poll!SignalState(Poll!Sample) /\ d.committed = st.committed /\ d.pending = st.pending
      /\ d.buffer = <<>> /\ d.last_good = st.last_good
  BY <1>2, PollDrainedShape
<1> HIDE DEF d
<1>4. st.committed = sent /\ st.pending = Poll!LastGood(st.buffer, None)
  BY <1>1 DEF PollInv, Poll!BaselineIsPublished
<1>5. PollClean(st.buffer)  BY <1>1, PollWindowTerms DEF PollInv
<1>6. d.committed = sent /\ d.pending = Poll!LastGood(st.buffer, None)  BY <1>3, <1>4
<1>7. /\ out' \in Seq(Poll!Sample) /\ Poll!PauseIsSilent'
      /\ st' \in Poll!SignalState(Poll!Sample) /\ st' # None /\ st'.last_good = d.last_good
      /\ bus' \in PollSettings.values \cup {None} /\ sent' \in PollSettings.values \cup {None}
      /\ PollWindowPart' /\ Poll!BaselineIsPublished' /\ Poll!WindowHasNoRepeats'
  BY <1>1, <1>2, <1>3, <1>5, <1>6, PollPublishInv
<1>8. Poll!TypeOK'  BY <1>1, <1>7 DEF PollInv, Poll!TypeOK
<1>9. PollSessionPart' /\ PollClockPart'  BY <1>1, <1>3, <1>7 DEF PollInv, PollSessionPart, PollClockPart
<1>10. QED  BY <1>7, <1>8, <1>9 DEF PollInv

\* Every step of the loop and of its environment.
LEMMA NextPoll == Poll!DriverConstants /\ PollInv /\ [Poll!Next]_(Poll!vars) => PollInv'
<1> SUFFICES ASSUME Poll!DriverConstants, PollInv, [Poll!Next]_(Poll!vars) PROVE PollInv'  OBVIOUS
<1>1. CASE Poll!Emit \/ Poll!DeviceChanges \/ Poll!Calm
  <2>1. /\ out' = <<>> /\ UNCHANGED <<up, hold, quiet, st, start, due, bus, sent, awake>>
        /\ stale' \in {0, 1} /\ dev' \in PollSettings.readings /\ calm' \in BOOLEAN
    BY <1>1 DEF Poll!Emit, Poll!DeviceChanges, Poll!Calm, Poll!engVars, PollInv, Poll!TypeOK
  <2>2. QED  BY <2>1, PollQuietStepInv
<1>2. CASE UNCHANGED Poll!vars
  <2>1. UNCHANGED <<up, hold, quiet, st, start, due, stale, dev, out, bus, calm, sent, awake>>
    BY <1>2 DEF Poll!vars, Poll!engVars
  <2>2. QED
    BY <2>1 DEF PollInv, Poll!TypeOK, PollSessionPart, PollWindowPart, PollClockPart, Poll!BaselineIsPublished,
                Poll!WindowHasNoRepeats, Poll!PauseIsSilent
<1>3. QED
  BY <1>1, <1>2, PollOpenInv, PollLeaveInv, PollsInv, PollFlushInv, PollPauseInv, PollResumeInv, PollTickInv
     DEF Poll!Next

-----------------------------------------------------------------------------
(* The consume loop *)

\* The GOOD samples of a push batch: LastGoodIs, LastGoodSmall and
\* LastGoodAppend for this instance.
LEMMA PushLastGood ==
    ASSUME NEW q, NEW e
    PROVE  Push!Goods(q) = Goods(q) /\ Push!LastGood(q, e) = LastGood(q, e)
BY DEF Push!Goods, Push!LastGood, Goods, LastGood

\* The last GOOD sample of a push batch.
LEMMA PushLastGoodIs ==
    ASSUME NEW S, NEW q \in Seq(S), Push!Goods(q) # {}
    PROVE  \E m \in Push!Goods(q) : /\ \A j \in Push!Goods(q) : j <= m
                                /\ \A e : Push!LastGood(q, e) = q[m].value
BY LastGoodIs, PushLastGood

\* An empty push batch, and one of one.
LEMMA PushLastGoodSmall ==
    ASSUME NEW e, NEW x
    PROVE  /\ Push!Goods(<<>>) = {} /\ Push!LastGood(<<>>, e) = e
           /\ x.quality = "GOOD" => Push!LastGood(<<x>>, e) = x.value /\ Push!Goods(<<x>>) # {}
           /\ x.quality # "GOOD" => Push!LastGood(<<x>>, e) = e /\ Push!Goods(<<x>>) = {}
<1>1. Push!Goods(<<>>) = Goods(<<>>) /\ Push!LastGood(<<>>, e) = LastGood(<<>>, e)  BY PushLastGood
<1>2. Push!Goods(<<x>>) = Goods(<<x>>) /\ Push!LastGood(<<x>>, e) = LastGood(<<x>>, e)  BY PushLastGood, Zenon
<1>3. /\ Goods(<<>>) = {} /\ LastGood(<<>>, e) = e
      /\ x.quality = "GOOD" => LastGood(<<x>>, e) = x.value /\ Goods(<<x>>) # {}
      /\ x.quality # "GOOD" => LastGood(<<x>>, e) = e /\ Goods(<<x>>) = {}
  BY LastGoodSmall
<1>4. QED  BY <1>1, <1>2, <1>3, Zenon

\* Buffering a sample in a push batch.
LEMMA PushLastGoodAppend ==
    ASSUME NEW S, NEW q \in Seq(S), NEW x \in S, NEW e
    PROVE  /\ x.quality = "GOOD" =>
                 /\ Push!Goods(Append(q, x)) = Push!Goods(q) \cup {Len(q) + 1}
                 /\ Push!LastGood(Append(q, x), e) = x.value
           /\ x.quality # "GOOD" =>
                 /\ Push!Goods(Append(q, x)) = Push!Goods(q)
                 /\ Push!LastGood(Append(q, x), e) = Push!LastGood(q, e)
<1> DEFINE a == Append(q, x)
<1>1. Push!Goods(a) = Goods(a) /\ Push!LastGood(a, e) = LastGood(a, e)  BY PushLastGood
<1>2. Push!Goods(q) = Goods(q) /\ Push!LastGood(q, e) = LastGood(q, e)  BY PushLastGood
<1>3. /\ x.quality = "GOOD" => Goods(a) = Goods(q) \cup {Len(q) + 1} /\ LastGood(a, e) = x.value
      /\ x.quality # "GOOD" => Goods(a) = Goods(q) /\ LastGood(a, e) = LastGood(q, e)
  BY LastGoodAppend
<1>4. QED  BY <1>1, <1>2, <1>3, Zenon

\* The loop's own flag and the shared one agree while a session is open; an
\* engine lives within a session, and one that has not met the field has not
\* published it.
PushSessionPart ==
    /\ quiet = (up /\ hold)
    /\ ~up => st = None
    /\ (up /\ st = None) => ref = None

\* What a sample on its way to the facade is: not of a window that a pause
\* discarded, and GOOD only with a value.
PushSound(s) == s.from # "window" /\ (s.quality = "GOOD" => s.value \in PushSettings.values)

\* The open window: none without batching, none during a pause.
PushWindowPart ==
    st # None =>
        /\ PushSettings.batch = 0 \/ hold => st.buffer = <<>>
        /\ \A i \in 1..Len(st.buffer) : PushSound(st.buffer[i])

\* The channel and the update the translator is blocked on.
PushChannelPart ==
    /\ \A i \in 1..Len(chan) : PushSound(chan[i])
    /\ \A i \in 1..Len(parked) : PushSound(parked[i])

\* The sample floor is measured from the last admission of any quality, which
\* is not before the last GOOD one.
PushFloorPart ==
    /\ ~early
    /\ (up /\ gap # None) => st # None /\ st.last_eligible # None /\ st.last_eligible <= gap

PushInv ==
    /\ Push!TypeOK /\ PushSessionPart /\ PushWindowPart /\ PushChannelPart /\ PushFloorPart
    /\ Push!BaselineIsTrue /\ Push!PauseIsSilent

-----------------------------------------------------------------------------
(* What the engine's operations do to a field's state *)

\* A field the engine has not met starts empty.
LEMMA PushFreshState == Push!DriverConstants => Push!Fresh \in Push!SignalState(Push!Sample)
BY EmptySeq DEF Push!DriverConstants, Push!EngineConstants, Push!Fresh, Push!SignalState, Push!Age

\* Reading a field (entry(id).or_default(), then last_good).
LEMMA PushReadShape ==
    ASSUME Push!DriverConstants, NEW x \in Push!SignalState(Push!Sample) \cup {None}, NEW r \in Push!Sample,
           NEW s, s = Push!Read(x, r)
    PROVE  /\ s \in Push!SignalState(Push!Sample) /\ s # None
           /\ s.committed = IF x = None THEN None ELSE x.committed
           /\ s.pending = IF x = None THEN None ELSE x.pending
           /\ s.buffer = IF x = None THEN <<>> ELSE x.buffer
           /\ s.last_eligible = IF x = None THEN None ELSE x.last_eligible
<1> DEFINE t == Push!Tracked(x)
<1>1. /\ t \in Push!SignalState(Push!Sample)
      /\ t.committed = IF x = None THEN None ELSE x.committed
      /\ t.pending = IF x = None THEN None ELSE x.pending
      /\ t.buffer = IF x = None THEN <<>> ELSE x.buffer
      /\ t.last_eligible = IF x = None THEN None ELSE x.last_eligible
  BY PushFreshState DEF Push!Tracked, Push!Fresh
<1>2. s = [t EXCEPT !.last_good = IF r.quality = "GOOD" THEN 0 ELSE @]
  BY DEF Push!Read
<1> HIDE DEF t
<1>3. s \in Push!SignalState(Push!Sample)
  BY <1>1, <1>2 DEF Push!DriverConstants, Push!EngineConstants, Push!SignalState, Push!Age
<1>4. QED
  BY <1>1, <1>2, <1>3 DEF Push!DriverConstants, Push!SignalState

\* A gated-in GOOD value is pending.
LEMMA PushAdmitShape ==
    ASSUME Push!DriverConstants, NEW x \in Push!SignalState(Push!Sample), NEW r \in Push!Sample,
           NEW s, s = Push!Admit(x, r)
    PROVE  /\ s \in Push!SignalState(Push!Sample) /\ s.committed = x.committed
           /\ s.pending = (IF r.quality = "GOOD" THEN r.value ELSE x.pending)
           /\ s.buffer = x.buffer /\ s.last_eligible = x.last_eligible
<1>1. (IF r.quality = "GOOD" THEN r.value ELSE x.pending) \in PushSettings.values \cup {None}
  BY DEF Push!Sample, Push!SignalState
<1>2. QED  BY <1>1 DEF Push!SignalState, Push!Admit

\* Batcher::add.
LEMMA PushBufferShape ==
    ASSUME Push!DriverConstants, NEW x \in Push!SignalState(Push!Sample), NEW m \in Push!Sample,
           NEW s, s = Push!Buffer(x, m)
    PROVE  /\ s \in Push!SignalState(Push!Sample) /\ s.committed = x.committed /\ s.pending = x.pending
           /\ s.buffer = Append(x.buffer, m) /\ s.last_eligible = x.last_eligible
<1>1. x.buffer \in Seq(Push!Sample) /\ Append(x.buffer, m) \in Seq(Push!Sample)
  BY AppendProperties DEF Push!SignalState
<1> DEFINE b == Append(x.buffer, m)
           w == IF x.window = None THEN 0 ELSE x.window
<1>2. s = [x EXCEPT !.buffer = b, !.window = w] /\ w \in Push!Age(PushSettings.batch)
  BY DEF Push!Buffer, Push!DriverConstants, Push!EngineConstants, Push!SignalState, Push!Age
<1> HIDE DEF b, w
<1>3. b \in Seq(Push!Sample)  BY <1>1 DEF b
<1>4. s \in Push!SignalState(Push!Sample) /\ s.committed = x.committed /\ s.pending = x.pending
           /\ s.buffer = b /\ s.last_eligible = x.last_eligible
  BY <1>2, <1>3 DEF Push!SignalState
<1>5. QED  BY <1>4 DEF b

\* Taking a due window.
LEMMA PushDrainedShape ==
    ASSUME Push!DriverConstants, NEW x \in Push!SignalState(Push!Sample), NEW s, s = Push!Drained(x)
    PROVE  /\ s \in Push!SignalState(Push!Sample) /\ s.committed = x.committed /\ s.pending = x.pending
           /\ s.buffer = <<>> /\ s.last_eligible = x.last_eligible
BY EmptySeq DEF Push!SignalState, Push!Drained, Push!Age

\* settle after the facade answered.
LEMMA PushSettleShape ==
    ASSUME Push!DriverConstants, NEW x \in Push!SignalState(Push!Sample), NEW published \in BOOLEAN,
           NEW s, s = Push!settle(x, published)
    PROVE  /\ s \in Push!SignalState(Push!Sample)
           /\ s.committed = (IF published /\ x.pending # None THEN x.pending ELSE x.committed)
           /\ s.pending = None
           /\ s.buffer = x.buffer /\ s.last_eligible = x.last_eligible
BY DEF Push!SignalState, Push!settle

\* What a pause leaves of a field's state.
LEMMA PushDiscardShape ==
    ASSUME Push!DriverConstants, NEW x \in Push!SignalState(Push!Sample), NEW s, s = Push!discard_open_batches(x)
    PROVE  /\ s \in Push!SignalState(Push!Sample) /\ s # None /\ s.committed = x.committed
           /\ s.pending = (IF x.buffer # <<>> THEN None ELSE x.pending)
           /\ s.buffer = <<>> /\ s.last_eligible = x.last_eligible
<1>1. x # None  BY DEF Push!DriverConstants
<1> DEFINE d == Push!Drained(x)
<1>2. s = [d EXCEPT !.pending = IF x.buffer # <<>> THEN None ELSE @]  BY <1>1 DEF Push!discard_open_batches
<1>3. /\ d \in Push!SignalState(Push!Sample) /\ d.committed = x.committed /\ d.pending = x.pending
      /\ d.buffer = <<>> /\ d.last_eligible = x.last_eligible
  BY PushDrainedShape
<1> HIDE DEF d
<1>4. s \in Push!SignalState(Push!Sample)  BY <1>2, <1>3 DEF Push!SignalState
<1>5. QED  BY <1>2, <1>3, <1>4 DEF Push!DriverConstants, Push!SignalState

\* An age that the clock advances.
LEMMA PushOlderAge ==
    ASSUME NEW top \in Nat, None \notin Int, NEW a \in Push!Age(top)
    PROVE  /\ Push!Older(a, top) \in Push!Age(top) /\ (Push!Older(a, top) = None <=> a = None)
           /\ a # None => a \in 0..top /\ Push!Older(a, top) \in 0..top
           /\ \A b \in 0..top : a # None /\ a <= b => Push!Older(a, top) <= Push!Older(b, top)
BY DEF Push!Older, Push!Age

\* A tick of the clock.
LEMMA PushAgedShape ==
    ASSUME Push!DriverConstants, NEW x \in Push!SignalState(Push!Sample), NEW s, s = Push!Aged(x)
    PROVE  /\ s \in Push!SignalState(Push!Sample) /\ s # None /\ s.committed = x.committed
           /\ s.pending = x.pending /\ s.buffer = x.buffer
           /\ s.last_eligible = Push!Older(x.last_eligible, PushSettings.floor)
<1>1. x # None /\ x.last_good \in Push!Age(PushSettings.stale)
      /\ x.last_eligible \in Push!Age(PushSettings.floor) /\ x.window \in Push!Age(PushSettings.batch)
  BY DEF Push!DriverConstants, Push!SignalState
<1> DEFINE g == Push!Older(x.last_good, PushSettings.stale)
           l == Push!Older(x.last_eligible, PushSettings.floor)
           w == Push!Older(x.window, PushSettings.batch)
<1>2. g \in Push!Age(PushSettings.stale) /\ l \in Push!Age(PushSettings.floor) /\ w \in Push!Age(PushSettings.batch)
  BY <1>1, PushOlderAge DEF Push!DriverConstants, Push!EngineConstants
<1>3. s = [x EXCEPT !.last_good = g, !.last_eligible = l, !.window = w]
  BY <1>1 DEF Push!Aged
<1> HIDE DEF g, l, w
<1>4. s \in Push!SignalState(Push!Sample) /\ s.committed = x.committed
      /\ s.pending = x.pending /\ s.buffer = x.buffer /\ s.last_eligible = l
  BY <1>2, <1>3 DEF Push!SignalState
<1>5. QED  BY <1>4 DEF l, Push!DriverConstants

\* An admitted sample restarts the sample floor.
LEMMA PushEligibleShape ==
    ASSUME Push!DriverConstants, NEW x \in Push!SignalState(Push!Sample), NEW s, s = Push!Eligible(x)
    PROVE  /\ s \in Push!SignalState(Push!Sample) /\ s.committed = x.committed /\ s.pending = x.pending
           /\ s.buffer = x.buffer /\ s.last_eligible = 0
BY DEF Push!DriverConstants, Push!EngineConstants, Push!SignalState, Push!Age, Push!Eligible

\* A resume re-bases to the snapshot.
LEMMA PushRebaseShape ==
    ASSUME Push!DriverConstants, NEW x \in Push!SignalState(Push!Sample) \cup {None},
           NEW v \in PushSettings.values \cup {None},
           NEW s, s = Push!rebase_from(x, v)
    PROVE  /\ s \in Push!SignalState(Push!Sample) /\ s # None /\ s.committed = v /\ s.pending = None
           /\ s.buffer = IF x = None THEN <<>> ELSE x.buffer
           /\ s.last_eligible = IF x = None THEN None ELSE x.last_eligible
<1> DEFINE t == Push!Tracked(x)
<1>1. /\ t \in Push!SignalState(Push!Sample)
      /\ t.buffer = IF x = None THEN <<>> ELSE x.buffer
      /\ t.last_eligible = IF x = None THEN None ELSE x.last_eligible
  BY PushFreshState DEF Push!Tracked, Push!Fresh
<1> DEFINE z == 0
<1>2. s = [t EXCEPT !.committed = v, !.pending = None, !.last_good = z] /\ z \in Push!Age(PushSettings.stale)
  BY DEF Push!rebase_from, Push!DriverConstants, Push!EngineConstants, Push!Age
<1> HIDE DEF t, z
<1>3. s \in Push!SignalState(Push!Sample)
  BY <1>1, <1>2 DEF Push!SignalState
<1>4. QED
  BY <1>1, <1>2, <1>3 DEF Push!DriverConstants, Push!SignalState

\* Marking where samples come from changes nothing else of them.
LEMMA PushMarkedShape ==
    ASSUME NEW q \in Seq(Push!Sample), NEW f \in {"now", "window", "queued"}
    PROVE  /\ Push!Marked(q, f) \in Seq(Push!Sample) /\ Len(Push!Marked(q, f)) = Len(q)
           /\ \A i \in 1..Len(q) : /\ Push!Marked(q, f)[i].value = q[i].value
                                   /\ Push!Marked(q, f)[i].quality = q[i].quality
                                   /\ Push!Marked(q, f)[i].from = f
<1>1. Len(q) \in Nat /\ DOMAIN q = 1..Len(q) /\ \A i \in 1..Len(q) : q[i] \in Push!Sample
  BY LenProperties, ElementOfSeq
<1> DEFINE z(i) == [q[i] EXCEPT !.from = f]
<1>2. \A i \in 1..Len(q) : z(i) \in Push!Sample /\ z(i).value = q[i].value /\ z(i).quality = q[i].quality
      /\ z(i).from = f
  BY <1>1 DEF Push!Sample
<1>3. Push!Marked(q, f) = [i \in 1..Len(q) |-> z(i)]  BY <1>1 DEF Push!Marked
<1> HIDE DEF z
<1>4. Push!Marked(q, f) \in [1..Len(q) -> Push!Sample]  BY <1>2, <1>3
<1>5. Push!Marked(q, f) \in Seq(Push!Sample)  BY <1>1, <1>4, SeqDef
<1>6. Len(Push!Marked(q, f)) = Len(q)  BY <1>1, <1>4, <1>5, LenProperties
<1>7. QED  BY <1>2, <1>3, <1>5, <1>6

-----------------------------------------------------------------------------
(* Batches and the channel *)

\* Every sample of the batch is sound.
PushClean(b) == \A i \in 1..Len(b) : PushSound(b[i])

\* Buffering or queueing a sound sample.
LEMMA PushCleanAppend ==
    ASSUME NEW b \in Seq(Push!Sample), PushClean(b), NEW m \in Push!Sample, PushSound(m)
    PROVE  PushClean(Append(b, m)) /\ Append(b, m) \in Seq(Push!Sample) /\ Len(Append(b, m)) = Len(b) + 1
<1> DEFINE a == Append(b, m)
<1>1. /\ Len(a) = Len(b) + 1 /\ Len(b) \in Nat /\ a[Len(b) + 1] = m /\ a \in Seq(Push!Sample)
      /\ \A i \in 1..Len(b) : a[i] = b[i]
  BY AppendIn
<1> HIDE DEF a
<1>2. ASSUME NEW i \in 1..Len(a) PROVE PushSound(a[i])
  <2>1. CASE i = Len(b) + 1  BY <1>1, <2>1
  <2>2. CASE i # Len(b) + 1
    <3>1. i \in 1..Len(b)  BY <1>1, <2>2
    <3>2. QED  BY <1>1, <3>1 DEF PushClean
  <2>3. QED  BY <2>1, <2>2
<1>3. QED  BY <1>1, <1>2 DEF PushClean, a

\* A batch of none and of one.
LEMMA PushCleanSmall ==
    /\ PushClean(<<>>) /\ <<>> \in Seq(Push!Sample) /\ Len(<<>>) = 0
    /\ \A m \in Push!Sample : /\ <<m>> \in Seq(Push!Sample) /\ Len(<<m>>) = 1 /\ <<m>> # <<>>
                         /\ PushSound(m) => PushClean(<<m>>)
<1>1. <<>> \in Seq(Push!Sample) /\ Len(<<>>) = 0  BY EmptySeq
<1>2. PushClean(<<>>)  BY <1>1 DEF PushClean
<1>3. ASSUME NEW m \in Push!Sample
      PROVE  <<m>> \in Seq(Push!Sample) /\ Len(<<m>>) = 1 /\ <<m>> # <<>> /\ (PushSound(m) => PushClean(<<m>>))
  <2> DEFINE b == <<m>>
  <2>1. b \in Seq(Push!Sample) /\ Len(b) = 1 /\ b[1] = m /\ b # <<>>  OBVIOUS
  <2> HIDE DEF b
  <2>2. PushSound(m) => PushClean(b)  BY <2>1 DEF PushClean
  <2>3. QED  BY <2>1, <2>2 DEF b
<1>4. QED  BY <1>1, <1>2, <1>3

\* The newest GOOD value of a clean batch is a value.
LEMMA PushNewestIsValue ==
    ASSUME NEW b \in Seq(Push!Sample), PushClean(b), NEW e
    PROVE  IF Push!Goods(b) = {} THEN Push!LastGood(b, e) = e
           ELSE Push!LastGood(b, e) = Push!LastGood(b, None) /\ Push!LastGood(b, None) \in PushSettings.values
<1>1. CASE Push!Goods(b) = {}  BY <1>1 DEF Push!LastGood
<1>2. CASE Push!Goods(b) # {}
  <2>1. PICK m \in Push!Goods(b) : \A x : Push!LastGood(b, x) = b[m].value  BY <1>2, PushLastGoodIs
  <2>2. b[m].value \in PushSettings.values  BY <2>1 DEF Push!Goods, PushClean, PushSound
  <2>3. QED  BY <1>2, <2>1, <2>2
<1>3. QED  BY <1>1, <1>2

\* Receiving an update, with the translator's blocked send going through.
LEMMA PushReceived ==
    ASSUME NEW q \in Seq(Push!Sample), q # <<>>, NEW p \in Seq(Push!Sample), Len(p) <= 1,
           PushClean(q), PushClean(p)
    PROVE  /\ Tail(q) \o p \in Seq(Push!Sample) /\ Len(Tail(q) \o p) <= Len(q) /\ PushClean(Tail(q) \o p)
           /\ Head(q) \in Push!Sample /\ PushSound(Head(q))
<1> DEFINE t == Tail(q)
           c == t \o p
<1>1. /\ t \in Seq(Push!Sample) /\ Len(t) = Len(q) - 1 /\ Len(q) \in Nat \ {0}
      /\ \A i \in 1..Len(t) : t[i] = q[i + 1] /\ i + 1 \in 1..Len(q)
      /\ q[1] = Head(q)
  BY TailIn
<1>2. Len(p) \in Nat /\ Len(t) \in Nat  BY <1>1, LenProperties
<1> HIDE DEF t
<1>3. /\ c \in Seq(Push!Sample) /\ Len(c) = Len(t) + Len(p)
      /\ \A i \in 1..(Len(t) + Len(p)) : c[i] = IF i <= Len(t) THEN t[i] ELSE p[i - Len(t)]
  BY <1>1, ConcatProperties
<1> HIDE DEF c
<1>4. ASSUME NEW i \in 1..Len(c) PROVE PushSound(c[i])
  <2>1. CASE i <= Len(t)
    <3>1. i \in 1..Len(t) /\ c[i] = t[i]  BY <1>2, <1>3, <2>1
    <3>2. c[i] = q[i + 1] /\ i + 1 \in 1..Len(q)  BY <1>1, <3>1
    <3>3. QED  BY <3>2 DEF PushClean
  <2>2. CASE ~(i <= Len(t))
    <3>1. i - Len(t) \in 1..Len(p) /\ c[i] = p[i - Len(t)]  BY <1>2, <1>3, <2>2
    <3>2. QED  BY <3>1 DEF PushClean
  <2>3. QED  BY <2>1, <2>2
<1>5. 1 \in 1..Len(q)  BY <1>1
<1>6. Head(q) \in Push!Sample /\ PushSound(Head(q))  BY <1>1, <1>5, ElementOfSeq DEF PushClean
<1>7. Len(c) <= Len(q)  BY <1>1, <1>2, <1>3
<1>8. QED  BY <1>3, <1>4, <1>6, <1>7 DEF PushClean, c, t

\* A resume marks what is in the channel; it stays sound.
LEMMA PushMarkedClean ==
    ASSUME NEW q \in Seq(Push!Sample), PushClean(q)
    PROVE  PushClean(Push!Marked(q, "queued"))
<1> DEFINE z == Push!Marked(q, "queued")
<1>1. /\ Len(z) = Len(q)
      /\ \A i \in 1..Len(q) : z[i].value = q[i].value /\ z[i].quality = q[i].quality /\ z[i].from = "queued"
  BY PushMarkedShape
<1> HIDE DEF z
<1>2. PushClean(z)  BY <1>1 DEF PushClean, PushSound
<1>3. QED  BY <1>2 DEF z

-----------------------------------------------------------------------------
(* One step per action *)

\* The parts of the invariant about windows and channel, in these terms.
LEMMA PushCleanTerms ==
    /\ PushWindowPart <=> (st # None => (PushSettings.batch = 0 \/ hold => st.buffer = <<>>) /\ PushClean(st.buffer))
    /\ PushChannelPart <=> PushClean(chan) /\ PushClean(parked)
BY DEF PushWindowPart, PushChannelPart, PushClean

\* The window after a step that leaves it alone.
LEMMA PushWindowKept ==
    ASSUME PushInv, st # None, st' # None, ref' = ref, hold' => hold,
           st'.committed = st.committed, st'.pending = st.pending, st'.buffer = st.buffer
    PROVE  PushWindowPart' /\ Push!BaselineIsTrue'
BY DEF PushInv, PushWindowPart, Push!BaselineIsTrue

\* The window after a step that leaves it empty.
LEMMA PushWindowEmpty ==
    ASSUME st' # None, st'.committed = ref', st'.pending = None, st'.buffer = <<>>
    PROVE  PushWindowPart' /\ Push!BaselineIsTrue'
<1>1. Push!BaselineIsTrue'  BY PushLastGoodSmall DEF Push!BaselineIsTrue
<1>2. Len(st'.buffer) = 0  OBVIOUS
<1>3. QED  BY <1>1, <1>2 DEF PushWindowPart

\* An engine that is gone, or that has not met the field, has no window.
LEMMA PushWindowGone == st' = None => PushWindowPart' /\ Push!BaselineIsTrue'
BY DEF PushWindowPart, Push!BaselineIsTrue

\* Nothing is published by a step that hands nothing to the facade.
LEMMA PushSilentStep == out' = <<>> => Push!PauseIsSilent' /\ out' \in Seq(Push!Sample)
BY EmptySeq DEF Push!PauseIsSilent

\* An empty channel.
LEMMA PushChannelEmpty ==
    ASSUME Push!DriverConstants, chan' = <<>>, parked' = <<>>
    PROVE  /\ PushChannelPart' /\ chan' \in Seq(Push!Sample) /\ parked' \in Seq(Push!Sample)
           /\ Len(chan') <= PushSettings.queue /\ Len(parked') <= 1
<1>1. PushClean(chan') /\ PushClean(parked') /\ Len(chan') = 0 /\ Len(parked') = 0
      /\ chan' \in Seq(Push!Sample) /\ parked' \in Seq(Push!Sample)
  BY PushCleanSmall
<1>2. QED  BY <1>1 DEF PushChannelPart, PushClean, Push!DriverConstants

\* The initial state.
LEMMA InitPush == Push!DriverConstants /\ Push!Init => PushInv
<1> SUFFICES ASSUME Push!DriverConstants, Push!Init PROVE PushInv  OBVIOUS
<1>1. /\ Len(chan) = 0 /\ Len(parked) = 0 /\ Len(out) = 0
      /\ chan \in Seq(Push!Sample) /\ parked \in Seq(Push!Sample) /\ out \in Seq(Push!Sample)
  BY EmptySeq DEF Push!Init
<1>2. Push!TypeOK
  <2>1. start \in 0..PushSettings.stale /\ Len(chan) <= PushSettings.queue /\ Len(parked) <= 1
    BY <1>1 DEF Push!Init, Push!DriverConstants, Push!EngineConstants
  <2>2. gap \in Push!Age(PushSettings.floor)  BY DEF Push!Init, Push!Age
  <2>3. QED  BY <1>1, <2>1, <2>2 DEF Push!Init, Push!TypeOK
<1>3. PushChannelPart  BY <1>1 DEF PushChannelPart
<1>4. QED
  BY <1>2, <1>3 DEF Push!Init, PushInv, PushSessionPart, PushWindowPart, PushFloorPart, Push!BaselineIsTrue,
         Push!PauseIsSilent

\* A class-1 session opens.
LEMMA PushOpenInv == Push!DriverConstants /\ PushInv /\ Push!Open => PushInv'
<1> SUFFICES ASSUME Push!DriverConstants, PushInv, Push!Open PROVE PushInv'  OBVIOUS
<1>1. PushWindowPart' /\ Push!BaselineIsTrue'  BY PushWindowGone DEF Push!Open
<1>2. Push!PauseIsSilent' /\ out' \in Seq(Push!Sample)  BY PushSilentStep DEF Push!Open
<1>3. /\ PushChannelPart' /\ chan' \in Seq(Push!Sample) /\ parked' \in Seq(Push!Sample)
      /\ Len(chan') <= PushSettings.queue /\ Len(parked') <= 1 /\ parked' = <<>>
  BY PushChannelEmpty DEF Push!Open
<1>4. Push!TypeOK'
  <2>1. 0 \in 0..PushSettings.stale  BY DEF Push!DriverConstants, Push!EngineConstants
  <2>2. QED  BY <1>2, <1>3, <2>1 DEF PushInv, Push!TypeOK, Push!Open, Push!Age
<1>5. PushSessionPart' /\ PushFloorPart'  BY DEF PushInv, PushSessionPart, PushFloorPart, Push!TypeOK, Push!Open
<1>6. QED  BY <1>1, <1>2, <1>3, <1>4, <1>5 DEF PushInv

\* The loop ends and the session is closed.
LEMMA PushLeaveInv == Push!DriverConstants /\ PushInv /\ Push!Leave => PushInv'
<1> SUFFICES ASSUME Push!DriverConstants, PushInv, Push!Leave PROVE PushInv'  OBVIOUS
<1>1. PushWindowPart' /\ Push!BaselineIsTrue'  BY PushWindowGone DEF Push!Leave
<1>2. Push!PauseIsSilent' /\ out' \in Seq(Push!Sample)  BY PushSilentStep DEF Push!Leave
<1>3. /\ PushChannelPart' /\ chan' \in Seq(Push!Sample) /\ parked' \in Seq(Push!Sample)
      /\ Len(chan') <= PushSettings.queue /\ Len(parked') <= 1 /\ parked' = <<>>
  BY PushChannelEmpty DEF Push!Leave
<1>4. Push!TypeOK'  BY <1>2, <1>3 DEF PushInv, Push!TypeOK, Push!Leave
<1>5. PushSessionPart' /\ PushFloorPart'  BY DEF PushInv, PushSessionPart, PushFloorPart, Push!Leave
<1>6. QED  BY <1>1, <1>2, <1>3, <1>4, <1>5 DEF PushInv

\* A step that touches neither the engine, the flags nor the channel.
LEMMA PushQuietStepInv ==
    ASSUME Push!DriverConstants, PushInv, out' = <<>>,
           UNCHANGED <<up, hold, quiet, st, start, snap, chan, parked, ref, rebased, gap, early>>,
           stale' \in {0, 1}, dev' \in PushSettings.readings, calm' \in BOOLEAN
    PROVE  PushInv'
<1>1. Push!PauseIsSilent' /\ out' \in Seq(Push!Sample)  BY PushSilentStep
<1>2. Push!TypeOK'  BY <1>1 DEF PushInv, Push!TypeOK
<1>3. PushSessionPart' /\ PushWindowPart' /\ PushChannelPart' /\ PushFloorPart' /\ Push!BaselineIsTrue'
  BY DEF PushInv, PushSessionPart, PushWindowPart, PushChannelPart, PushFloorPart, Push!BaselineIsTrue
<1>4. QED  BY <1>1, <1>2, <1>3 DEF PushInv

\* The translator writes the snapshot and queues, or parks, the update.
LEMMA PushEmitDataInv == Push!DriverConstants /\ PushInv /\ Push!EmitData => PushInv'
<1> SUFFICES ASSUME Push!DriverConstants, PushInv, Push!EmitData PROVE PushInv'  OBVIOUS
<1> DEFINE m == Push!Stamp(dev)
<1>1. /\ parked = <<>> /\ snap' = dev /\ out' = <<>>
      /\ UNCHANGED <<up, hold, quiet, st, start, stale, dev, calm, ref, rebased, gap, early>>
      /\ IF Len(chan) < PushSettings.queue THEN chan' = Append(chan, m) /\ parked' = parked
         ELSE parked' = <<m>> /\ chan' = chan
  BY DEF Push!EmitData
<1>2. m \in Push!Sample /\ PushSound(m)
  <2>1. dev \in PushSettings.readings  BY DEF PushInv, Push!TypeOK
  <2>2. /\ dev.value \in PushSettings.values \cup {None} /\ dev.quality \in Push!Qualities
        /\ dev.quality = "GOOD" => dev.value \in PushSettings.values
    BY <2>1 DEF Push!DriverConstants, Push!Reading
  <2>3. QED  BY <2>2 DEF Push!Stamp, Push!Sample, PushSound
<1> HIDE DEF m
<1>3. /\ chan \in Seq(Push!Sample) /\ Len(chan) <= PushSettings.queue /\ PushClean(chan) /\ Len(chan) \in Nat
      /\ parked \in Seq(Push!Sample) /\ PushClean(parked)
  BY PushCleanTerms, LenProperties DEF PushInv, Push!TypeOK
<1>4. /\ chan' \in Seq(Push!Sample) /\ Len(chan') <= PushSettings.queue /\ PushClean(chan')
      /\ parked' \in Seq(Push!Sample) /\ Len(parked') <= 1 /\ PushClean(parked')
      /\ parked' # <<>> => Len(chan') = PushSettings.queue
  <2>1. CASE Len(chan) < PushSettings.queue
    <3>1. PushClean(Append(chan, m)) /\ Append(chan, m) \in Seq(Push!Sample) /\ Len(Append(chan, m)) = Len(chan) + 1
      BY <1>2, <1>3, PushCleanAppend
    <3>2. chan' = Append(chan, m) /\ parked' = parked /\ parked = <<>> /\ Len(parked) = 0  BY <1>1, <2>1
    <3>3. Len(chan') <= PushSettings.queue /\ Len(parked') <= 1  BY <1>3, <2>1, <3>1, <3>2 DEF Push!DriverConstants
    <3>4. QED  BY <1>3, <3>1, <3>2, <3>3, Zenon
  <2>2. CASE ~(Len(chan) < PushSettings.queue)
    <3>1. <<m>> \in Seq(Push!Sample) /\ Len(<<m>>) = 1 /\ PushClean(<<m>>)  BY <1>2, PushCleanSmall
    <3>2. chan' = chan /\ parked' = <<m>>  BY <1>1, <2>2
    <3>3. Len(chan') = PushSettings.queue /\ Len(parked') <= 1 /\ Len(chan') <= PushSettings.queue
      BY <1>3, <2>2, <3>1, <3>2 DEF Push!DriverConstants
    <3>4. QED  BY <1>3, <3>1, <3>2, <3>3, Zenon
  <2>3. QED  BY <2>1, <2>2
<1>5. PushChannelPart'  BY <1>4 DEF PushChannelPart, PushClean
<1>6. Push!PauseIsSilent' /\ out' \in Seq(Push!Sample)  BY <1>1, PushSilentStep
<1>7. Push!TypeOK'  BY <1>1, <1>4, <1>6 DEF PushInv, Push!TypeOK
<1>8. PushSessionPart' /\ PushWindowPart' /\ PushFloorPart' /\ Push!BaselineIsTrue'
  BY <1>1 DEF PushInv, PushSessionPart, PushWindowPart, PushFloorPart, Push!BaselineIsTrue
<1>9. QED  BY <1>5, <1>6, <1>7, <1>8 DEF PushInv

\* `sb/pause` discards the open window with its pending baseline.
LEMMA PushPauseInv == Push!DriverConstants /\ PushInv /\ Push!Pause => PushInv'
<1> SUFFICES ASSUME Push!DriverConstants, PushInv, Push!Pause PROVE PushInv'  OBVIOUS
<1>1. Push!PauseIsSilent' /\ out' \in Seq(Push!Sample)  BY PushSilentStep DEF Push!Pause
<1>2. /\ hold' = TRUE /\ quiet' = up
      /\ UNCHANGED <<up, start, stale, snap, chan, parked, dev, calm, ref, rebased, gap, early>>
  BY DEF Push!Pause, Push!linkVars
<1>3. PushChannelPart'  BY <1>2 DEF PushInv, PushChannelPart
<1>4. CASE st = None
  <2>1. st' = None  BY <1>4 DEF Push!Pause, Push!discard_open_batches
  <2>2. PushWindowPart' /\ Push!BaselineIsTrue'  BY <2>1, PushWindowGone
  <2>3. Push!TypeOK'  BY <1>1, <1>2, <2>1 DEF PushInv, Push!TypeOK
  <2>4. PushSessionPart' /\ PushFloorPart'
    BY <1>2, <1>4, <2>1 DEF PushInv, PushSessionPart, PushFloorPart, Push!TypeOK
  <2>5. QED  BY <1>1, <1>3, <2>2, <2>3, <2>4 DEF PushInv
<1>5. CASE st # None
  <2> DEFINE s == Push!discard_open_batches(st)
  <2>1. st \in Push!SignalState(Push!Sample)  BY <1>5 DEF PushInv, Push!TypeOK
  <2>2. /\ s \in Push!SignalState(Push!Sample) /\ s # None /\ s.committed = st.committed
        /\ s.pending = (IF st.buffer # <<>> THEN None ELSE st.pending)
        /\ s.buffer = <<>> /\ s.last_eligible = st.last_eligible
    BY <2>1, PushDiscardShape
  <2>3. st' = [s EXCEPT !.buffer = Push!Marked(@, "window")]  BY <2>2 DEF Push!Pause
  <2> HIDE DEF s
  <2>4. Push!Marked(<<>>, "window") = <<>>
    <3>1. DOMAIN <<>> = {}  OBVIOUS
    <3>2. QED  BY <3>1 DEF Push!Marked
  <2>5. st' = s  BY <2>2, <2>3, <2>4 DEF Push!SignalState
  <2>6. s.pending = None
    <3>1. st.pending = Push!LastGood(st.buffer, None)  BY <1>5 DEF PushInv, Push!BaselineIsTrue
    <3>2. QED  BY <2>2, <3>1, PushLastGoodSmall
  <2>7. st'.committed = ref'  BY <1>2, <1>5, <2>2, <2>5 DEF PushInv, Push!BaselineIsTrue
  <2>8. PushWindowPart' /\ Push!BaselineIsTrue'  BY <2>2, <2>5, <2>6, <2>7, PushWindowEmpty
  <2>9. Push!TypeOK'  BY <1>1, <1>2, <2>2, <2>5 DEF PushInv, Push!TypeOK
  <2>10. PushSessionPart' /\ PushFloorPart'
    BY <1>2, <1>5, <2>2, <2>5 DEF PushInv, PushSessionPart, PushFloorPart, Push!TypeOK
  <2>11. QED  BY <1>1, <1>3, <2>8, <2>9, <2>10 DEF PushInv
<1>6. QED  BY <1>4, <1>5

\* `sb/resume` makes the snapshot the baseline and marks what is still queued.
LEMMA PushResumeInv == Push!DriverConstants /\ PushInv /\ Push!Resume => PushInv'
<1> SUFFICES ASSUME Push!DriverConstants, PushInv, Push!Resume PROVE PushInv'  OBVIOUS
<1>1. Push!PauseIsSilent' /\ out' \in Seq(Push!Sample)  BY PushSilentStep DEF Push!Resume
<1>2. /\ hold' = FALSE /\ quiet' = FALSE
      /\ UNCHANGED <<up, start, stale, snap, dev, calm, gap, early>>
  BY DEF Push!Resume
<1>3. /\ chan' \in Seq(Push!Sample) /\ Len(chan') = Len(chan) /\ PushClean(chan')
      /\ parked' \in Seq(Push!Sample) /\ Len(parked') = Len(parked) /\ PushClean(parked')
  <2>1. chan \in Seq(Push!Sample) /\ PushClean(chan) /\ parked \in Seq(Push!Sample) /\ PushClean(parked)
    BY PushCleanTerms DEF PushInv, Push!TypeOK
  <2>2. CASE hold
    <3>1. chan' = Push!Marked(chan, "queued") /\ parked' = Push!Marked(parked, "queued")  BY <2>2 DEF Push!Resume
    <3>2. QED  BY <2>1, <3>1, PushMarkedShape, PushMarkedClean
  <2>3. CASE ~hold
    <3>1. chan' = chan /\ parked' = parked  BY <2>3 DEF Push!Resume
    <3>2. QED  BY <2>1, <3>1
  <2>4. QED  BY <2>2, <2>3
<1>4. PushChannelPart'  BY <1>3 DEF PushChannelPart, PushClean
<1>5. Len(chan') <= PushSettings.queue /\ Len(parked') <= 1 /\ (parked' # <<>> => Len(chan') = PushSettings.queue)
  <2>1. parked' # <<>> => parked # <<>>
    <3>1. parked = <<>> => Len(parked) = 0  OBVIOUS
    <3>2. Len(parked') = 0 => parked' = <<>>  BY <1>3, EmptySeq
    <3>3. QED  BY <1>3, <3>1, <3>2
  <2>2. QED  BY <1>3, <2>1 DEF PushInv, Push!TypeOK
<1>6. SUFFICES /\ st' \in Push!SignalState(Push!Sample) \cup {None}
               /\ ref' \in PushSettings.values \cup {None} /\ rebased' \in Push!Qualities \cup {None}
               /\ PushWindowPart' /\ Push!BaselineIsTrue'
               /\ st = None => (st' = None /\ ref' = ref) \/ (up /\ st' # None)
               /\ st # None => st' # None /\ st'.last_eligible = st.last_eligible
  <2>1. Push!TypeOK'  BY <1>1, <1>2, <1>3, <1>5, <1>6 DEF PushInv, Push!TypeOK
  <2>2. PushSessionPart'  BY <1>2, <1>6 DEF PushInv, PushSessionPart, Push!TypeOK
  <2>3. PushFloorPart'  BY <1>2, <1>6 DEF PushInv, PushFloorPart
  <2>4. QED  BY <1>1, <1>4, <1>6, <2>1, <2>2, <2>3 DEF PushInv
<1>7. CASE up /\ hold /\ snap # None
  <2>1. st' = Push!rebase_from(st, snap.value) /\ ref' = snap.value /\ rebased' = snap.quality
    BY <1>7 DEF Push!Resume
  <2>2. snap \in PushSettings.readings /\ st \in Push!SignalState(Push!Sample) \cup {None}
    BY <1>7 DEF PushInv, Push!TypeOK
  <2>3. snap.value \in PushSettings.values \cup {None} /\ snap.quality \in Push!Qualities
    BY <2>2 DEF Push!DriverConstants, Push!Reading
  <2>4. /\ st' \in Push!SignalState(Push!Sample) /\ st' # None /\ st'.committed = snap.value /\ st'.pending = None
        /\ st'.buffer = IF st = None THEN <<>> ELSE st.buffer
        /\ st'.last_eligible = IF st = None THEN None ELSE st.last_eligible
    BY <2>1, <2>2, <2>3, PushRebaseShape
  <2>5. st'.buffer = <<>>  BY <1>7, <2>4 DEF PushInv, PushWindowPart
  <2>6. PushWindowPart' /\ Push!BaselineIsTrue'  BY <2>1, <2>4, <2>5, PushWindowEmpty
  <2>7. QED  BY <1>7, <2>1, <2>3, <2>4, <2>6
<1>8. CASE ~(up /\ hold /\ snap # None)
  <2>1. st' = st /\ ref' = ref /\ rebased' = rebased  BY <1>8 DEF Push!Resume
  <2>2. PushWindowPart' /\ Push!BaselineIsTrue'
    <3>1. CASE st = None  BY <2>1, <3>1, PushWindowGone
    <3>2. CASE st # None  BY <1>2, <2>1, <3>2, PushWindowKept
    <3>3. QED  BY <3>1, <3>2
  <2>3. QED  BY <2>1, <2>2 DEF PushInv, Push!TypeOK
<1>9. QED  BY <1>7, <1>8

\* Time passes; the floor and its history advance together.
LEMMA PushTickInv == Push!DriverConstants /\ PushInv /\ Push!Tick => PushInv'
<1> SUFFICES ASSUME Push!DriverConstants, PushInv, Push!Tick PROVE PushInv'  OBVIOUS
<1>1. Push!PauseIsSilent' /\ out' \in Seq(Push!Sample)  BY PushSilentStep DEF Push!Tick
<1>2. /\ st' = Push!Aged(st) /\ gap' = Push!Older(gap, PushSettings.floor)
      /\ UNCHANGED <<up, hold, quiet, stale, snap, chan, parked, dev, calm, ref, rebased, early>>
  BY DEF Push!Tick, Push!linkVars
<1>3. start' \in 0..PushSettings.stale
  BY DEF PushInv, Push!TypeOK, Push!Tick, Push!Older, Push!DriverConstants, Push!EngineConstants
<1>4. /\ gap \in Push!Age(PushSettings.floor) /\ gap' \in Push!Age(PushSettings.floor) /\ (gap' = None <=> gap = None)
      /\ gap # None => gap \in 0..PushSettings.floor
  BY <1>2, PushOlderAge DEF PushInv, Push!TypeOK, Push!DriverConstants, Push!EngineConstants
<1>5. PushChannelPart'  BY <1>2 DEF PushInv, PushChannelPart
<1>6. CASE st = None
  <2>1. st' = None  BY <1>2, <1>6 DEF Push!Aged
  <2>2. PushWindowPart' /\ Push!BaselineIsTrue'  BY <2>1, PushWindowGone
  <2>3. Push!TypeOK'  BY <1>1, <1>2, <1>3, <1>4, <2>1 DEF PushInv, Push!TypeOK
  <2>4. PushSessionPart' /\ PushFloorPart'  BY <1>2, <1>4, <1>6, <2>1 DEF PushInv, PushSessionPart, PushFloorPart
  <2>5. QED  BY <1>1, <1>5, <2>2, <2>3, <2>4 DEF PushInv
<1>7. CASE st # None
  <2>1. st \in Push!SignalState(Push!Sample)  BY <1>7 DEF PushInv, Push!TypeOK
  <2>2. /\ st' \in Push!SignalState(Push!Sample) /\ st' # None /\ st'.committed = st.committed
        /\ st'.pending = st.pending /\ st'.buffer = st.buffer
        /\ st'.last_eligible = Push!Older(st.last_eligible, PushSettings.floor)
    BY <1>2, <2>1, PushAgedShape
  <2>3. PushWindowPart' /\ Push!BaselineIsTrue'  BY <1>2, <1>7, <2>2, PushWindowKept
  <2>4. Push!TypeOK'  BY <1>1, <1>2, <1>3, <1>4, <2>2 DEF PushInv, Push!TypeOK
  <2>5. PushSessionPart'  BY <1>2, <1>7, <2>2 DEF PushInv, PushSessionPart
  <2>6. PushFloorPart'
    <3>1. ~early'  BY <1>2 DEF PushInv, PushFloorPart
    <3>2. ASSUME up', gap' # None PROVE st'.last_eligible # None /\ st'.last_eligible <= gap'
      <4>1. gap # None /\ gap \in 0..PushSettings.floor  BY <1>4, <3>2
      <4>2. st.last_eligible # None /\ st.last_eligible <= gap  BY <1>2, <3>2, <4>1 DEF PushInv, PushFloorPart
      <4>3. st.last_eligible \in Push!Age(PushSettings.floor)  BY <2>1 DEF Push!SignalState
      <4>4. QED  BY <1>2, <2>2, <4>1, <4>2, <4>3, PushOlderAge DEF Push!DriverConstants, Push!EngineConstants
    <3>3. QED  BY <2>2, <3>1, <3>2 DEF PushFloorPart
  <2>7. QED  BY <1>1, <1>5, <2>3, <2>4, <2>5, <2>6 DEF PushInv
<1>8. QED  BY <1>6, <1>7

\* What the facade was handed is published, outside a pause.
LEMMA PushPublishInv ==
    ASSUME Push!DriverConstants, PushInv, up, ~quiet,
           NEW b \in Seq(Push!Sample), PushClean(b), b # <<>>,
           NEW s \in Push!SignalState(Push!Sample), s.committed = ref, s.pending = Push!LastGood(b, None),
           s.buffer = <<>>, Push!Publish(b, s), UNCHANGED <<up, hold>>
    PROVE  /\ out' \in Seq(Push!Sample) /\ Push!PauseIsSilent'
           /\ st' \in Push!SignalState(Push!Sample) /\ st' # None /\ st'.last_eligible = s.last_eligible
           /\ ref' \in PushSettings.values \cup {None} /\ rebased' \in Push!Qualities \cup {None}
           /\ PushWindowPart' /\ Push!BaselineIsTrue'
<1>1. calm \in BOOLEAN /\ ref \in PushSettings.values \cup {None} /\ rebased \in Push!Qualities \cup {None}
  BY DEF PushInv, Push!TypeOK
<1>2. PICK published \in BOOLEAN :
          /\ out' = b /\ st' = Push!settle(s, published)
          /\ ref' = (IF published THEN Push!LastGood(b, ref) ELSE ref)
          /\ rebased' = (IF published /\ Push!Goods(b) # {} THEN None ELSE rebased)
  BY <1>1 DEF Push!Publish
<1>3. /\ st' \in Push!SignalState(Push!Sample) /\ st'.pending = None /\ st'.buffer = <<>>
      /\ st'.last_eligible = s.last_eligible
      /\ st'.committed = (IF published /\ s.pending # None THEN s.pending ELSE s.committed)
  BY <1>2, PushSettleShape
<1>4. \A e : IF Push!Goods(b) = {} THEN Push!LastGood(b, e) = e
             ELSE Push!LastGood(b, e) = Push!LastGood(b, None) /\ Push!LastGood(b, None) \in PushSettings.values
  BY PushNewestIsValue
<1>5. ref' \in PushSettings.values \cup {None} /\ rebased' \in Push!Qualities \cup {None}
  BY <1>1, <1>2, <1>4
<1>6. st'.committed = ref'
  BY <1>2, <1>3, <1>4 DEF Push!DriverConstants, Push!EngineConstants
<1>7. st' # None  BY <1>3 DEF Push!DriverConstants
<1>8. PushWindowPart' /\ Push!BaselineIsTrue'  BY <1>3, <1>6, <1>7, PushWindowEmpty
<1>9. Push!PauseIsSilent'
  <2>1. ~hold'  BY DEF PushInv, PushSessionPart
  <2>2. DOMAIN b = 1..Len(b)  BY LenProperties
  <2>3. QED  BY <1>2, <2>1, <2>2 DEF Push!PauseIsSilent, PushClean, PushSound
<1>10. QED  BY <1>2, <1>3, <1>5, <1>7, <1>8, <1>9

\* process_frame: throttled or suppressed, buffered, or published at once.
LEMMA PushProcessInv ==
    ASSUME Push!DriverConstants, PushInv, up, ~quiet, NEW f \in Push!Sample, PushSound(f), Push!Process(f),
           UNCHANGED <<up, hold, quiet>>
    PROVE  /\ st' \in Push!SignalState(Push!Sample) /\ st' # None
           /\ out' \in Seq(Push!Sample) /\ Push!PauseIsSilent'
           /\ ref' \in PushSettings.values \cup {None} /\ rebased' \in Push!Qualities \cup {None}
           /\ gap' \in Push!Age(PushSettings.floor) /\ early' \in BOOLEAN
           /\ PushWindowPart' /\ Push!BaselineIsTrue' /\ PushFloorPart'
<1> DEFINE s1 == Push!Read(st, f)
           a  == Push!Admit(s1, f)
           s2 == Push!Eligible(a)
           pass == ~Push!Throttled(s1, f) /\ Push!gate_passes(s1, f)
<1>1. st \in Push!SignalState(Push!Sample) \cup {None}  BY DEF PushInv, Push!TypeOK
<1>2. /\ s1 \in Push!SignalState(Push!Sample) /\ s1 # None
      /\ s1.committed = IF st = None THEN None ELSE st.committed
      /\ s1.pending = IF st = None THEN None ELSE st.pending
      /\ s1.buffer = IF st = None THEN <<>> ELSE st.buffer
      /\ s1.last_eligible = IF st = None THEN None ELSE st.last_eligible
  BY <1>1, PushReadShape
<1>3. /\ s2 \in Push!SignalState(Push!Sample) /\ s2.committed = s1.committed
      /\ s2.pending = (IF f.quality = "GOOD" THEN f.value ELSE s1.pending)
      /\ s2.buffer = s1.buffer /\ s2.last_eligible = 0
  <2> HIDE DEF s1
  <2>1. /\ a \in Push!SignalState(Push!Sample) /\ a.committed = s1.committed
        /\ a.pending = (IF f.quality = "GOOD" THEN f.value ELSE s1.pending)
        /\ a.buffer = s1.buffer
    BY <1>2, PushAdmitShape
  <2> HIDE DEF a
  <2>2. s2 \in Push!SignalState(Push!Sample) /\ s2.committed = a.committed /\ s2.pending = a.pending
        /\ s2.buffer = a.buffer /\ s2.last_eligible = 0
    BY <2>1, PushEligibleShape
  <2>3. QED  BY <2>1, <2>2
<1>4. \/ ~pass /\ st' = s1 /\ out' = <<>> /\ UNCHANGED <<ref, rebased, gap, early>>
      \/ /\ pass
         /\ gap' = IF f.quality = "GOOD" THEN 0 ELSE gap
         /\ early' = (early \/ (f.quality = "GOOD" /\ gap # None /\ gap < PushSettings.floor))
         /\ \/ PushSettings.batch > 0 /\ st' = Push!Buffer(s2, f) /\ out' = <<>> /\ UNCHANGED <<ref, rebased>>
            \/ ~(PushSettings.batch > 0) /\ Push!Publish(<<f>>, s2)
  BY DEF Push!Process, Push!Held
<1>5. pass => ~Push!Throttled(s1, f)  OBVIOUS
<1> HIDE DEF s1, a, s2, pass
<1>6. /\ s1.committed = ref /\ s1.pending = Push!LastGood(s1.buffer, None) /\ s1.buffer \in Seq(Push!Sample)
      /\ PushSettings.batch = 0 => s1.buffer = <<>>
      /\ PushClean(s1.buffer)
  <2>1. CASE st = None
    <3>1. s1.committed = None /\ s1.pending = None /\ s1.buffer = <<>>  BY <1>2, <2>1
    <3>2. ref = None  BY <2>1 DEF PushInv, PushSessionPart
    <3>3. QED  BY <3>1, <3>2, PushLastGoodSmall, PushCleanSmall
  <2>2. CASE st # None
    <3>1. s1.committed = st.committed /\ s1.pending = st.pending /\ s1.buffer = st.buffer  BY <1>2, <2>2
    <3>2. st.committed = ref /\ st.pending = Push!LastGood(st.buffer, None)
      BY <2>2 DEF PushInv, Push!BaselineIsTrue
    <3>3. (PushSettings.batch = 0 => st.buffer = <<>>) /\ PushClean(st.buffer)
      BY <2>2, PushCleanTerms DEF PushInv
    <3>4. s1.buffer \in Seq(Push!Sample)  BY <1>2 DEF Push!SignalState
    <3>5. QED  BY <3>1, <3>2, <3>3, <3>4
  <2>3. QED  BY <2>1, <2>2
<1>7. /\ ~early /\ early \in BOOLEAN /\ gap \in Push!Age(PushSettings.floor)
      /\ gap # None => st # None /\ st.last_eligible # None /\ st.last_eligible <= gap
  BY DEF PushInv, PushFloorPart, Push!TypeOK
<1>8. ref \in PushSettings.values \cup {None} /\ rebased \in Push!Qualities \cup {None}  BY DEF PushInv, Push!TypeOK
<1>9. CASE ~pass /\ st' = s1 /\ out' = <<>> /\ UNCHANGED <<ref, rebased, gap, early>>
  <2>1. Push!PauseIsSilent' /\ out' \in Seq(Push!Sample)  BY <1>9, PushSilentStep
  <2>2. PushWindowPart' /\ Push!BaselineIsTrue'
    <3>1. CASE st = None
      <4>1. st'.committed = ref' /\ st'.pending = None /\ st'.buffer = <<>> /\ st' # None
        BY <1>2, <1>6, <1>9, <3>1
      <4>2. QED  BY <4>1, PushWindowEmpty
    <3>2. CASE st # None
      <4>1. /\ st' # None /\ st'.committed = st.committed /\ st'.pending = st.pending
            /\ st'.buffer = st.buffer /\ ref' = ref
        BY <1>2, <1>9, <3>2
      <4>2. QED  BY <3>2, <4>1, PushWindowKept
    <3>3. QED  BY <3>1, <3>2
  <2>3. PushFloorPart'  BY <1>2, <1>7, <1>9 DEF PushFloorPart
  <2>4. QED  BY <1>2, <1>7, <1>8, <1>9, <2>1, <2>2, <2>3
<1>10. CASE /\ pass
            /\ gap' = IF f.quality = "GOOD" THEN 0 ELSE gap
            /\ early' = (early \/ (f.quality = "GOOD" /\ gap # None /\ gap < PushSettings.floor))
            /\ \/ PushSettings.batch > 0 /\ st' = Push!Buffer(s2, f) /\ out' = <<>> /\ UNCHANGED <<ref, rebased>>
               \/ ~(PushSettings.batch > 0) /\ Push!Publish(<<f>>, s2)
  <2>1. ~early' /\ early' \in BOOLEAN
    <3> SUFFICES ASSUME f.quality = "GOOD", gap # None, gap < PushSettings.floor PROVE FALSE  BY <1>7, <1>10
    <3>1. s1.last_eligible = st.last_eligible /\ st # None  BY <1>2, <1>7
    <3>2. gap \in 0..PushSettings.floor /\ st.last_eligible \in 0..PushSettings.floor
      <4>1. st.last_eligible \in Push!Age(PushSettings.floor)  BY <1>1, <3>1 DEF Push!SignalState
      <4>2. QED  BY <1>7, <4>1 DEF Push!Age
    <3>3. PushSettings.floor > 0 /\ s1.last_eligible # None /\ s1.last_eligible < PushSettings.floor
      BY <1>7, <3>1, <3>2 DEF Push!DriverConstants, Push!EngineConstants
    <3>4. QED  BY <1>5, <1>10, <3>3 DEF Push!Throttled
  <2>2. gap' \in Push!Age(PushSettings.floor) /\ (gap' # None => 0 <= gap')
    BY <1>7, <1>10 DEF Push!Age, Push!DriverConstants, Push!EngineConstants
  <2>3. SUFFICES /\ st' \in Push!SignalState(Push!Sample) /\ st' # None /\ st'.last_eligible = 0
                 /\ out' \in Seq(Push!Sample) /\ Push!PauseIsSilent'
                 /\ ref' \in PushSettings.values \cup {None} /\ rebased' \in Push!Qualities \cup {None}
                 /\ PushWindowPart' /\ Push!BaselineIsTrue'
    <3>1. 0 # None  BY DEF Push!DriverConstants, Push!EngineConstants
    <3>2. PushFloorPart'  BY <2>1, <2>2, <2>3, <3>1 DEF PushFloorPart
    <3>3. QED  BY <2>1, <2>2, <2>3, <3>2
  <2>4. CASE PushSettings.batch > 0 /\ st' = Push!Buffer(s2, f) /\ out' = <<>> /\ UNCHANGED <<ref, rebased>>
    <3>1. Push!PauseIsSilent' /\ out' \in Seq(Push!Sample)  BY <2>4, PushSilentStep
    <3>2. /\ st' \in Push!SignalState(Push!Sample) /\ st'.committed = s2.committed /\ st'.pending = s2.pending
          /\ st'.buffer = Append(s2.buffer, f) /\ st'.last_eligible = s2.last_eligible
      BY <1>3, <2>4, PushBufferShape
    <3>3. st' # None  BY <3>2 DEF Push!DriverConstants
    <3>4. Push!BaselineIsTrue'
      <4>1. /\ f.quality = "GOOD" => Push!LastGood(Append(s1.buffer, f), None) = f.value
            /\ f.quality # "GOOD" => Push!LastGood(Append(s1.buffer, f), None) = Push!LastGood(s1.buffer, None)
        BY <1>6, PushLastGoodAppend
      <4>2. st'.committed = ref'  BY <1>3, <1>6, <2>4, <3>2
      <4>3. st'.pending = Push!LastGood(st'.buffer, None)  BY <1>3, <1>6, <3>2, <4>1
      <4>4. QED  BY <4>2, <4>3 DEF Push!BaselineIsTrue
    <3>5. PushWindowPart'
      <4>1. PushClean(Append(s1.buffer, f)) /\ st'.buffer = Append(s1.buffer, f)
        BY <1>3, <1>6, <3>2, PushCleanAppend
      <4>2. PushClean(st'.buffer)  BY <4>1
      <4>3. PushSettings.batch # 0  BY <2>4 DEF Push!DriverConstants, Push!EngineConstants
      <4>4. ~hold'  BY DEF PushInv, PushSessionPart
      <4>5. QED  BY <4>2, <4>3, <4>4 DEF PushWindowPart, PushClean
    <3>6. QED  BY <1>3, <1>8, <2>4, <3>1, <3>2, <3>3, <3>4, <3>5
  <2>5. CASE ~(PushSettings.batch > 0) /\ Push!Publish(<<f>>, s2)
    <3> DEFINE b == <<f>>
    <3>1. b \in Seq(Push!Sample) /\ b # <<>> /\ PushClean(b)  BY PushCleanSmall
    <3>2. /\ f.quality = "GOOD" => Push!LastGood(b, None) = f.value
          /\ f.quality # "GOOD" => Push!LastGood(b, None) = None
      BY PushLastGoodSmall
    <3>3. Push!Publish(b, s2)  BY <2>5
    <3> HIDE DEF b
    <3>4. PushSettings.batch = 0  BY <2>5 DEF Push!DriverConstants, Push!EngineConstants
    <3>5. s2.buffer = <<>> /\ s1.pending = None /\ s2.committed = ref
      BY <1>3, <1>6, <3>4, PushLastGoodSmall
    <3>6. s2.pending = Push!LastGood(b, None)  BY <1>3, <3>2, <3>5
    <3>7. /\ out' \in Seq(Push!Sample) /\ Push!PauseIsSilent'
          /\ st' \in Push!SignalState(Push!Sample) /\ st' # None /\ st'.last_eligible = s2.last_eligible
          /\ ref' \in PushSettings.values \cup {None} /\ rebased' \in Push!Qualities \cup {None}
          /\ PushWindowPart' /\ Push!BaselineIsTrue'
      BY <1>3, <3>1, <3>3, <3>5, <3>6, PushPublishInv
    <3>8. QED  BY <1>3, <3>7
  <2>6. QED  BY <1>10, <2>4, <2>5
<1>11. QED  BY <1>4, <1>9, <1>10

\* One update off the channel: processed, or dropped while paused.
LEMMA PushConsumeInv == Push!DriverConstants /\ PushInv /\ Push!Consume => PushInv'
<1> SUFFICES ASSUME Push!DriverConstants, PushInv, Push!Consume PROVE PushInv'  OBVIOUS
<1>1. /\ up /\ chan # <<>> /\ chan' = Tail(chan) \o parked /\ parked' = <<>>
      /\ UNCHANGED <<up, hold, quiet, start, stale, snap, dev, calm>>
  BY DEF Push!Consume
<1>2. /\ chan \in Seq(Push!Sample) /\ Len(chan) <= PushSettings.queue /\ PushClean(chan) /\ Len(chan) \in Nat
      /\ parked \in Seq(Push!Sample) /\ Len(parked) <= 1 /\ PushClean(parked)
  BY PushCleanTerms, LenProperties DEF PushInv, Push!TypeOK
<1>3. /\ chan' \in Seq(Push!Sample) /\ Len(chan') <= Len(chan) /\ PushClean(chan')
      /\ Head(chan) \in Push!Sample /\ PushSound(Head(chan))
  BY <1>1, <1>2, PushReceived
<1>4. Len(chan') <= PushSettings.queue
  <2>1. Len(chan') \in Nat  BY <1>3, LenProperties
  <2>2. QED  BY <1>2, <1>3, <2>1 DEF Push!DriverConstants
<1>5. parked' \in Seq(Push!Sample) /\ Len(parked') <= 1 /\ PushClean(parked') /\ parked' = <<>>
  BY <1>1, PushCleanSmall
<1>6. PushChannelPart'  BY <1>3, <1>5 DEF PushChannelPart, PushClean
<1>7. CASE quiet
  <2>1. out' = <<>> /\ UNCHANGED <<st, ref, rebased, gap, early>>  BY <1>7 DEF Push!Consume
  <2>2. Push!PauseIsSilent' /\ out' \in Seq(Push!Sample)  BY <2>1, PushSilentStep
  <2>3. Push!TypeOK'  BY <1>1, <1>3, <1>4, <1>5, <2>1, <2>2 DEF PushInv, Push!TypeOK
  <2>4. PushSessionPart' /\ PushWindowPart' /\ PushFloorPart' /\ Push!BaselineIsTrue'
    BY <1>1, <2>1 DEF PushInv, PushSessionPart, PushWindowPart, PushFloorPart, Push!BaselineIsTrue
  <2>5. QED  BY <1>6, <2>2, <2>3, <2>4 DEF PushInv
<1>8. CASE ~quiet
  <2>1. Push!Process(Head(chan))  BY <1>8 DEF Push!Consume
  <2>2. /\ st' \in Push!SignalState(Push!Sample) /\ st' # None
        /\ out' \in Seq(Push!Sample) /\ Push!PauseIsSilent'
        /\ ref' \in PushSettings.values \cup {None} /\ rebased' \in Push!Qualities \cup {None}
        /\ gap' \in Push!Age(PushSettings.floor) /\ early' \in BOOLEAN
        /\ PushWindowPart' /\ Push!BaselineIsTrue' /\ PushFloorPart'
    BY <1>1, <1>3, <1>8, <2>1, PushProcessInv
  <2>3. Push!TypeOK'  BY <1>1, <1>3, <1>4, <1>5, <2>2 DEF PushInv, Push!TypeOK
  <2>4. PushSessionPart'  BY <1>1, <2>2 DEF PushInv, PushSessionPart
  <2>5. QED  BY <1>6, <2>2, <2>3, <2>4 DEF PushInv
<1>9. QED  BY <1>7, <1>8

\* A due window is published as one batch.
LEMMA PushFlushInv == Push!DriverConstants /\ PushInv /\ Push!Flush => PushInv'
<1> SUFFICES ASSUME Push!DriverConstants, PushInv, Push!Flush PROVE PushInv'  OBVIOUS
<1> DEFINE d == Push!Drained(st)
<1>1. /\ up /\ ~quiet /\ st # None /\ st.buffer # <<>> /\ Push!Publish(st.buffer, d)
      /\ UNCHANGED <<up, hold, quiet, start, stale, snap, chan, parked, dev, calm, gap, early>>
  BY DEF Push!Flush, Push!take_due, Push!linkVars
<1>2. st \in Push!SignalState(Push!Sample) /\ st.buffer \in Seq(Push!Sample)
  BY <1>1 DEF PushInv, Push!TypeOK, Push!SignalState
<1>3. /\ d \in Push!SignalState(Push!Sample) /\ d.committed = st.committed /\ d.pending = st.pending
      /\ d.buffer = <<>> /\ d.last_eligible = st.last_eligible
  BY <1>2, PushDrainedShape
<1> HIDE DEF d
<1>4. st.committed = ref /\ st.pending = Push!LastGood(st.buffer, None)  BY <1>1 DEF PushInv, Push!BaselineIsTrue
<1>5. PushClean(st.buffer)  BY <1>1, PushCleanTerms DEF PushInv
<1>6. d.committed = ref /\ d.pending = Push!LastGood(st.buffer, None)  BY <1>3, <1>4
<1>7. /\ out' \in Seq(Push!Sample) /\ Push!PauseIsSilent'
      /\ st' \in Push!SignalState(Push!Sample) /\ st' # None /\ st'.last_eligible = d.last_eligible
      /\ ref' \in PushSettings.values \cup {None} /\ rebased' \in Push!Qualities \cup {None}
      /\ PushWindowPart' /\ Push!BaselineIsTrue'
  BY <1>1, <1>2, <1>3, <1>5, <1>6, PushPublishInv
<1>8. Push!TypeOK'  BY <1>1, <1>7 DEF PushInv, Push!TypeOK
<1>9. PushSessionPart' /\ PushChannelPart' /\ PushFloorPart'
  BY <1>1, <1>3, <1>7 DEF PushInv, PushSessionPart, PushChannelPart, PushFloorPart
<1>10. QED  BY <1>7, <1>8, <1>9 DEF PushInv

\* Every step of the loop, the translator and their environment.
LEMMA NextPush == Push!DriverConstants /\ PushInv /\ [Push!Next]_(Push!vars) => PushInv'
<1> SUFFICES ASSUME Push!DriverConstants, PushInv, [Push!Next]_(Push!vars) PROVE PushInv'  OBVIOUS
<1>1. CASE Push!Emit \/ Push!DeviceChanges \/ Push!Calm
  <2>1. /\ out' = <<>>
        /\ UNCHANGED <<up, hold, quiet, st, start, snap, chan, parked, ref, rebased, gap, early>>
        /\ stale' \in {0, 1} /\ dev' \in PushSettings.readings /\ calm' \in BOOLEAN
    BY <1>1 DEF Push!Emit, Push!DeviceChanges, Push!Calm, Push!linkVars, PushInv, Push!TypeOK
  <2>2. QED  BY <2>1, PushQuietStepInv
<1>2. CASE UNCHANGED Push!vars
  <2>1. UNCHANGED <<up, hold, quiet, st, start, stale, snap, chan, parked, dev, out, calm, ref, rebased, gap, early>>
    BY <1>2 DEF Push!vars, Push!linkVars
  <2>2. QED
    BY <2>1 DEF PushInv, Push!TypeOK, PushSessionPart, PushWindowPart, PushChannelPart, PushFloorPart,
           Push!BaselineIsTrue, Push!PauseIsSilent
<1>3. QED
  BY <1>1, <1>2, PushOpenInv, PushLeaveInv, PushEmitDataInv, PushConsumeInv, PushFlushInv, PushPauseInv,
         PushResumeInv, PushTickInv DEF Push!Next

-----------------------------------------------------------------------------
(* The device *)

\* What holds while a driver is what runs.
DriverInv == (part = "poll" => PollInv) /\ (part = "push" => PushInv)

\* A step of the device leaves the part, and is a step of the driver that runs.
LEMMA DriverSteps ==
    [AllNext]_all => /\ part' = part
                     /\ part = "poll" => [Poll!Next]_(Poll!vars)
                     /\ part = "push" => [Push!Next]_(Push!vars)
BY DEF AllNext, all, driver, pollOnly, pushOnly, Poll!vars, Poll!engVars, Push!vars, Push!linkVars

\* The inductive invariant of both drivers (poll_driver.rs, poll.rs,
\* push_driver.rs, push.rs, live.rs): the loop's flag is the shared one's while
\* a session is open, the window holds what was read since the last pause, the
\* channel what the translator sent, the baselines are what was published and
\* the clocks are not ahead of what happened.
THEOREM DriverInvariance == AllSpec => []DriverInv
<1>1. AllInit => DriverInv
  BY InitPoll, InitPush, DriverSettings DEF AllInit, DriverInv
<1>2. DriverInv /\ [AllNext]_all => DriverInv'
  <2> SUFFICES ASSUME DriverInv, [AllNext]_all PROVE DriverInv'  OBVIOUS
  <2>1. /\ part' = part
        /\ part = "poll" => [Poll!Next]_(Poll!vars)
        /\ part = "push" => [Push!Next]_(Push!vars)
    BY DriverSteps
  <2>2. part = "poll" => PollInv'  BY <2>1, NextPoll, DriverSettings DEF DriverInv
  <2>3. part = "push" => PushInv'  BY <2>1, NextPush, DriverSettings DEF DriverInv
  <2>4. QED  BY <2>1, <2>2, <2>3 DEF DriverInv
<1>3. QED  BY <1>1, <1>2, PTL DEF AllSpec

\* No `data` publish while any surface reports the instance paused, and
\* nothing captured before a pause is published after it, in either loop.
THEOREM DriversPauseIsSilent == AllSpec => []PauseIsSilent
<1>1. DriverInv => PauseIsSilent  BY DEF DriverInv, PollInv, PushInv, PauseIsSilent
<1>2. QED  BY <1>1, DriverInvariance, PTL

\* The gate compares with what reached the bus: the committed baseline is the
\* last GOOD value confirmed or, in the consume loop, the snapshot of the last
\* resume; the pending one is the newest GOOD value of the open window; and a
\* window of the poll loop holds no repeats.
THEOREM DriversBaselineIsTrue == AllSpec => []BaselineIsTrue
<1>1. DriverInv => BaselineIsTrue  BY DEF DriverInv, PollInv, PushInv, BaselineIsTrue, Poll!BaselineIsTrue
<1>2. QED  BY <1>1, DriverInvariance, PTL

\* Two GOOD samples of a field are never admitted within the sample floor of a
\* push device.
THEOREM FloorIsKept == AllSpec => []FloorHolds
<1>1. DriverInv => FloorHolds  BY DEF DriverInv, PushInv, PushFloorPart, FloorHolds, Push!FloorHolds
<1>2. QED  BY <1>1, DriverInvariance, PTL

\* A signal the session has read turns stale only after that much unpaused
\* time since its last GOOD read or the last resume.
THEOREM StaleIsUnpaused == AllSpec => StaleNotWhilePaused
<1>1. DriverInv /\ [AllNext]_all => [part = "poll" => Poll!StaleStep]_all
  <2> SUFFICES ASSUME DriverInv, [AllNext]_all, part = "poll", stale' = 1, stale = 0, st # None, st.last_good # None
               PROVE  awake >= PollSettings.stale
    BY DEF Poll!StaleStep
  <2>1. PollInv /\ [Poll!Next]_(Poll!vars)  BY DriverSteps DEF DriverInv
  <2>2. Poll!Next  BY <2>1 DEF Poll!vars, Poll!engVars
  <2>3. Poll!Emit
    BY <2>2 DEF Poll!Next, Poll!Open, Poll!Leave, Poll!Poll, Poll!Repoll, Poll!Flush, Poll!Pause, Poll!Resume,
                Poll!Tick, Poll!DeviceChanges, Poll!Calm, Poll!engVars
  <2>4. up /\ ~quiet /\ Poll!is_stale(st, start)  BY <2>3 DEF Poll!Emit
  <2>5. st.last_good >= PollSettings.stale  BY <2>4 DEF Poll!is_stale
  <2>6. ~hold  BY <2>1, <2>4 DEF PollInv, PollSessionPart
  <2>7. st.last_good <= awake  BY <2>1, <2>6 DEF PollInv, PollClockPart
  <2>8. st.last_good \in Poll!Age(PollSettings.stale) /\ awake \in 0..PollSettings.stale
    BY <2>1 DEF PollInv, Poll!TypeOK, Poll!SignalState
  <2>9. QED  BY <2>5, <2>7, <2>8, DriverSettings DEF Poll!Age, Poll!DriverConstants, Poll!EngineConstants
<1>2. QED  BY <1>1, DriverInvariance, PTL DEF AllSpec, StaleNotWhilePaused
=============================================================================
