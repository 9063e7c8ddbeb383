---------------------------- MODULE AdapterProofs ----------------------------
(***************************************************************************)
(* Proofs about the adapter's services: the certificate lifecycle, for any *)
(* material, validities and renewal windows; the metrics, for any devices, *)
(* budgets and sequence space; the command surface, for any instances,     *)
(* generations, layouts, allow-lists and batches; and the tag session, for *)
(* any tag, counts, word and fragment sizes.  Each part has its inductive  *)
(* invariant; the theorems at the end are about the composition.           *)
(***************************************************************************)
EXTENDS Adapter, QueueTheorems

-----------------------------------------------------------------------------
(* The certificate lifecycle *)

\* The expiry event the operator should have seen last in an expiry state.
Due(e) == IF e \in {"Expiring", "Expired"} THEN e ELSE "none"

\* Between two observations the operator knows the watcher's state; a rotation
\* may still owe the event of the new one.
ExpiryTold ==
    /\ exp \in {"Unknown", "Ok", "Expiring", "Expired"}
    /\ pc # "send" => alarm = Due(exp)
    /\ pc = "send" => /\ exp # "Unknown"
                      /\ owed = "none" => alarm = Due(exp)
                      /\ owed # "none" => owed = exp /\ exp \in {"Expiring", "Expired"} /\ alarm # exp

\* The watcher's fingerprint is the material it saw, and a session counts as
\* built from it only after an observation.
WatcherSaw == last = seen /\ (known => seen # Cert!NoFp)

CertInv == ExpiryTold /\ WatcherSaw /\ Cert!ObservedIsApplied

\* A step that touches neither the watcher nor the session keeps the invariant.
LEMMA CertElsewhere ==
    ASSUME CertInv, pc # "send" => pc' # "send", pc = "send" => pc' = "send",
           UNCHANGED <<last, exp, owed, alarm, reconnects, session, seen, known>>
    PROVE  CertInv'
BY DEF CertInv, ExpiryTold, WatcherSaw, Cert!ObservedIsApplied

\* The expiry states are the watcher's.
LEMMA Classes == \A d : Cert!Classify(d) \in {"Ok", "Expiring", "Expired"}
BY DEF Cert!Classify

\* The watcher re-reads the vault (CertWatcher::observe): what it saw is what
\* it compares with next, a rotation sends a reconnect, and an expiry state is
\* told on its transition.
LEMMA CertWatches == CertInv /\ Cert!Watch => CertInv'
<1> SUFFICES ASSUME CertInv, Cert!Watch PROVE CertInv'  OBVIOUS
<1> DEFINE fp == Cert!fingerprint(vault)
           now1 == Cert!Classify(Cert!days_until(vault.left))
<1>1. /\ pc = "watch" /\ vault.cert # Cert!NoCert
      /\ last' = fp /\ exp' = now1 /\ seen' = Cert!Material(vault)
      /\ known' = (known \/ (session # Cert!Down /\ session = seen'))
      /\ IF Cert!Rotated(fp)
         THEN pc' = "send" /\ owed' = Cert!EventOf(now1) /\ Cert!Told("none", now1)
         ELSE pc' = "tick" /\ Cert!Told(Cert!EventOf(now1), now1)
      /\ UNCHANGED <<reconnects, session>>
  BY DEF Cert!Watch, Cert!read_reload_state, Cert!Sourced, Cert!expiry_state
<1>2. now1 \in {"Ok", "Expiring", "Expired"}  BY Classes
<1>3. fp = Cert!Material(vault) /\ fp # Cert!NoFp
  BY <1>1 DEF Cert!fingerprint, Cert!Material, Cert!NoFp
<1> HIDE DEF fp, now1
<1>4. WatcherSaw'  BY <1>1, <1>3 DEF WatcherSaw
<1>5. ExpiryTold'
  <2>1. /\ exp \in {"Unknown", "Ok", "Expiring", "Expired"} /\ alarm = Due(exp)
        /\ exp' = now1
    BY <1>1 DEF CertInv, ExpiryTold
  <2>2. CASE Cert!Rotated(fp)
    <3>1. /\ pc' = "send" /\ owed' = Cert!EventOf(now1)
          /\ alarm' = IF now1 = "Ok" THEN "none" ELSE alarm
      BY <1>1, <2>2 DEF Cert!Told
    <3>2. QED  BY <1>2, <2>1, <3>1 DEF ExpiryTold, Due, Cert!EventOf
  <2>3. CASE ~Cert!Rotated(fp)
    <3>1. pc' = "tick" /\ Cert!Told(Cert!EventOf(now1), now1)  BY <1>1, <2>3
    <3>2. QED  BY <1>2, <2>1, <3>1 DEF ExpiryTold, Due, Cert!EventOf, Cert!Told
  <2>4. QED  BY <2>2, <2>3
<1>6. Cert!ObservedIsApplied'
  <2> SUFFICES ASSUME known', session' # seen' PROVE pc' = "send" \/ reconnects' = 1
    BY DEF Cert!ObservedIsApplied
  <2>1. known /\ session # seen'  BY <1>1
  <2>2. CASE session = seen
    <3>1. last # Cert!NoFp /\ last # fp  BY <1>1, <1>3, <2>1, <2>2 DEF CertInv, WatcherSaw
    <3>2. QED  BY <1>1, <3>1 DEF Cert!Rotated
  <2>3. CASE session # seen  BY <1>1, <2>1, <2>3 DEF CertInv, Cert!ObservedIsApplied
  <2>4. QED  BY <2>2, <2>3
<1>7. QED  BY <1>4, <1>5, <1>6 DEF CertInv

\* The reconnect of a rotation is sent, and the expiry event it owed told.
LEMMA CertSends == CertInv /\ Cert!SendReconnect => CertInv'
BY DEF CertInv, ExpiryTold, WatcherSaw, Due, Cert!ObservedIsApplied, Cert!SendReconnect, Cert!Told

\* An instance that starts over knows nothing and has told nothing.
LEMMA CertRestarts == CertInv /\ Cert!Restart => CertInv'
BY DEF CertInv, ExpiryTold, WatcherSaw, Due, Cert!ObservedIsApplied, Cert!Restart, Cert!Started, Cert!Fresh

\* The session opens, is reconnected or drops.
LEMMA CertSessions == CertInv /\ (Cert!Connect \/ Cert!Reconnect \/ Cert!Drop) => CertInv'
<1> SUFFICES ASSUME CertInv, Cert!Connect \/ Cert!Reconnect \/ Cert!Drop PROVE CertInv'  OBVIOUS
<1>1. UNCHANGED <<pc, last, exp, owed, alarm, seen>>
  BY DEF Cert!Connect, Cert!Reconnect, Cert!Drop, Cert!driver
<1>2. known' => session' = seen'
  BY DEF Cert!Connect, Cert!Reconnect, Cert!Drop
<1>3. known' => seen' # Cert!NoFp
  <2>1. CASE Cert!Connect
    <3>1. vault.cert # Cert!NoCert /\ session' = <<vault.cert, vault.ca>>
      BY <2>1 DEF Cert!Connect, Cert!Usable, Cert!Identity, Cert!Sourced, Cert!Material
    <3>2. session' # Cert!NoFp  BY <3>1 DEF Cert!NoFp
    <3>3. QED  BY <1>2, <3>2
  <2>2. CASE Cert!Reconnect \/ Cert!Drop  BY <2>2 DEF Cert!Reconnect, Cert!Drop
  <2>3. QED  BY <2>1, <2>2
<1>4. QED  BY <1>1, <1>2, <1>3 DEF CertInv, ExpiryTold, WatcherSaw, Cert!ObservedIsApplied

\* The first state.
LEMMA CertInit == Cert!Init => CertInv
BY DEF CertInv, ExpiryTold, WatcherSaw, Due, Cert!ObservedIsApplied, Cert!Init, Cert!Fresh

\* Every step of the driver, the device task, the operator and the clock.
LEMMA CertStep == CertInv /\ [Cert!Next]_(Cert!vars) => CertInv'
<1> SUFFICES ASSUME CertInv, [Cert!Next]_(Cert!vars) PROVE CertInv'  OBVIOUS
<1>1. CASE \/ Cert!Tick \/ Cert!Issued \/ Cert!ExchangeFails \/ Cert!Put \/ Cert!PutKey \/ Cert!PutFails
           \/ Cert!WatchFails \/ Cert!OperatorRotates \/ Cert!Pass \/ UNCHANGED Cert!vars
  <2>1. UNCHANGED <<last, exp, owed, alarm, reconnects, session, seen, known>>
    BY <1>1 DEF Cert!Tick, Cert!Issued, Cert!ExchangeFails, Cert!Put, Cert!PutKey, Cert!PutFails,
                Cert!WatchFails, Cert!OperatorRotates, Cert!Pass, Cert!vars, Cert!driver
  <2>2. (pc # "send" => pc' # "send") /\ (pc = "send" => pc' = "send")
    BY <1>1 DEF Cert!Tick, Cert!Issued, Cert!ExchangeFails, Cert!Put, Cert!PutKey, Cert!PutFails,
                Cert!WatchFails, Cert!OperatorRotates, Cert!Pass, Cert!vars, Cert!driver,
                Cert!EnrollFailed, Cert!Enrolled
  <2>3. QED  BY <2>1, <2>2, CertElsewhere
<1>2. QED  BY <1>1, CertWatches, CertSends, CertRestarts, CertSessions DEF Cert!Next
-----------------------------------------------------------------------------
(* The metrics *)

\* The fields of a device's records.
PairType == [total : Nat, interval : Nat]
ClockType == [up : BOOLEAN, ever : BOOLEAN, since : Nat \cup {-1}, ms : Nat]
SeqNumbers == 0..(SeqSpace - 1) \cup {-1}
IoType == [state : BOOLEAN, lastSeq : SeqNumbers, produced : Nat, refused : Nat]
LinkType == [phase : {"down", "opening", "open", "up"}, produced : Nat, refused : Nat, seq : SeqNumbers]
TruthType == [missed : Nat, closed : Nat, reports : Nat, unreported : BOOLEAN]
RowType == [name : Metric!Families, row : Nat, values : UNION {[S -> Nat] : S \in SUBSET Metric!Counters}]

MetricTypes ==
    /\ pair \in [Devices -> [Metric!Counters -> PairType]] /\ sent \in [Devices -> [Metric!Counters -> Nat]]
    /\ unsent \in [Devices -> [Metric!Counters -> Nat]]
    /\ conn \in [Devices -> ClockType] /\ io \in [Devices -> IoType] /\ link \in [Devices -> LinkType]
    /\ truth \in [Devices -> TruthType] /\ ms \in [Devices -> [emitted : Nat, true : Nat]]
    /\ plan \in [Devices -> Seq(Metric!Families)] /\ out \in [Devices -> Seq(RowType)]
    /\ now \in Nat

\* The connection's clock runs exactly while the link is open.
ClockIs(k, l) ==
    /\ k.up => k.since # -1 /\ l.phase \in {"open", "up"}
    /\ k.since # -1 => k.up /\ k.since <= now
    /\ l.phase \in {"open", "up"} => k.up

\* The connected time emitted and accrued is the true one.
TimeAddsUp(d) == ms[d].emitted + Metric!Accrued(conn[d]).ms = ms[d].true

\* What is kept of a class-1 connection is that connection's, and nothing is
\* kept without one.
LinkIs(d, l, i, t) ==
    /\ l.phase \in {"down", "opening"} => i.lastSeq = -1 /\ i.produced = 0 /\ i.refused = 0
    /\ l.phase \in {"open", "up"} =>
          i.lastSeq = l.seq /\ i.produced <= l.produced /\ i.refused <= l.refused /\ l.refused <= 1
    /\ l.phase = "open" => l.seq = -1
    /\ i.state => l.phase = "up"
    /\ d \notin Push => l.phase # "up" /\ (l.phase = "open" => l.produced = 0 /\ l.refused = 0)
    /\ t.reports = IF l.phase = "down" THEN 0 ELSE i.refused

\* The totals of the wire.
TotalsAre(d) ==
    /\ pair[d]["gaps"].total = truth[d].missed
    /\ pair[d]["produced"].total = truth[d].closed + io[d].produced

\* A counter is in one row of a drained family.
RowsApart(q) ==
    \A i, j \in 1..Len(q) : i # j => DOMAIN q[i].values \cap DOMAIN q[j].values = {}

SumsAre(d) ==
    \A c \in Metric!Counters :
        (sent[d][c] + unsent[d][c]) + Metric!Carried(out[d], c) + pair[d][c].interval = pair[d][c].total

MetricDevice(d) ==
    /\ ClockIs(conn[d], link[d]) /\ TimeAddsUp(d) /\ LinkIs(d, link[d], io[d], truth[d])
    /\ TotalsAre(d) /\ RowsApart(out[d]) /\ SumsAre(d)

MetricInv == MetricTypes /\ \A d \in Devices : MetricDevice(d)

\* The amount a recording adds to a counter.
Amount(by, c) == IF c \in DOMAIN by THEN by[c] ELSE 0

\* Sums that the steps need.
LEMMA MetricSums ==
    ASSUME NEW a \in Nat, NEW b \in Nat, NEW c \in Nat, NEW t \in Nat, NEW v \in Nat
    PROVE  /\ a + b + c = t => a + b + (c + v) = t + v
           /\ a + 0 + c = t => a + c + 0 = t
           /\ a + b + c = t => (a + b) + 0 + c = t
           /\ a + 0 + 0 = a
OBVIOUS

\* What a row carries of a counter is a number.
LEMMA RowNumbers ==
    ASSUME NEW o \in RowType, NEW c \in DOMAIN o.values
    PROVE  o.values[c] \in Nat
<1>1. PICK S \in SUBSET Metric!Counters : o.values \in [S -> Nat]  BY DEF RowType
<1>2. QED  BY <1>1

\* What the rows of a family carry of a counter.
LEMMA CarriedIs ==
    ASSUME NEW q \in Seq(RowType), RowsApart(q), NEW c
    PROVE  /\ \A i \in 1..Len(q) : c \in DOMAIN q[i].values => Metric!Carried(q, c) = q[i].values[c]
           /\ (\A i \in 1..Len(q) : c \notin DOMAIN q[i].values) => Metric!Carried(q, c) = 0
           /\ Metric!Carried(q, c) \in Nat
<1>1. DOMAIN q = 1..Len(q) /\ \A i \in 1..Len(q) : q[i] \in RowType  BY LenProperties, ElementOfSeq
<1> DEFINE at == {i \in DOMAIN q : c \in DOMAIN q[i].values}
           x == CHOOSE i \in at : TRUE
<1>2. Metric!Carried(q, c) = IF at = {} THEN 0 ELSE q[x].values[c]  BY DEF Metric!Carried
<1>3. at # {} => x \in at  OBVIOUS
<1>4. \A i \in 1..Len(q) : c \in DOMAIN q[i].values => at # {} /\ i \in at  BY <1>1
<1>5. \A i \in at : i \in 1..Len(q) /\ c \in DOMAIN q[i].values  BY <1>1
<1> HIDE DEF at, x
<1>6. ASSUME NEW i \in 1..Len(q), c \in DOMAIN q[i].values PROVE Metric!Carried(q, c) = q[i].values[c]
  <2>1. at # {} /\ x \in at  BY <1>3, <1>4, <1>6
  <2>2. x \in 1..Len(q) /\ c \in DOMAIN q[x].values  BY <1>5, <2>1
  <2>3. x = i
    <3> SUFFICES ASSUME x # i PROVE FALSE  OBVIOUS
    <3>1. DOMAIN q[x].values \cap DOMAIN q[i].values = {}  BY <2>2 DEF RowsApart
    <3>2. QED  BY <1>6, <2>2, <3>1
  <2>4. QED  BY <1>2, <2>1, <2>3
<1>7. ASSUME \A i \in 1..Len(q) : c \notin DOMAIN q[i].values PROVE Metric!Carried(q, c) = 0
  BY <1>2, <1>3, <1>5, <1>7
<1>8. Metric!Carried(q, c) \in Nat
  <2>1. CASE \A i \in 1..Len(q) : c \notin DOMAIN q[i].values  BY <1>7, <2>1
  <2>2. CASE \E i \in 1..Len(q) : c \in DOMAIN q[i].values
    <3>1. PICK i \in 1..Len(q) : c \in DOMAIN q[i].values  BY <2>2
    <3>2. q[i].values[c] \in Nat  BY <1>1, <3>1, RowNumbers
    <3>3. QED  BY <1>6, <3>1, <3>2
  <2>3. QED  BY <2>1, <2>2
<1>9. QED  BY <1>6, <1>7, <1>8

\* A recording call (Pair::add) at device d: every counter's interval and
\* total grow alike, and no other device's.
LEMMA Recorded ==
    ASSUME MetricTypes, NEW d \in Devices, NEW by, \A c \in DOMAIN by : by[c] \in Nat,
           pair' = Metric!Added(d, by)
    PROVE  /\ pair' \in [Devices -> [Metric!Counters -> PairType]]
           /\ \A e \in Devices \ {d} : pair'[e] = pair[e]
           /\ \A c \in Metric!Counters :
                 /\ Amount(by, c) \in Nat
                 /\ pair'[d][c].total = pair[d][c].total + Amount(by, c)
                 /\ pair'[d][c].interval = pair[d][c].interval + Amount(by, c)
<1> DEFINE f == [c \in Metric!Counters |-> IF c \in DOMAIN by THEN Metric!Pair_add(pair[d][c], by[c]) ELSE pair[d][c]]
<1>1. pair \in [Devices -> [Metric!Counters -> PairType]]  BY DEF MetricTypes
<1>2. pair' = [pair EXCEPT ![d] = f]  BY <1>1 DEF Metric!Added
<1>3. ASSUME NEW c \in Metric!Counters
      PROVE  /\ f[c] \in PairType /\ Amount(by, c) \in Nat
             /\ f[c].total = pair[d][c].total + Amount(by, c)
             /\ f[c].interval = pair[d][c].interval + Amount(by, c)
  <2>1. pair[d][c] \in PairType /\ pair[d][c].total \in Nat /\ pair[d][c].interval \in Nat  BY <1>1 DEF PairType
  <2>2. CASE c \in DOMAIN by
    <3>1. by[c] \in Nat /\ f[c] = Metric!Pair_add(pair[d][c], by[c]) /\ Amount(by, c) = by[c]  BY <2>2 DEF Amount
    <3> HIDE DEF f
    <3>2. QED  BY <2>1, <3>1 DEF Metric!Pair_add, PairType
  <2>3. CASE c \notin DOMAIN by
    <3>1. f[c] = pair[d][c] /\ Amount(by, c) = 0  BY <2>3 DEF Amount
    <3> HIDE DEF f
    <3>2. QED  BY <2>1, <3>1
  <2>4. QED  BY <2>2, <2>3
<1>4. f \in [Metric!Counters -> PairType]  BY <1>3
<1> HIDE DEF f
<1>5. QED  BY <1>1, <1>2, <1>3, <1>4

\* The connected time accrued depends on the connection and the clock alone.
LEMMA AccruedLater ==
    ASSUME NEW e, NEW k, conn'[e] = k, now' = now
    PROVE  Metric!Accrued(conn[e])' = Metric!Accrued(k)
BY Zenon DEF Metric!Accrued

\* A device that a step does not touch.
LEMMA Untouched ==
    ASSUME NEW e, MetricDevice(e), now' = now,
           conn'[e] = conn[e], link'[e] = link[e], io'[e] = io[e], truth'[e] = truth[e],
           ms'[e] = ms[e], pair'[e] = pair[e], sent'[e] = sent[e] /\ unsent'[e] = unsent[e], out'[e] = out[e]
    PROVE  MetricDevice(e)'
<1>1. ClockIs(conn[e], link[e])' /\ LinkIs(e, link[e], io[e], truth[e])'  BY DEF MetricDevice, ClockIs, LinkIs
<1>2. TimeAddsUp(e)'
  <2>1. Metric!Accrued(conn[e])' = Metric!Accrued(conn[e])  BY AccruedLater
  <2>2. QED  BY <2>1 DEF MetricDevice, TimeAddsUp
<1>3. TotalsAre(e)' /\ RowsApart(out[e])'  BY DEF MetricDevice, TotalsAre, RowsApart
<1>4. SumsAre(e)'
  <2>1. \A c : Metric!Carried(out[e], c)' = Metric!Carried(out[e], c)  BY SMT DEF Metric!Carried
  <2>2. QED  BY <2>1 DEF MetricDevice, SumsAre
<1>5. QED  BY <1>1, <1>2, <1>3, <1>4 DEF MetricDevice

\* A step changes the records of one device only.
OnlyDevice(d) ==
    /\ conn' \in [Devices -> ClockType] /\ io' \in [Devices -> IoType] /\ link' \in [Devices -> LinkType]
    /\ truth' \in [Devices -> TruthType] /\ plan' \in [Devices -> Seq(Metric!Families)]
    /\ \A e \in Devices \ {d} : conn'[e] = conn[e] /\ link'[e] = link[e] /\ io'[e] = io[e] /\ truth'[e] = truth[e]

\* A step of a device's task, or of a task beside it: what it records, and the
\* device's connection, link and history after it.
LEMMA TaskStep ==
    ASSUME MetricInv, NEW d \in Devices, NEW by, \A c \in DOMAIN by : by[c] \in Nat,
           pair' = Metric!Added(d, by), OnlyDevice(d), UNCHANGED <<out, sent, unsent, now, ms>>,
           ClockIs(conn'[d], link'[d]), Metric!Accrued(conn'[d]).ms = Metric!Accrued(conn[d]).ms,
           LinkIs(d, link'[d], io'[d], truth'[d]),
           truth'[d].missed = truth[d].missed + Amount(by, "gaps"),
           truth'[d].closed + io'[d].produced = truth[d].closed + io[d].produced + Amount(by, "produced")
    PROVE  MetricInv'
<1>1. MetricTypes /\ MetricDevice(d)
  BY DEF MetricInv
<1>2. /\ pair' \in [Devices -> [Metric!Counters -> PairType]]
      /\ \A e \in Devices \ {d} : pair'[e] = pair[e]
      /\ \A c \in Metric!Counters :
            /\ Amount(by, c) \in Nat
            /\ pair'[d][c].total = pair[d][c].total + Amount(by, c)
            /\ pair'[d][c].interval = pair[d][c].interval + Amount(by, c)
  BY <1>1, Recorded
<1>3. MetricTypes'  BY <1>1, <1>2 DEF MetricTypes, OnlyDevice
<1> DEFINE k == conn'[d]
           l == link'[d]
           i == io'[d]
           t == truth'[d]
<1>4. conn'[d] = k /\ link'[d] = l /\ io'[d] = i /\ truth'[d] = t  OBVIOUS
<1>5. ASSUME NEW e \in Devices, e # d PROVE MetricDevice(e)'
  <2>1. /\ conn'[e] = conn[e] /\ link'[e] = link[e] /\ io'[e] = io[e] /\ truth'[e] = truth[e]
        /\ pair'[e] = pair[e] /\ MetricDevice(e)
    BY <1>2, <1>5 DEF MetricInv, OnlyDevice
  <2>2. QED  BY <2>1, Untouched
<1>6. MetricDevice(d)'
  <2>1. ClockIs(conn[d], link[d])' /\ LinkIs(d, link[d], io[d], truth[d])'
    BY <1>4 DEF ClockIs, LinkIs
  <2>2. TimeAddsUp(d)'
    <3>1. Metric!Accrued(conn[d])' = Metric!Accrued(k)  BY <1>4, AccruedLater
    <3>2. QED  BY <1>1, <3>1 DEF MetricDevice, TimeAddsUp
  <2>3. TotalsAre(d)'
    <3>1. /\ "gaps" \in Metric!Counters /\ "produced" \in Metric!Counters
      BY DEF Metric!Counters, Metric!Io
    <3>2. pair[d]["gaps"].total = truth[d].missed /\ pair[d]["produced"].total = truth[d].closed + io[d].produced
      BY <1>1 DEF MetricDevice, TotalsAre
    <3>3. /\ pair'[d]["gaps"].total = pair[d]["gaps"].total + Amount(by, "gaps")
          /\ pair'[d]["produced"].total = pair[d]["produced"].total + Amount(by, "produced")
      BY <1>2, <3>1
    <3>4. pair'[d]["gaps"].total = t.missed /\ pair'[d]["produced"].total = t.closed + i.produced
      BY <3>2, <3>3
    <3>5. QED  BY <1>4, <3>4 DEF TotalsAre
  <2>4. RowsApart(out[d])'  BY <1>1 DEF MetricDevice, RowsApart
  <2>5. SumsAre(d)'
    <3> SUFFICES ASSUME NEW c \in Metric!Counters
                 PROVE  (sent[d][c] + unsent[d][c]) + Metric!Carried(out[d], c) + pair'[d][c].interval = pair'[d][c].total
      BY DEF SumsAre, Metric!Carried
    <3>1. /\ sent[d][c] + unsent[d][c] \in Nat /\ pair[d][c].interval \in Nat /\ pair[d][c].total \in Nat
          /\ out[d] \in Seq(RowType)
      BY <1>1 DEF MetricTypes, PairType
    <3>2. Metric!Carried(out[d], c) \in Nat  BY <1>1, <3>1, CarriedIs DEF MetricDevice
    <3>3. (sent[d][c] + unsent[d][c]) + Metric!Carried(out[d], c) + pair[d][c].interval = pair[d][c].total
      BY <1>1 DEF MetricDevice, SumsAre
    <3>4. /\ Amount(by, c) \in Nat
          /\ pair'[d][c].total = pair[d][c].total + Amount(by, c)
          /\ pair'[d][c].interval = pair[d][c].interval + Amount(by, c)
      BY <1>2
    <3> DEFINE s == sent[d][c] + unsent[d][c]
               u == Metric!Carried(out[d], c)
               v == Amount(by, c)
               a == pair[d][c].interval
               b == pair[d][c].total
    <3>5. s \in Nat /\ u \in Nat /\ v \in Nat /\ a \in Nat /\ b \in Nat /\ s + u + a = b
      BY <3>1, <3>2, <3>3, <3>4
    <3>6. pair'[d][c].interval = a + v /\ pair'[d][c].total = b + v  BY <3>4
    <3> HIDE DEF s, u, v, a, b
    <3>7. s + u + (a + v) = b + v  BY <3>5, MetricSums
    <3>8. QED  BY <3>6, <3>7 DEF s, u
  <2>6. QED  BY <2>1, <2>2, <2>3, <2>4, <2>5 DEF MetricDevice
<1>7. QED  BY <1>3, <1>5, <1>6 DEF MetricInv

\* A table with one entry set.
LEMMA OneUpdated ==
    ASSUME NEW S, NEW f \in [Devices -> S], NEW d \in Devices, NEW v \in S, NEW g, g = [f EXCEPT ![d] = v]
    PROVE  g \in [Devices -> S] /\ g[d] = v /\ \A e \in Devices \ {d} : g[e] = f[e]
OBVIOUS

\* The families of an emission.
LEMMA EmissionFamilies ==
    ASSUME NEW d
    PROVE  /\ Metric!emit_now(d) \in Seq(Metric!Families) /\ Metric!emit_periodic(d) \in Seq(Metric!Families)
           /\ <<>> \in Seq(Metric!Families)
<1>1. <<"health", "connection">> \in Seq(Metric!Families) /\ <<"io">> \in Seq(Metric!Families)
      /\ <<"health", "connection", "publish", "command">> \in Seq(Metric!Families)
      /\ <<"inventory", "poll">> \in Seq(Metric!Families) /\ <<>> \in Seq(Metric!Families)
  BY DEF Metric!Families
<1>2. QED  BY <1>1, ConcatProperties DEF Metric!emit_now, Metric!emit_periodic

\* A recording of one each.
LEMMA OnceAmounts ==
    ASSUME NEW cs
    PROVE  /\ \A c \in DOMAIN Metric!Once(cs) : Metric!Once(cs)[c] \in Nat
           /\ \A c : c \notin cs => Amount(Metric!Once(cs), c) = 0
BY DEF Metric!Once, Amount

\* The frames a sequence number skips (record_frame_consumed), across the wrap.
LEMMA GapIs ==
    ASSUME NEW s \in 0..(SeqSpace - 1), NEW n \in 1..2
    PROVE  /\ (s + n) % SeqSpace \in 0..(SeqSpace - 1)
           /\ Metric!Gap(s, (s + n) % SeqSpace) = n - 1
<1>1. SeqSpace \in Nat /\ SeqSpace > 2 /\ s \in Nat /\ n \in Nat  BY SequenceSpace
<1>2. CASE s + n < SeqSpace
  <2>1. (s + n) % SeqSpace = s + n  BY <1>1, <1>2
  <2>2. ((s + n) - s) % SeqSpace = n  BY <1>1, <1>2
  <2>3. QED  BY <1>1, <1>2, <2>1, <2>2 DEF Metric!Gap, Metric!None
<1>3. CASE s + n >= SeqSpace
  <2>1. (s + n) % SeqSpace = s + n - SeqSpace  BY <1>1, <1>3
  <2>2. (s + n - SeqSpace - s) % SeqSpace = n  BY <1>1, <1>3
  <2>3. QED  BY <1>1, <1>3, <2>1, <2>2 DEF Metric!Gap, Metric!None
<1>4. QED  BY <1>1, <1>2, <1>3

\* What the invariant says of a device's records.
LEMMA DeviceRecords ==
    ASSUME MetricInv, NEW d \in Devices
    PROVE  /\ conn[d] \in ClockType /\ io[d] \in IoType /\ link[d] \in LinkType /\ truth[d] \in TruthType
           /\ conn \in [Devices -> ClockType] /\ io \in [Devices -> IoType] /\ link \in [Devices -> LinkType]
           /\ truth \in [Devices -> TruthType]
           /\ ClockIs(conn[d], link[d]) /\ LinkIs(d, link[d], io[d], truth[d])
           /\ plan \in [Devices -> Seq(Metric!Families)] /\ now \in Nat
BY DEF MetricInv, MetricTypes, MetricDevice

\* Recordings that touch neither the connection nor the link: a cycle, a
\* publish, a command, an enrollment.
LEMMA PlainRecording ==
    ASSUME MetricInv, NEW d \in Devices, NEW cs, "gaps" \notin cs, "produced" \notin cs,
           pair' = Metric!Added(d, Metric!Once(cs)),
           UNCHANGED <<conn, io, link, truth, plan, out, sent, unsent, now, ms>>
    PROVE  MetricInv'
<1>1. /\ io[d] \in IoType /\ truth[d] \in TruthType /\ OnlyDevice(d)
      /\ ClockIs(conn'[d], link'[d]) /\ LinkIs(d, link'[d], io'[d], truth'[d])
  BY DeviceRecords DEF OnlyDevice, MetricInv, MetricTypes
<1> DEFINE by == Metric!Once(cs)
<1>2. (\A c \in DOMAIN by : by[c] \in Nat) /\ Amount(by, "gaps") = 0 /\ Amount(by, "produced") = 0
  BY OnceAmounts
<1>3. pair' = Metric!Added(d, by)  OBVIOUS
<1> HIDE DEF by
<1>4. /\ truth'[d].missed = truth[d].missed + Amount(by, "gaps")
      /\ truth'[d].closed + io'[d].produced = truth[d].closed + io[d].produced + Amount(by, "produced")
  BY <1>1, <1>2 DEF TruthType, IoType
<1>5. QED  BY <1>1, <1>2, <1>3, <1>4, TaskStep

\* Nothing recorded.
LEMMA NothingAdded ==
    ASSUME MetricTypes, NEW d \in Devices
    PROVE  pair = Metric!Added(d, Metric!Once({}))
<1>1. pair \in [Devices -> [Metric!Counters -> PairType]]  BY DEF MetricTypes
<1>2. Metric!Added(d, Metric!Once({})) = [pair EXCEPT ![d] = [c \in Metric!Counters |-> pair[d][c]]]
  BY <1>1 DEF Metric!Added, Metric!Once
<1>3. pair[d] = [c \in Metric!Counters |-> pair[d][c]]  BY <1>1
<1>4. QED  BY <1>1, <1>2, <1>3

\* An attempt and its failure (on_connect_attempt).
LEMMA AttemptStep ==
    ASSUME MetricInv, NEW d \in Devices, Metric!Attempt(d) \/ Metric!ConnectFailed(d)
    PROVE  MetricInv'
<1>1. /\ conn[d] \in ClockType /\ io[d] \in IoType /\ link[d] \in LinkType /\ truth[d] \in TruthType
      /\ conn \in [Devices -> ClockType] /\ io \in [Devices -> IoType] /\ link \in [Devices -> LinkType]
      /\ truth \in [Devices -> TruthType]
      /\ ClockIs(conn[d], link[d]) /\ LinkIs(d, link[d], io[d], truth[d])
      /\ plan \in [Devices -> Seq(Metric!Families)]
  BY DeviceRecords
<1>2. PICK cs \in SUBSET Metric!Counters, ph \in {"opening", "down"} :
          /\ "gaps" \notin cs /\ "produced" \notin cs
          /\ pair' = Metric!Added(d, Metric!Once(cs)) /\ link' = [link EXCEPT ![d].phase = ph]
          /\ link[d].phase \in {"down", "opening"} /\ UNCHANGED <<conn, io, truth, plan, out, sent, unsent, now, ms>>
  <2>1. CASE Metric!Attempt(d)
    <3>1. {"attempts"} \subseteq Metric!Counters  BY DEF Metric!Counters, Metric!Connection
    <3>2. QED  BY <2>1, <3>1 DEF Metric!Attempt, Metric!NoEmission, Metric!Emission, Metric!Quiet
  <2>2. CASE Metric!ConnectFailed(d)
    <3>1. {"failures"} \subseteq Metric!Counters  BY DEF Metric!Counters, Metric!Connection
    <3>2. QED  BY <2>2, <3>1 DEF Metric!ConnectFailed, Metric!NoEmission, Metric!Emission, Metric!Quiet
  <2>3. QED  BY <2>1, <2>2
<1> DEFINE l == [link[d] EXCEPT !.phase = ph]
<1>3. l \in LinkType /\ l.phase = ph  BY <1>1 DEF LinkType
<1>4. ClockIs(conn[d], l) /\ LinkIs(d, l, io[d], truth[d])  BY <1>1, <1>2, <1>3 DEF ClockIs, LinkIs
<1>5. link' = [link EXCEPT ![d] = l]  BY <1>1, <1>2
<1> HIDE DEF l
<1>6. link' \in [Devices -> LinkType] /\ link'[d] = l /\ \A e \in Devices \ {d} : link'[e] = link[e]
  BY <1>1, <1>3, <1>5, OneUpdated
<1>7. OnlyDevice(d)  BY <1>1, <1>2, <1>6 DEF OnlyDevice
<1> DEFINE by == Metric!Once(cs)
<1>8. (\A c \in DOMAIN by : by[c] \in Nat) /\ Amount(by, "gaps") = 0 /\ Amount(by, "produced") = 0
  BY <1>2, OnceAmounts
<1>9. pair' = Metric!Added(d, by)  BY <1>2
<1> HIDE DEF by
<1>10. /\ truth'[d].missed = truth[d].missed + Amount(by, "gaps")
       /\ truth'[d].closed + io'[d].produced = truth[d].closed + io[d].produced + Amount(by, "produced")
  BY <1>1, <1>2, <1>8 DEF TruthType, IoType
<1>11. ClockIs(conn'[d], link'[d]) /\ LinkIs(d, link'[d], io'[d], truth'[d]) /\ UNCHANGED <<conn, out, sent, unsent, now, ms>>
  BY <1>2, <1>4, <1>6
<1>12. QED  BY <1>7, <1>8, <1>9, <1>10, <1>11, TaskStep

\* The connection's clock, when a connection starts and when it ends.
LEMMA ClockTurns ==
    ASSUME NEW k \in ClockType, NEW l, now \in Nat, ClockIs(k, l)
    PROVE  /\ Metric!Connected(k) \in ClockType /\ Metric!Dropped(k) \in ClockType
           /\ l.phase \notin {"open", "up"} => Metric!Accrued(Metric!Connected(k)).ms = Metric!Accrued(k).ms
           /\ Metric!Accrued(Metric!Dropped(k)).ms = Metric!Accrued(k).ms
           /\ \A m : m.phase \in {"open", "up"} => ClockIs(Metric!Connected(k), m)
           /\ \A m : m.phase \notin {"open", "up"} => ClockIs(Metric!Dropped(k), m)
<1>1. Metric!Connected(k) = [k EXCEPT !.up = TRUE, !.ever = TRUE, !.since = now]  BY DEF Metric!Connected
<1> DEFINE s == Metric!Connected(k)
           a == Metric!Accrued(k)
           e == Metric!Dropped(k)
<1>2. s \in ClockType /\ s.up = TRUE /\ s.since = now /\ s.ms = k.ms  BY <1>1 DEF ClockType
<1>3. a \in ClockType /\ (k.since = -1 => a = k)
  <2>1. CASE k.since = -1  BY <2>1 DEF Metric!Accrued, Metric!None
  <2>2. CASE k.since # -1
    <3>1. k.since \in Nat /\ k.since <= now /\ k.ms + (now - k.since) \in Nat  BY <2>2 DEF ClockType, ClockIs
    <3>2. a = [k EXCEPT !.ms = k.ms + (now - k.since), !.since = now]
      BY <2>2 DEF Metric!Accrued, Metric!None, ClockType
    <3> HIDE DEF a
    <3>3. QED  BY <2>2, <3>1, <3>2 DEF ClockType
  <2>3. QED  BY <2>1, <2>2
<1>4. e = [a EXCEPT !.up = FALSE, !.since = -1]  BY DEF Metric!Dropped, Metric!None
<1> HIDE DEF a
<1>5. e \in ClockType /\ e.up = FALSE /\ e.since = -1 /\ e.ms = a.ms  BY <1>3, <1>4 DEF ClockType
<1> HIDE DEF s, e
<1>6. Metric!Accrued(e) = e  BY <1>5 DEF Metric!Accrued, Metric!None
<1>7. Metric!Accrued(s).ms = k.ms
  <2>1. Metric!Accrued(s) = [s EXCEPT !.ms = s.ms + (now - s.since), !.since = now]
    BY <1>2 DEF Metric!Accrued, Metric!None, ClockType
  <2>2. s.ms + (now - s.since) = k.ms  BY <1>2 DEF ClockType
  <2>3. QED  BY <1>2, <2>1, <2>2 DEF ClockType
<1>8. l.phase \notin {"open", "up"} => a.ms = k.ms  BY <1>3 DEF ClockIs
<1>9. (\A m : m.phase \in {"open", "up"} => ClockIs(s, m)) /\ (\A m : m.phase \notin {"open", "up"} => ClockIs(e, m))
  BY <1>2, <1>5 DEF ClockIs
<1>10. QED  BY <1>2, <1>5, <1>6, <1>7, <1>8, <1>9 DEF s, a, e


\* A session or ForwardOpen that succeeds (on_connected).
LEMMA ConnectOkStep ==
    ASSUME MetricInv, NEW d \in Devices, Metric!ConnectOk(d)
    PROVE  MetricInv'
<1>1. /\ conn[d] \in ClockType /\ io[d] \in IoType /\ link[d] \in LinkType /\ truth[d] \in TruthType
      /\ conn \in [Devices -> ClockType] /\ io \in [Devices -> IoType] /\ link \in [Devices -> LinkType]
      /\ truth \in [Devices -> TruthType]
      /\ ClockIs(conn[d], link[d]) /\ LinkIs(d, link[d], io[d], truth[d])
      /\ plan \in [Devices -> Seq(Metric!Families)] /\ now \in Nat
  BY DeviceRecords
<1> DEFINE cs == (IF d \in Push THEN {"opens"} ELSE {}) \cup Metric!Reconnects(conn[d])
           fs == IF d \in Push THEN <<>> ELSE Metric!emit_now(d)
           k == Metric!Connected(conn[d])
           by == Metric!Once(cs)
<1>2. PICK r \in {0, 1} :
          /\ (d \notin Push => r = 0) /\ link[d].phase = "opening"
          /\ link' = [link EXCEPT ![d] = [phase |-> "open", produced |-> 0, refused |-> r, seq |-> -1]]
          /\ pair' = Metric!Added(d, by) /\ conn' = [conn EXCEPT ![d] = k] /\ plan' = [plan EXCEPT ![d] = fs]
          /\ UNCHANGED <<io, truth, out, sent, unsent, now, ms>>
  <2>1. PICK r \in IF d \in Push THEN {0, 1} ELSE {0} :
          /\ link[d].phase = "opening"
          /\ link' = [link EXCEPT ![d] = [phase |-> "open", produced |-> 0, refused |-> r, seq |-> -1]]
          /\ pair' = Metric!Added(d, by) /\ conn' = [conn EXCEPT ![d] = Metric!Connected(@)]
          /\ plan' = [plan EXCEPT ![d] = fs] /\ UNCHANGED <<io, truth, out, sent, unsent, now, ms>>
    BY DEF Metric!ConnectOk, Metric!Begin, Metric!Quiet, Metric!None
  <2>2. r \in {0, 1} /\ (d \notin Push => r = 0)  BY <2>1
  <2>3. [conn EXCEPT ![d] = Metric!Connected(@)] = [conn EXCEPT ![d] = k]  BY <1>1
  <2> HIDE DEF by, k, fs
  <2>4. QED  BY <2>1, <2>2, <2>3
<1>3. "gaps" \notin cs /\ "produced" \notin cs  BY DEF Metric!Reconnects
<1>4. (\A c \in DOMAIN by : by[c] \in Nat) /\ Amount(by, "gaps") = 0 /\ Amount(by, "produced") = 0
  BY <1>3, OnceAmounts
<1>5. fs \in Seq(Metric!Families)  BY EmissionFamilies
<1> DEFINE l == [phase |-> "open", produced |-> 0, refused |-> r, seq |-> -1]
<1>6. l \in LinkType /\ l.phase = "open" /\ l.produced = 0 /\ l.refused = r /\ l.seq = -1  BY DEF LinkType, SeqNumbers
<1>7. link' = [link EXCEPT ![d] = l]  BY <1>2
<1>8. /\ k \in ClockType /\ Metric!Accrued(k).ms = Metric!Accrued(conn[d]).ms
      /\ \A m : m.phase \in {"open", "up"} => ClockIs(k, m)
  <2>1. link[d].phase \notin {"open", "up"}  BY <1>2
  <2>2. QED  BY <1>1, <2>1, ClockTurns
<1> HIDE DEF cs, fs, k, by, l
<1>9. LinkIs(d, l, io[d], truth[d])  BY <1>1, <1>2, <1>6 DEF LinkIs, IoType
<1>10. link' \in [Devices -> LinkType] /\ link'[d] = l /\ \A e \in Devices \ {d} : link'[e] = link[e]
  BY <1>1, <1>6, <1>7, OneUpdated
<1>11. conn' \in [Devices -> ClockType] /\ conn'[d] = k /\ \A e \in Devices \ {d} : conn'[e] = conn[e]
  BY <1>1, <1>2, <1>8, OneUpdated
<1>12. plan' \in [Devices -> Seq(Metric!Families)]  BY <1>1, <1>2, <1>5, OneUpdated
<1>13. OnlyDevice(d)  BY <1>1, <1>2, <1>10, <1>11, <1>12 DEF OnlyDevice
<1>14. /\ truth'[d].missed = truth[d].missed + Amount(by, "gaps")
       /\ truth'[d].closed + io'[d].produced = truth[d].closed + io[d].produced + Amount(by, "produced")
  BY <1>1, <1>2, <1>4 DEF TruthType, IoType
<1>15. /\ ClockIs(conn'[d], link'[d]) /\ LinkIs(d, link'[d], io'[d], truth'[d]) /\ UNCHANGED <<out, sent, unsent, now, ms>>
       /\ Metric!Accrued(conn'[d]).ms = Metric!Accrued(conn[d]).ms
  BY <1>2, <1>6, <1>8, <1>9, <1>10, <1>11
<1>16. pair' = Metric!Added(d, by)  BY <1>2
<1>17. QED  BY <1>4, <1>13, <1>14, <1>15, <1>16, TaskStep

\* A link that comes up at its first frame (on_io_up), and the stack's producer.
LEMMA LinkSteps ==
    ASSUME MetricInv, NEW d \in Devices, Metric!IoUp(d) \/ Metric!StackProduces(d)
    PROVE  MetricInv'
<1>1. /\ conn[d] \in ClockType /\ io[d] \in IoType /\ link[d] \in LinkType /\ truth[d] \in TruthType
      /\ conn \in [Devices -> ClockType] /\ io \in [Devices -> IoType] /\ link \in [Devices -> LinkType]
      /\ truth \in [Devices -> TruthType]
      /\ ClockIs(conn[d], link[d]) /\ LinkIs(d, link[d], io[d], truth[d])
      /\ plan \in [Devices -> Seq(Metric!Families)] /\ now \in Nat
  BY DeviceRecords
<1>2. PICK l \in LinkType, i \in IoType, fs \in Seq(Metric!Families) :
          /\ link' = [link EXCEPT ![d] = l] /\ io' = [io EXCEPT ![d] = i] /\ plan' = [plan EXCEPT ![d] = fs]
          /\ LinkIs(d, l, i, truth[d]) /\ ClockIs(conn[d], l) /\ i.produced = io[d].produced
          /\ UNCHANGED <<pair, conn, truth, out, sent, unsent, now, ms>>
  <2>1. CASE Metric!IoUp(d)
    <3> DEFINE l == [link[d] EXCEPT !.phase = "up"]
               i == [io[d] EXCEPT !.state = TRUE]
               fs == Metric!emit_now(d)
    <3>1. /\ l \in LinkType /\ l.phase = "up" /\ l.produced = link[d].produced /\ l.refused = link[d].refused
          /\ l.seq = link[d].seq
      BY <1>1 DEF LinkType
    <3>2. /\ i \in IoType /\ i.state = TRUE /\ i.lastSeq = io[d].lastSeq /\ i.produced = io[d].produced
          /\ i.refused = io[d].refused
      BY <1>1 DEF IoType
    <3>3. fs \in Seq(Metric!Families)  BY EmissionFamilies
    <3>4. d \in Push /\ link[d].phase = "open"  BY <2>1 DEF Metric!IoUp
    <3>5. /\ link' = [link EXCEPT ![d] = l] /\ io' = [io EXCEPT ![d] = i] /\ plan' = [plan EXCEPT ![d] = fs]
          /\ UNCHANGED <<pair, conn, truth, out, sent, unsent, now, ms>>
      BY <1>1, <2>1 DEF Metric!IoUp, Metric!Begin, Metric!Quiet
    <3> HIDE DEF l, i, fs
    <3>6. LinkIs(d, l, i, truth[d]) /\ ClockIs(conn[d], l)  BY <1>1, <3>1, <3>2, <3>4 DEF LinkIs, ClockIs
    <3>7. QED  BY <3>1, <3>2, <3>3, <3>5, <3>6
  <2>2. CASE Metric!StackProduces(d)
    <3> DEFINE p == link[d].produced + 1
               l == [link[d] EXCEPT !.produced = p]
               i == io[d]
               fs == plan[d]
    <3>0. p \in Nat  BY <1>1 DEF LinkType
    <3> HIDE DEF p
    <3>1. /\ l \in LinkType /\ l.phase = link[d].phase /\ l.produced = p
          /\ l.refused = link[d].refused /\ l.seq = link[d].seq
      BY <1>1, <3>0 DEF LinkType
    <3>2. fs \in Seq(Metric!Families)  BY <1>1
    <3>3. d \in Push /\ link[d].phase \in {"open", "up"}  BY <2>2 DEF Metric!StackProduces
    <3>4. /\ link' = [link EXCEPT ![d] = l] /\ io' = io /\ plan' = plan
          /\ UNCHANGED <<pair, conn, truth, out, sent, unsent, now, ms>>
      BY <1>1, <2>2 DEF Metric!StackProduces, Metric!NoEmission, Metric!Emission, Metric!Quiet, p
    <3>5. io' = [io EXCEPT ![d] = i] /\ plan' = [plan EXCEPT ![d] = fs]  BY <1>1, <3>4
    <3>6. link[d].produced \in Nat /\ io[d].produced \in Nat  BY <1>1 DEF LinkType, IoType
    <3> HIDE DEF l
    <3>7. LinkIs(d, l, io[d], truth[d]) /\ ClockIs(conn[d], l)  BY <1>1, <3>1, <3>3, <3>6 DEF LinkIs, ClockIs, p
    <3>8. QED  BY <1>1, <3>1, <3>2, <3>4, <3>5, <3>7
  <2>3. QED  BY <2>1, <2>2
<1>3. link' \in [Devices -> LinkType] /\ link'[d] = l /\ \A e \in Devices \ {d} : link'[e] = link[e]
  BY <1>1, <1>2, OneUpdated
<1>4. io' \in [Devices -> IoType] /\ io'[d] = i /\ \A e \in Devices \ {d} : io'[e] = io[e]
  BY <1>1, <1>2, OneUpdated
<1>5. plan' \in [Devices -> Seq(Metric!Families)]  BY <1>1, <1>2, OneUpdated
<1>6. OnlyDevice(d)  BY <1>1, <1>2, <1>3, <1>4, <1>5 DEF OnlyDevice
<1> DEFINE by == Metric!Once({})
<1>7. pair' = Metric!Added(d, by)  BY <1>2, NothingAdded DEF MetricInv
<1>8. (\A c \in DOMAIN by : by[c] \in Nat) /\ Amount(by, "gaps") = 0 /\ Amount(by, "produced") = 0
  BY OnceAmounts
<1> HIDE DEF by
<1>9. /\ truth'[d].missed = truth[d].missed + Amount(by, "gaps")
      /\ truth'[d].closed + io'[d].produced = truth[d].closed + io[d].produced + Amount(by, "produced")
  BY <1>1, <1>2, <1>4, <1>8 DEF TruthType, IoType
<1>10. /\ ClockIs(conn'[d], link'[d]) /\ LinkIs(d, link'[d], io'[d], truth'[d]) /\ UNCHANGED <<out, sent, unsent, now, ms>>
       /\ Metric!Accrued(conn'[d]).ms = Metric!Accrued(conn[d]).ms
  BY <1>2, <1>3, <1>4
<1>11. QED  BY <1>6, <1>7, <1>8, <1>9, <1>10, TaskStep

\* A frame (record_frame_consumed): a gap is counted for exactly the frames
\* that the sequence skipped.
LEMMA FrameStep ==
    ASSUME MetricInv, NEW d \in Devices, Metric!Frame(d)
    PROVE  MetricInv'
<1>1. /\ conn[d] \in ClockType /\ io[d] \in IoType /\ link[d] \in LinkType /\ truth[d] \in TruthType
      /\ conn \in [Devices -> ClockType] /\ io \in [Devices -> IoType] /\ link \in [Devices -> LinkType]
      /\ truth \in [Devices -> TruthType]
      /\ ClockIs(conn[d], link[d]) /\ LinkIs(d, link[d], io[d], truth[d])
      /\ plan \in [Devices -> Seq(Metric!Families)] /\ now \in Nat
  BY DeviceRecords
<1>2. PICK n \in 1..2, s \in {0, SeqSpace - 1} :
        LET seq == IF link[d].seq = -1 THEN s ELSE (link[d].seq + n) % SeqSpace
        IN  /\ link[d].phase = "up"
            /\ link' = [link EXCEPT ![d].seq = seq] /\ io' = [io EXCEPT ![d].lastSeq = seq]
            /\ pair' = Metric!Added(d, [c \in {"frames", "gaps"} |->
                                          IF c = "gaps" THEN Metric!Gap(io[d].lastSeq, seq) ELSE 1])
            /\ truth' = IF link[d].seq = -1 THEN truth ELSE [truth EXCEPT ![d].missed = @ + (n - 1)]
            /\ UNCHANGED <<conn, plan, out, sent, unsent, now, ms>>
  BY Zenon DEF Metric!Frame, Metric!NoEmission, Metric!Emission, Metric!Quiet, Metric!None
<1> DEFINE seq == IF link[d].seq = -1 THEN s ELSE (link[d].seq + n) % SeqSpace
           g == Metric!Gap(io[d].lastSeq, seq)
           by == [c \in {"frames", "gaps"} |-> IF c = "gaps" THEN g ELSE 1]
           lost == IF link[d].seq = -1 THEN 0 ELSE n - 1
<1>3. SeqSpace \in Nat /\ SeqSpace > 2  BY SequenceSpace
<1>4. io[d].lastSeq = link[d].seq /\ link[d].seq \in SeqNumbers  BY <1>1, <1>2 DEF LinkIs, LinkType
<1>5. seq \in 0..(SeqSpace - 1) /\ g = lost /\ lost \in Nat
  <2>1. CASE link[d].seq = -1
    <3>1. seq = s /\ lost = 0 /\ g = Metric!Gap(-1, s)  BY <1>4, <2>1
    <3>2. Metric!Gap(-1, s) = 0  BY DEF Metric!Gap, Metric!None
    <3>3. QED  BY <1>3, <3>1, <3>2
  <2>2. CASE link[d].seq # -1
    <3>1. link[d].seq \in 0..(SeqSpace - 1)  BY <1>4, <2>2 DEF SeqNumbers
    <3>2. seq = (link[d].seq + n) % SeqSpace /\ lost = n - 1 /\ g = Metric!Gap(link[d].seq, seq)  BY <1>4, <2>2
    <3>3. seq \in 0..(SeqSpace - 1) /\ g = n - 1  BY <3>1, <3>2, GapIs
    <3>4. QED  BY <3>2, <3>3
  <2>3. QED  BY <2>1, <2>2
<1>6. /\ link' = [link EXCEPT ![d].seq = seq] /\ io' = [io EXCEPT ![d].lastSeq = seq]
      /\ pair' = Metric!Added(d, by)
      /\ truth' = IF link[d].seq = -1 THEN truth ELSE [truth EXCEPT ![d].missed = @ + (n - 1)]
      /\ UNCHANGED <<conn, plan, out, sent, unsent, now, ms>> /\ link[d].phase = "up"
  BY <1>2
<1>7. "gaps" # "produced" /\ DOMAIN by = {"frames", "gaps"} /\ by["gaps"] = g /\ by["frames"] = 1  OBVIOUS
<1> HIDE DEF seq, g, by
<1>8. (\A c \in DOMAIN by : by[c] \in Nat) /\ Amount(by, "gaps") = lost /\ Amount(by, "produced") = 0
  BY <1>5, <1>7 DEF Amount
<1>9. seq \in SeqNumbers  BY <1>5 DEF SeqNumbers
<1> DEFINE l == [link[d] EXCEPT !.seq = seq]
           i == [io[d] EXCEPT !.lastSeq = seq]
           t == [truth[d] EXCEPT !.missed = truth[d].missed + lost]
<1>10. /\ l \in LinkType /\ l.phase = "up" /\ l.produced = link[d].produced /\ l.refused = link[d].refused
       /\ l.seq = seq
  BY <1>1, <1>6, <1>9 DEF LinkType
<1>11. /\ i \in IoType /\ i.lastSeq = seq /\ i.produced = io[d].produced /\ i.refused = io[d].refused
       /\ i.state = io[d].state
  BY <1>1, <1>9 DEF IoType
<1>12. /\ t \in TruthType /\ t.missed = truth[d].missed + lost /\ t.closed = truth[d].closed /\ t.reports = truth[d].reports
  <2>1. truth[d].missed + lost \in Nat  BY <1>1, <1>5 DEF TruthType
  <2> HIDE DEF lost
  <2>2. QED  BY <1>1, <2>1 DEF TruthType
<1>13. link' = [link EXCEPT ![d] = l] /\ io' = [io EXCEPT ![d] = i]  BY <1>1, <1>6
<1>14. truth' = [truth EXCEPT ![d] = t]
  <2>1. CASE link[d].seq = -1
    <3>1. truth[d].missed + lost = truth[d].missed  BY <1>1, <2>1 DEF TruthType
    <3>2. t = truth[d]  BY <1>1, <3>1 DEF TruthType
    <3>3. QED  BY <1>1, <1>6, <2>1, <3>2
  <2>2. CASE link[d].seq # -1  BY <1>1, <1>6, <2>2
  <2>3. QED  BY <2>1, <2>2
<1> HIDE DEF l, i, t, lost
<1>15. LinkIs(d, l, i, t)  BY <1>1, <1>6, <1>10, <1>11, <1>12 DEF LinkIs
<1>16. ClockIs(conn[d], l)  BY <1>1, <1>6, <1>10 DEF ClockIs
<1>17. link' \in [Devices -> LinkType] /\ link'[d] = l /\ \A e \in Devices \ {d} : link'[e] = link[e]
  BY <1>1, <1>10, <1>13, OneUpdated
<1>18. io' \in [Devices -> IoType] /\ io'[d] = i /\ \A e \in Devices \ {d} : io'[e] = io[e]
  BY <1>1, <1>11, <1>13, OneUpdated
<1>19. truth' \in [Devices -> TruthType] /\ truth'[d] = t /\ \A e \in Devices \ {d} : truth'[e] = truth[e]
  BY <1>1, <1>12, <1>14, OneUpdated
<1>20. OnlyDevice(d)  BY <1>1, <1>6, <1>17, <1>18, <1>19 DEF OnlyDevice
<1>21. /\ truth'[d].missed = truth[d].missed + Amount(by, "gaps")
       /\ truth'[d].closed + io'[d].produced = truth[d].closed + io[d].produced + Amount(by, "produced")
  BY <1>1, <1>8, <1>11, <1>12, <1>18, <1>19 DEF TruthType, IoType
<1>22. /\ ClockIs(conn'[d], link'[d]) /\ LinkIs(d, link'[d], io'[d], truth'[d]) /\ UNCHANGED <<out, sent, unsent, now, ms>>
       /\ Metric!Accrued(conn'[d]).ms = Metric!Accrued(conn[d]).ms
  BY <1>6, <1>15, <1>16, <1>17, <1>18, <1>19
<1>23. pair' = Metric!Added(d, by)  BY <1>6
<1>24. QED  BY <1>8, <1>20, <1>21, <1>22, <1>23, TaskStep

\* Recordings of a cycle, a publish, a command and an enrollment.
LEMMA PlainSteps ==
    ASSUME MetricInv, NEW d \in Devices,
           \/ Metric!record_poll_cycle(d) \/ Metric!record_publish(d)
           \/ Metric!record_command(d) \/ Metric!on_est_enrollment(d)
    PROVE  MetricInv'
<1>1. /\ UNCHANGED <<conn, io, link, truth, plan, out, sent, unsent, now, ms>>
      /\ \E cs : "gaps" \notin cs /\ "produced" \notin cs /\ pair' = Metric!Added(d, Metric!Once(cs))
  <2>1. CASE Metric!record_poll_cycle(d)
    <3>1. PICK b \in {{}, {"readErrors"}} : pair' = Metric!Added(d, Metric!Once({"cycles"} \cup b))
      BY <2>1 DEF Metric!record_poll_cycle
    <3>2. UNCHANGED <<conn, io, link, truth, plan, out, sent, unsent, now, ms>>
      BY <2>1 DEF Metric!record_poll_cycle, Metric!NoEmission, Metric!Emission, Metric!Quiet
    <3>3. "gaps" \notin {"cycles"} \cup b /\ "produced" \notin {"cycles"} \cup b  OBVIOUS
    <3>4. QED  BY <3>1, <3>2, <3>3
  <2>2. CASE Metric!record_publish(d)
    BY <2>2 DEF Metric!record_publish, Metric!NoEmission, Metric!Emission, Metric!Quiet
  <2>3. CASE Metric!record_command(d)
    <3>1. PICK r \in {"success", "error"} : pair' = Metric!Added(d, Metric!Once({r}))
      BY <2>3 DEF Metric!record_command
    <3>2. "gaps" \notin {r} /\ "produced" \notin {r}  OBVIOUS
    <3>3. QED
      BY <2>3, <3>1, <3>2 DEF Metric!record_command, Metric!Beside, Metric!NoEmission, Metric!Emission, Metric!Quiet
  <2>4. CASE Metric!on_est_enrollment(d)
    BY <2>4 DEF Metric!on_est_enrollment, Metric!Beside, Metric!NoEmission, Metric!Emission, Metric!Quiet
  <2>5. QED  BY <2>1, <2>2, <2>3, <2>4
<1>2. QED  BY <1>1, PlainRecording

\* A cumulative counter read again on the same connection.
LEMMA DeltaIs ==
    ASSUME NEW a \in Nat, NEW b \in Nat, b <= a
    PROVE  Metric!Delta(a, b) \in Nat /\ b + Metric!Delta(a, b) = a
BY DEF Metric!Delta

\* The metrics interval (record_io_stats and emit_periodic).
LEMMA PeriodicStep ==
    ASSUME MetricInv, NEW d \in Devices, Metric!Periodic(d)
    PROVE  MetricInv'
<1>1. /\ conn[d] \in ClockType /\ io[d] \in IoType /\ link[d] \in LinkType /\ truth[d] \in TruthType
      /\ conn \in [Devices -> ClockType] /\ io \in [Devices -> IoType] /\ link \in [Devices -> LinkType]
      /\ truth \in [Devices -> TruthType]
      /\ ClockIs(conn[d], link[d]) /\ LinkIs(d, link[d], io[d], truth[d])
      /\ plan \in [Devices -> Seq(Metric!Families)] /\ now \in Nat
  BY DeviceRecords
<1> DEFINE new == Metric!Delta(link[d].refused, io[d].refused)
           more == Metric!Delta(link[d].produced, io[d].produced)
           by == IF d \in Push THEN [c \in {"produced", "refused"} |-> IF c = "refused" THEN new ELSE more]
                 ELSE Metric!Once({})
           one == IF new > 0 THEN 1 ELSE 0
           fs == Metric!emit_periodic(d)
<1>2. /\ link[d].phase \in {"open", "up"}
      /\ pair' = Metric!Added(d, by)
      /\ io' = [io EXCEPT ![d].produced = link[d].produced, ![d].refused = link[d].refused]
      /\ truth' = [truth EXCEPT ![d].reports = @ + one]
      /\ plan' = [plan EXCEPT ![d] = fs] /\ UNCHANGED <<conn, link, out, sent, unsent, now, ms>>
  BY DEF Metric!Periodic, Metric!Begin, Metric!Quiet
<1>3. /\ link[d].refused \in 0..1 /\ io[d].refused \in Nat /\ io[d].refused <= link[d].refused
      /\ link[d].produced \in Nat /\ io[d].produced \in Nat /\ io[d].produced <= link[d].produced
      /\ (d \notin Push => link[d].produced = 0)
      /\ truth[d].reports = io[d].refused
  BY <1>1, <1>2 DEF LinkIs, LinkType, IoType
<1>4. new \in Nat /\ io[d].refused + new = link[d].refused
  <2>1. link[d].refused \in Nat /\ io[d].refused \in Nat /\ io[d].refused <= link[d].refused  BY ONLY <1>3
  <2>2. QED  BY ONLY <2>1, DeltaIs
<1>5. more \in Nat /\ io[d].produced + more = link[d].produced
  <2>1. link[d].produced \in Nat /\ io[d].produced \in Nat /\ io[d].produced <= link[d].produced  BY ONLY <1>3
  <2>2. QED  BY ONLY <2>1, DeltaIs
<1>6. one \in Nat /\ truth[d].reports + one = link[d].refused
  <2> HIDE DEF new
  <2>1. QED  BY <1>3, <1>4
<1>7. fs \in Seq(Metric!Families)  BY EmissionFamilies
<1> HIDE DEF new, more, one, fs
<1>8. /\ \A c \in DOMAIN by : by[c] \in Nat
      /\ Amount(by, "gaps") = 0
      /\ Amount(by, "produced") = IF d \in Push THEN more ELSE 0
  <2>1. CASE d \in Push
    <3>1. by = [c \in {"produced", "refused"} |-> IF c = "refused" THEN new ELSE more]  BY <2>1
    <3> HIDE DEF by
    <3>2. DOMAIN by = {"produced", "refused"} /\ by["produced"] = more /\ by["refused"] = new  BY <3>1
    <3>3. QED  BY <1>4, <1>5, <2>1, <3>2 DEF Amount
  <2>2. CASE d \notin Push
    <3>1. by = Metric!Once({})  BY <2>2
    <3> HIDE DEF by
    <3>2. QED  BY <2>2, <3>1, OnceAmounts
  <2>3. QED  BY <2>1, <2>2
<1>9. Amount(by, "produced") \in Nat /\ io[d].produced + Amount(by, "produced") = link[d].produced
  <2> HIDE DEF by
  <2>1. QED  BY <1>3, <1>5, <1>8
<1>10. pair' = Metric!Added(d, by)  BY <1>2
<1> HIDE DEF by
<1> DEFINE lp == link[d].produced
           lr == link[d].refused
           tr == truth[d].reports + one
           i == [io[d] EXCEPT !.produced = lp, !.refused = lr]
           t == [truth[d] EXCEPT !.reports = tr]
<1>11. lp \in Nat /\ lr \in Nat /\ tr \in Nat /\ tr = lr  BY <1>3, <1>6
<1>12. io' = [io EXCEPT ![d] = i]  BY <1>1, <1>2
<1>13. truth' = [truth EXCEPT ![d] = t]  BY <1>1, <1>2
<1>14. lp = link[d].produced /\ lr = link[d].refused  OBVIOUS
<1> HIDE DEF lp, lr, tr
<1>15. /\ i \in IoType /\ i.produced = lp /\ i.refused = lr /\ i.lastSeq = io[d].lastSeq /\ i.state = io[d].state
  BY <1>1, <1>11 DEF IoType
<1>16. t \in TruthType /\ t.reports = tr /\ t.missed = truth[d].missed /\ t.closed = truth[d].closed
  BY <1>1, <1>11 DEF TruthType
<1> HIDE DEF i, t
<1>17. LinkIs(d, link[d], i, t)  BY <1>1, <1>2, <1>3, <1>11, <1>14, <1>15, <1>16 DEF LinkIs
<1>18. io' \in [Devices -> IoType] /\ io'[d] = i /\ \A e \in Devices \ {d} : io'[e] = io[e]
  BY <1>1, <1>12, <1>15, OneUpdated
<1>19. truth' \in [Devices -> TruthType] /\ truth'[d] = t /\ \A e \in Devices \ {d} : truth'[e] = truth[e]
  BY <1>1, <1>13, <1>16, OneUpdated
<1>20. plan' \in [Devices -> Seq(Metric!Families)]  BY <1>1, <1>2, <1>7, OneUpdated
<1>21. OnlyDevice(d)  BY <1>1, <1>2, <1>18, <1>19, <1>20 DEF OnlyDevice
<1>22. /\ truth'[d].missed = truth[d].missed + Amount(by, "gaps")
       /\ truth'[d].closed + io'[d].produced = truth[d].closed + io[d].produced + Amount(by, "produced")
  <2>1. truth[d].missed \in Nat /\ truth[d].closed \in Nat  BY <1>1 DEF TruthType
  <2>2. truth'[d].missed = truth[d].missed /\ truth'[d].closed = truth[d].closed /\ io'[d].produced = lp
    BY <1>15, <1>16, <1>18, <1>19
  <2>3. io[d].produced + Amount(by, "produced") = lp  BY <1>9, <1>14
  <2>4. QED  BY <1>3, <1>8, <1>9, <2>1, <2>2, <2>3
<1>23. /\ ClockIs(conn'[d], link'[d]) /\ LinkIs(d, link'[d], io'[d], truth'[d]) /\ UNCHANGED <<out, sent, unsent, now, ms>>
       /\ Metric!Accrued(conn'[d]).ms = Metric!Accrued(conn[d]).ms
  BY <1>1, <1>2, <1>17, <1>18, <1>19
<1>24. \A c \in DOMAIN by : by[c] \in Nat  BY <1>8
<1>25. QED  BY <1>10, <1>21, <1>22, <1>23, <1>24, TaskStep

\* A link that ends, lost or replaced (end_connection): the next one starts
\* from nothing, and what was read of this one stays in the totals.
LEMMA EndStep ==
    ASSUME MetricInv, NEW d \in Devices, Metric!LinkLost(d) \/ Metric!Reconnect(d)
    PROVE  MetricInv'
<1>1. /\ conn[d] \in ClockType /\ io[d] \in IoType /\ link[d] \in LinkType /\ truth[d] \in TruthType
      /\ conn \in [Devices -> ClockType] /\ io \in [Devices -> IoType] /\ link \in [Devices -> LinkType]
      /\ truth \in [Devices -> TruthType]
      /\ ClockIs(conn[d], link[d]) /\ LinkIs(d, link[d], io[d], truth[d])
      /\ plan \in [Devices -> Seq(Metric!Families)] /\ now \in Nat
  BY DeviceRecords
<1> DEFINE k == Metric!Dropped(conn[d])
           u == truth[d].unreported \/ (link[d].refused > truth[d].reports)
           cl == truth[d].closed + io[d].produced
           t == [truth[d] EXCEPT !.closed = cl, !.unreported = u, !.reports = 0]
           i == IF d \in Push THEN Metric!NoLink ELSE io[d]
           l == [link[d] EXCEPT !.phase = "down"]
<1>2. [conn EXCEPT ![d] = Metric!Dropped(@)] = [conn EXCEPT ![d] = k]  BY <1>1
<1>3. Metric!Ended(d) = [truth EXCEPT ![d] = t]  BY <1>1 DEF Metric!Ended
<1>4. (IF d \in Push THEN [io EXCEPT ![d] = Metric!end_connection(@)] ELSE io) = [io EXCEPT ![d] = i]
  BY <1>1 DEF Metric!end_connection
<1>5. [link EXCEPT ![d].phase = "down"] = [link EXCEPT ![d] = l]  BY <1>1
<1>6. PICK cs \in SUBSET Metric!Counters, fs \in Seq(Metric!Families) :
          /\ "gaps" \notin cs /\ "produced" \notin cs /\ pair' = Metric!Added(d, Metric!Once(cs))
          /\ conn' = [conn EXCEPT ![d] = k] /\ link' = [link EXCEPT ![d] = l] /\ io' = [io EXCEPT ![d] = i]
          /\ truth' = [truth EXCEPT ![d] = t] /\ plan' = [plan EXCEPT ![d] = fs]
          /\ link[d].phase \in {"open", "up"} /\ UNCHANGED <<out, sent, unsent, now, ms>>
  <2>1. CASE Metric!LinkLost(d)
    <3> DEFINE cs == {"readErrors", "drops"} \cup IF d \in Push THEN {"timeouts"} ELSE {}
               fs == Metric!emit_now(d)
    <3>1. "gaps" \notin cs /\ "produced" \notin cs /\ cs \in SUBSET Metric!Counters
      BY DEF Metric!Counters, Metric!Health, Metric!Connection, Metric!Io
    <3>2. fs \in Seq(Metric!Families)  BY EmissionFamilies
    <3>3. /\ pair' = Metric!Added(d, Metric!Once(cs)) /\ plan' = [plan EXCEPT ![d] = fs]
          /\ link[d].phase \in {"open", "up"} /\ UNCHANGED <<out, sent, unsent, now, ms>>
          /\ conn' = [conn EXCEPT ![d] = Metric!Dropped(@)] /\ truth' = Metric!Ended(d)
          /\ io' = IF d \in Push THEN [io EXCEPT ![d] = Metric!end_connection(@)] ELSE io
          /\ link' = [link EXCEPT ![d].phase = "down"]
      BY <2>1 DEF Metric!LinkLost, Metric!Begin, Metric!Quiet
    <3> HIDE DEF k, t, i, l, cs, fs
    <3>4. QED  BY <1>2, <1>3, <1>4, <1>5, <3>1, <3>2, <3>3
  <2>2. CASE Metric!Reconnect(d)
    <3> DEFINE fs == plan[d]
    <3>1. fs \in Seq(Metric!Families) /\ plan = [plan EXCEPT ![d] = fs]  BY <1>1
    <3>2. /\ pair' = Metric!Added(d, Metric!Once({"drops"})) /\ plan' = plan
          /\ link[d].phase \in {"open", "up"} /\ UNCHANGED <<out, sent, unsent, now, ms>>
          /\ conn' = [conn EXCEPT ![d] = Metric!Dropped(@)] /\ truth' = Metric!Ended(d)
          /\ io' = IF d \in Push THEN [io EXCEPT ![d] = Metric!end_connection(@)] ELSE io
          /\ link' = [link EXCEPT ![d].phase = "down"]
      BY <2>2 DEF Metric!Reconnect, Metric!NoEmission, Metric!Emission, Metric!Quiet
    <3>3. "gaps" \notin {"drops"} /\ "produced" \notin {"drops"} /\ {"drops"} \in SUBSET Metric!Counters
      BY DEF Metric!Counters, Metric!Connection
    <3> HIDE DEF k, t, i, l, fs
    <3>4. QED  BY <1>2, <1>3, <1>4, <1>5, <3>1, <3>2, <3>3
  <2>3. QED  BY <2>1, <2>2
<1>7. l \in LinkType /\ l.phase = "down"  BY <1>1 DEF LinkType
<1>8. i \in IoType /\ i.lastSeq = -1 /\ i.produced = 0 /\ i.refused = 0 /\ i.state = FALSE
  <2>1. CASE d \in Push
    <3>1. i = [state |-> FALSE, lastSeq |-> -1, produced |-> 0, refused |-> 0]
      BY <2>1 DEF Metric!NoLink, Metric!None
    <3>2. -1 \in SeqNumbers  BY DEF SeqNumbers
    <3> HIDE DEF i
    <3>3. QED  BY <3>1, <3>2 DEF IoType
  <2>2. CASE d \notin Push
    <3>1. i = io[d] /\ link[d].phase = "open"  BY <1>1, <1>6, <2>2 DEF LinkIs
    <3> HIDE DEF i
    <3>2. io[d].produced \in Nat /\ io[d].refused \in Nat /\ io[d].state \in BOOLEAN  BY <1>1 DEF IoType
    <3>3. /\ io[d].lastSeq = -1 /\ io[d].produced <= 0 /\ io[d].refused <= 0 /\ ~io[d].state
      BY <1>1, <2>2, <3>1 DEF LinkIs
    <3>4. io[d].produced = 0 /\ io[d].refused = 0 /\ io[d].state = FALSE  BY <3>2, <3>3
    <3>5. QED  BY <1>1, <3>1, <3>3, <3>4
  <2>3. QED  BY <2>1, <2>2
<1>9. cl \in Nat /\ u \in BOOLEAN
  <2>1. truth[d].closed \in Nat /\ io[d].produced \in Nat /\ truth[d].unreported \in BOOLEAN  BY <1>1 DEF TruthType, IoType
  <2>2. cl \in Nat  BY <2>1
  <2>3. u \in BOOLEAN  BY Zenon, <2>1
  <2>4. QED  BY <2>2, <2>3
<1>10. cl = truth[d].closed + io[d].produced  OBVIOUS
<1> HIDE DEF cl, u
<1>11. /\ t \in TruthType /\ t.reports = 0 /\ t.missed = truth[d].missed /\ t.closed = cl
  BY <1>1, <1>9 DEF TruthType
<1>12. /\ k \in ClockType /\ Metric!Accrued(k).ms = Metric!Accrued(conn[d]).ms
       /\ \A m : m.phase \notin {"open", "up"} => ClockIs(k, m)
  BY <1>1, ClockTurns
<1> DEFINE by == Metric!Once(cs)
<1>13. (\A c \in DOMAIN by : by[c] \in Nat) /\ Amount(by, "gaps") = 0 /\ Amount(by, "produced") = 0
  BY <1>6, OnceAmounts
<1>14. pair' = Metric!Added(d, by)  BY <1>6
<1> HIDE DEF k, t, i, l, by
<1>15. LinkIs(d, l, i, t) /\ ClockIs(k, l)
  <2>1. ClockIs(k, l)  BY <1>7, <1>12
  <2>2. QED  BY <1>7, <1>8, <1>11, <2>1 DEF LinkIs
<1>16. link' \in [Devices -> LinkType] /\ link'[d] = l /\ \A e \in Devices \ {d} : link'[e] = link[e]
  BY <1>1, <1>6, <1>7, OneUpdated
<1>17. io' \in [Devices -> IoType] /\ io'[d] = i /\ \A e \in Devices \ {d} : io'[e] = io[e]
  BY <1>1, <1>6, <1>8, OneUpdated
<1>18. truth' \in [Devices -> TruthType] /\ truth'[d] = t /\ \A e \in Devices \ {d} : truth'[e] = truth[e]
  BY <1>1, <1>6, <1>11, OneUpdated
<1>19. conn' \in [Devices -> ClockType] /\ conn'[d] = k /\ \A e \in Devices \ {d} : conn'[e] = conn[e]
  BY <1>1, <1>6, <1>12, OneUpdated
<1>20. plan' \in [Devices -> Seq(Metric!Families)]  BY <1>1, <1>6, OneUpdated
<1>21. OnlyDevice(d)  BY <1>16, <1>17, <1>18, <1>19, <1>20 DEF OnlyDevice
<1>22. /\ truth'[d].missed = truth[d].missed + Amount(by, "gaps")
       /\ truth'[d].closed + io'[d].produced = truth[d].closed + io[d].produced + Amount(by, "produced")
  BY <1>1, <1>8, <1>9, <1>10, <1>11, <1>13, <1>17, <1>18 DEF TruthType, IoType
<1>23. /\ ClockIs(conn'[d], link'[d]) /\ LinkIs(d, link'[d], io'[d], truth'[d]) /\ UNCHANGED <<out, sent, unsent, now, ms>>
       /\ Metric!Accrued(conn'[d]).ms = Metric!Accrued(conn[d]).ms
  BY <1>6, <1>12, <1>15, <1>16, <1>17, <1>18, <1>19
<1>24. \A c \in DOMAIN by : by[c] \in Nat  BY <1>13
<1>25. QED  BY <1>14, <1>21, <1>22, <1>23, <1>24, TaskStep

\* The rows of a family: sets of counters, no counter in two of them.
LEMMA RowsShape ==
    ASSUME NEW f \in Metric!Families
    PROVE  /\ Metric!Rows(f) \in Seq(SUBSET Metric!Counters)
           /\ \A i, j \in 1..Len(Metric!Rows(f)) : i # j => Metric!Rows(f)[i] \cap Metric!Rows(f)[j] = {}
<1> DEFINE C == Metric!Counters
<1>1. /\ Metric!Health \in SUBSET C /\ Metric!Connection \in SUBSET C /\ Metric!Io \in SUBSET C
      /\ {"published"} \in SUBSET C /\ {"success"} \in SUBSET C /\ {"error"} \in SUBSET C /\ {"cycles"} \in SUBSET C
      /\ {} \in SUBSET C
  BY DEF Metric!Counters
<1> HIDE DEF C
<1>2. CASE f = "command"
  <2>1. Metric!Rows(f) = <<{"success"}, {"error"}>>  BY <1>2 DEF Metric!Rows
  <2> DEFINE r == <<{"success"}, {"error"}>>
  <2>2. r \in Seq(SUBSET C) /\ Len(r) = 2 /\ r[1] = {"success"} /\ r[2] = {"error"}  BY <1>1
  <2> HIDE DEF r
  <2>3. \A i, j \in 1..Len(r) : i # j => (i = 1 /\ j = 2) \/ (i = 2 /\ j = 1)  BY <2>2
  <2>4. \A i, j \in 1..Len(r) : i # j => r[i] \cap r[j] = {}  BY <2>2, <2>3
  <2>5. QED  BY <2>1, <2>2, <2>4 DEF r, C
<1>3. CASE f # "command"
  <2>1. PICK R \in SUBSET C : Metric!Rows(f) = <<R>>
    <3>1. CASE f = "health"  BY <1>1, <3>1 DEF Metric!Rows
    <3>2. CASE f = "connection"  BY <1>1, <3>2 DEF Metric!Rows
    <3>3. CASE f = "publish"  BY <1>1, <3>3 DEF Metric!Rows
    <3>4. CASE f = "io"  BY <1>1, <3>4 DEF Metric!Rows
    <3>5. CASE f = "inventory"  BY <1>1, <3>5 DEF Metric!Rows
    <3>6. CASE f = "poll"  BY <1>1, <3>6 DEF Metric!Rows
    <3>7. QED  BY <1>3, <3>1, <3>2, <3>3, <3>4, <3>5, <3>6 DEF Metric!Families
  <2>2. <<R>> \in Seq(SUBSET C) /\ Len(<<R>>) = 1  OBVIOUS
  <2>3. QED  BY <2>1, <2>2 DEF C
<1>4. QED  BY <1>2, <1>3

\* The connected time is read and starts again (ConnCounters, drain_into).
LEMMA ClockDrained ==
    ASSUME NEW k \in ClockType, NEW l, now \in Nat, ClockIs(k, l)
    PROVE  LET z == [Metric!Accrued(k) EXCEPT !.ms = 0]
           IN  z \in ClockType /\ Metric!Accrued(z).ms = 0 /\ ClockIs(z, l) /\ Metric!Accrued(k).ms \in Nat
<1> DEFINE a == Metric!Accrued(k)
           z == [a EXCEPT !.ms = 0]
<1>1. /\ a \in ClockType /\ a.up = k.up /\ (k.since = -1 => a.since = -1) /\ (k.since # -1 => a.since = now)
  <2>1. CASE k.since = -1  BY <2>1 DEF Metric!Accrued, Metric!None
  <2>2. CASE k.since # -1
    <3> DEFINE n == k.ms + (now - k.since)
    <3>1. k.since \in Nat /\ k.since <= now /\ n \in Nat  BY <2>2 DEF ClockType, ClockIs
    <3>2. a = [k EXCEPT !.ms = n, !.since = now]
      BY <2>2 DEF Metric!Accrued, Metric!None, ClockType
    <3> HIDE DEF a, n
    <3>3. QED  BY <2>2, <3>1, <3>2 DEF ClockType
  <2>3. QED  BY <2>1, <2>2
<1> HIDE DEF a
<1>2. z \in ClockType /\ z.up = a.up /\ z.since = a.since /\ z.ms = 0  BY <1>1 DEF ClockType
<1>3. a.ms \in Nat  BY <1>1 DEF ClockType
<1> HIDE DEF z
<1>4. ClockIs(z, l)
  <2>1. z.up = k.up /\ (k.since = -1 => z.since = -1) /\ (k.since # -1 => z.since = now) /\ -1 # now
    BY <1>1, <1>2
  <2>2. QED  BY <2>1 DEF ClockIs
<1>5. Metric!Accrued(z).ms = 0
  <2>1. CASE z.since = -1  BY <1>2, <2>1 DEF Metric!Accrued, Metric!None
  <2>2. CASE z.since # -1
    <3>1. z.since = now  BY <1>1, <1>2, <2>2
    <3>2. Metric!Accrued(z) = [z EXCEPT !.ms = z.ms + (now - z.since), !.since = now]
      BY <2>2 DEF Metric!Accrued, Metric!None, ClockType
    <3>3. z.ms + (now - z.since) = 0  BY <1>2, <3>1
    <3>4. QED  BY <1>2, <3>2, <3>3 DEF ClockType
  <2>3. QED  BY <2>1, <2>2
<1>6. QED  BY <1>2, <1>3, <1>4, <1>5 DEF z, a

\* The rows of a family, drained under one lock: they carry the intervals of
\* their counters.
LEMMA DrainedRows ==
    ASSUME MetricTypes, NEW d \in Devices, NEW f \in Metric!Families, NEW q,
           q = [i \in DOMAIN Metric!Rows(f) |->
                   [name |-> f, row |-> i, values |-> Metric!Values(d, Metric!Rows(f)[i])]]
    PROVE  LET drained == UNION {Metric!Rows(f)[i] : i \in DOMAIN Metric!Rows(f)}
           IN  /\ q \in Seq(RowType) /\ RowsApart(q)
               /\ \A c \in Metric!Counters :
                     Metric!Carried(q, c) = IF c \in drained THEN pair[d][c].interval ELSE 0
<1> DEFINE r == Metric!Rows(f)
           drained == UNION {r[i] : i \in DOMAIN r}
<1>1. /\ r \in Seq(SUBSET Metric!Counters) /\ \A i, j \in 1..Len(r) : i # j => r[i] \cap r[j] = {}
  BY RowsShape
<1>2. pair \in [Devices -> [Metric!Counters -> PairType]]  BY DEF MetricTypes
<1> HIDE DEF r
<1>3. Len(r) \in Nat /\ DOMAIN r = 1..Len(r) /\ \A i \in 1..Len(r) : r[i] \in SUBSET Metric!Counters
  BY <1>1, LenProperties, ElementOfSeq
<1>4. q = [i \in 1..Len(r) |-> [name |-> f, row |-> i, values |-> Metric!Values(d, r[i])]]  BY <1>3 DEF r
<1>5. ASSUME NEW i \in 1..Len(r)
      PROVE  /\ q[i] \in RowType /\ DOMAIN q[i].values = r[i]
             /\ \A c \in r[i] : q[i].values[c] = pair[d][c].interval
  <2> DEFINE v == Metric!Values(d, r[i])
  <2>1. v = [c \in r[i] |-> pair[d][c].interval]  BY DEF Metric!Values
  <2>2. \A c \in r[i] : pair[d][c].interval \in Nat  BY <1>2, <1>3 DEF PairType
  <2> HIDE DEF v
  <2>3. v \in [r[i] -> Nat] /\ DOMAIN v = r[i]  BY <2>1, <2>2
  <2> DEFINE U == UNION {[S -> Nat] : S \in SUBSET Metric!Counters}
  <2>4. v \in U /\ RowType = [name : Metric!Families, row : Nat, values : U]  BY <1>3, <2>3 DEF RowType
  <2> HIDE DEF U
  <2>5. q[i] = [name |-> f, row |-> i, values |-> v]  BY <1>4 DEF v
  <2>6. i \in Nat  BY <1>3
  <2>7. q[i] \in RowType  BY <2>4, <2>5, <2>6
  <2>8. QED  BY <2>1, <2>3, <2>5, <2>7
<1>6. q \in [1..Len(r) -> RowType]  BY <1>4, <1>5
<1>7. q \in Seq(RowType) /\ Len(q) = Len(r)  BY <1>3, <1>6, SeqDef, LenProperties
<1>8. RowsApart(q)
  <2>1. ASSUME NEW i \in 1..Len(q), NEW j \in 1..Len(q), i # j
        PROVE  DOMAIN q[i].values \cap DOMAIN q[j].values = {}
    <3>1. i \in 1..Len(r) /\ j \in 1..Len(r)  BY <1>7
    <3>2. DOMAIN q[i].values = r[i] /\ DOMAIN q[j].values = r[j]  BY <1>5, <3>1
    <3>3. QED  BY <1>1, <2>1, <3>1, <3>2
  <2>2. QED  BY <2>1 DEF RowsApart
<1>9. ASSUME NEW c \in Metric!Counters
      PROVE  Metric!Carried(q, c) = IF c \in drained THEN pair[d][c].interval ELSE 0
  <2>1. CASE c \in drained
    <3>1. PICK i \in 1..Len(r) : c \in r[i]  BY <1>3, <2>1
    <3>2. c \in DOMAIN q[i].values /\ q[i].values[c] = pair[d][c].interval /\ i \in 1..Len(q)  BY <1>5, <1>7, <3>1
    <3> HIDE DEF drained
    <3>3. Metric!Carried(q, c) = q[i].values[c]  BY <1>7, <1>8, <3>2, CarriedIs
    <3>4. QED  BY <2>1, <3>2, <3>3
  <2>2. CASE c \notin drained
    <3>1. \A i \in 1..Len(r) : c \notin r[i]  BY <1>3, <2>2
    <3>2. \A i \in 1..Len(q) : c \notin DOMAIN q[i].values  BY <1>5, <1>7, <3>1
    <3> HIDE DEF drained
    <3>3. Metric!Carried(q, c) = 0  BY <1>7, <1>8, <3>2, CarriedIs
    <3>4. QED  BY <2>2, <3>3
  <2>3. QED  BY <2>1, <2>2
<1>10. QED  BY <1>7, <1>8, <1>9 DEF r

\* The intervals of what was drained are back at zero, the totals as they were.
LEMMA DrainedPairs ==
    ASSUME MetricTypes, NEW d \in Devices, NEW S,
           pair' = [pair EXCEPT ![d] = [c \in Metric!Counters |-> IF c \in S THEN Metric!Reset(@[c]) ELSE @[c]]]
    PROVE  /\ pair' \in [Devices -> [Metric!Counters -> PairType]]
           /\ \A e \in Devices \ {d} : pair'[e] = pair[e]
           /\ \A c \in Metric!Counters :
                 /\ pair'[d][c].total = pair[d][c].total
                 /\ pair'[d][c].interval = IF c \in S THEN 0 ELSE pair[d][c].interval
<1>1. pair \in [Devices -> [Metric!Counters -> PairType]]  BY DEF MetricTypes
<1> DEFINE f == [c \in Metric!Counters |-> IF c \in S THEN Metric!Reset(pair[d][c]) ELSE pair[d][c]]
<1>2. pair' = [pair EXCEPT ![d] = f]  BY <1>1
<1>3. ASSUME NEW c \in Metric!Counters
      PROVE  /\ f[c] \in PairType /\ f[c].total = pair[d][c].total
             /\ f[c].interval = IF c \in S THEN 0 ELSE pair[d][c].interval
  <2>1. pair[d][c] \in PairType  BY <1>1
  <2>2. CASE c \in S
    <3>1. f[c] = [pair[d][c] EXCEPT !.interval = 0]  BY <2>2 DEF Metric!Reset
    <3> HIDE DEF f
    <3>2. QED  BY <2>1, <2>2, <3>1 DEF PairType
  <2>3. CASE c \notin S  BY <2>1, <2>3
  <2>4. QED  BY <2>2, <2>3
<1>4. f \in [Metric!Counters -> PairType]  BY <1>3
<1> HIDE DEF f
<1>5. QED  BY <1>1, <1>2, <1>3, <1>4

\* A family is drained.
LEMMA DrainStep ==
    ASSUME MetricInv, NEW d \in Devices, Metric!Drain(d)
    PROVE  MetricInv'
<1>1. MetricTypes /\ MetricDevice(d) /\ \A e \in Devices : MetricDevice(e)  BY DEF MetricInv
<1>2. /\ conn[d] \in ClockType /\ conn \in [Devices -> ClockType] /\ plan \in [Devices -> Seq(Metric!Families)]
      /\ ClockIs(conn[d], link[d]) /\ now \in Nat
  BY DeviceRecords
<1>3. /\ out \in [Devices -> Seq(RowType)] /\ ms \in [Devices -> [emitted : Nat, true : Nat]]
      /\ sent \in [Devices -> [Metric!Counters -> Nat]] /\ unsent \in [Devices -> [Metric!Counters -> Nat]]
      /\ pair \in [Devices -> [Metric!Counters -> PairType]]
  BY <1>1 DEF MetricTypes
<1> DEFINE f == Head(plan[d])
           drained == UNION {Metric!Rows(f)[i] : i \in DOMAIN Metric!Rows(f)}
           q == [i \in DOMAIN Metric!Rows(f) |->
                   [name |-> f, row |-> i, values |-> Metric!Values(d, Metric!Rows(f)[i])]]
           z == [Metric!Accrued(conn[d]) EXCEPT !.ms = 0]
<1>4. /\ plan[d] # <<>> /\ out[d] = <<>> /\ plan' = [plan EXCEPT ![d] = Tail(@)] /\ out' = [out EXCEPT ![d] = q]
      /\ pair' = [pair EXCEPT ![d] = [c \in Metric!Counters |-> IF c \in drained THEN Metric!Reset(@[c]) ELSE @[c]]]
      /\ UNCHANGED <<io, link, now, sent, unsent, truth>>
  BY DEF Metric!Drain
<1>5. \/ /\ conn' = [conn EXCEPT ![d] = [Metric!Accrued(@) EXCEPT !.ms = 0]]
         /\ ms' = [ms EXCEPT ![d].emitted = @ + Metric!Accrued(conn[d]).ms]
      \/ UNCHANGED <<conn, ms>>
  BY DEF Metric!Drain
<1>6. plan[d] \in Seq(Metric!Families)  BY <1>2
<1>7. f \in Metric!Families /\ Tail(plan[d]) \in Seq(Metric!Families)  BY <1>4, <1>6, HeadTailProperties
<1>8. plan' \in [Devices -> Seq(Metric!Families)]
  <2>1. plan' = [plan EXCEPT ![d] = Tail(plan[d])]  BY <1>2, <1>4
  <2>2. QED  BY <1>2, <1>7, <2>1, OneUpdated
<1>9. /\ q \in Seq(RowType) /\ RowsApart(q)
      /\ \A c \in Metric!Counters : Metric!Carried(q, c) = IF c \in drained THEN pair[d][c].interval ELSE 0
  <2> HIDE DEF f
  <2>1. QED  BY <1>1, <1>7, DrainedRows
<1> HIDE DEF f, drained, q
<1>10. /\ pair' \in [Devices -> [Metric!Counters -> PairType]]
       /\ \A e \in Devices \ {d} : pair'[e] = pair[e]
       /\ \A c \in Metric!Counters :
             /\ pair'[d][c].total = pair[d][c].total
             /\ pair'[d][c].interval = IF c \in drained THEN 0 ELSE pair[d][c].interval
  BY <1>1, <1>4, DrainedPairs
<1>11. out' \in [Devices -> Seq(RowType)] /\ out'[d] = q /\ \A e \in Devices \ {d} : out'[e] = out[e]
  BY <1>3, <1>4, <1>9, OneUpdated
<1>12. /\ z \in ClockType /\ Metric!Accrued(z).ms = 0 /\ ClockIs(z, link[d]) /\ Metric!Accrued(conn[d]).ms \in Nat
  BY <1>2, ClockDrained
<1>13. /\ conn' \in [Devices -> ClockType] /\ ms' \in [Devices -> [emitted : Nat, true : Nat]]
       /\ \A e \in Devices \ {d} : conn'[e] = conn[e] /\ ms'[e] = ms[e]
       /\ ClockIs(conn'[d], link[d])
       /\ ms'[d].emitted + Metric!Accrued(conn'[d]).ms = ms[d].true /\ ms'[d].true = ms[d].true
  <2>0. ms[d].emitted + Metric!Accrued(conn[d]).ms = ms[d].true  BY <1>1 DEF MetricDevice, TimeAddsUp
  <2>1. CASE /\ conn' = [conn EXCEPT ![d] = [Metric!Accrued(@) EXCEPT !.ms = 0]]
             /\ ms' = [ms EXCEPT ![d].emitted = @ + Metric!Accrued(conn[d]).ms]
    <3> DEFINE n == ms[d].emitted + Metric!Accrued(conn[d]).ms
               m == [ms[d] EXCEPT !.emitted = n]
    <3>1. conn' = [conn EXCEPT ![d] = z]  BY <1>2, <2>1
    <3>2. ms' = [ms EXCEPT ![d] = m]  BY <1>3, <2>1
    <3>3. ms[d] \in [emitted : Nat, true : Nat]  BY <1>3
    <3>4. n \in Nat /\ n = ms[d].true  BY <1>12, <2>0, <3>3
    <3> HIDE DEF n, z
    <3>5. m \in [emitted : Nat, true : Nat] /\ m.emitted = n /\ m.true = ms[d].true  BY <3>3, <3>4
    <3> HIDE DEF m
    <3>6. conn' \in [Devices -> ClockType] /\ conn'[d] = z /\ \A e \in Devices \ {d} : conn'[e] = conn[e]
      BY <1>2, <1>12, <3>1, OneUpdated
    <3>7. /\ ms' \in [Devices -> [emitted : Nat, true : Nat]] /\ ms'[d] = m
          /\ \A e \in Devices \ {d} : ms'[e] = ms[e]
      BY <1>3, <3>2, <3>5, OneUpdated
    <3>8. ms'[d].emitted + Metric!Accrued(conn'[d]).ms = ms[d].true
      BY <1>12, <3>4, <3>5, <3>6, <3>7
    <3>9. QED  BY <1>12, <3>5, <3>6, <3>7, <3>8
  <2>2. CASE UNCHANGED <<conn, ms>>
    BY <1>2, <1>3, <2>0, <2>2
  <2>3. QED  BY <1>5, <2>1, <2>2
<1>14. MetricTypes'  BY <1>1, <1>4, <1>8, <1>10, <1>11, <1>13 DEF MetricTypes
<1>15. ASSUME NEW e \in Devices, e # d PROVE MetricDevice(e)'
  <2>1. /\ conn'[e] = conn[e] /\ ms'[e] = ms[e] /\ out'[e] = out[e] /\ pair'[e] = pair[e] /\ MetricDevice(e)
        /\ now' = now /\ io'[e] = io[e] /\ link'[e] = link[e] /\ sent'[e] = sent[e] /\ unsent'[e] = unsent[e] /\ truth'[e] = truth[e]
    BY <1>1, <1>4, <1>10, <1>11, <1>13, <1>15
  <2>2. QED  BY <2>1, Untouched
<1>16. MetricDevice(d)'
  <2>1. ClockIs(conn[d], link[d])'  BY <1>4, <1>13 DEF ClockIs
  <2>2. LinkIs(d, link[d], io[d], truth[d])'  BY <1>1, <1>4 DEF MetricDevice, LinkIs
  <2>3. TimeAddsUp(d)'
    <3> DEFINE k == conn'[d]
    <3>1. conn'[d] = k /\ now' = now  BY <1>4
    <3>2. Metric!Accrued(conn[d])' = Metric!Accrued(k)  BY <3>1, AccruedLater
    <3>3. QED  BY <1>13, <3>2 DEF TimeAddsUp
  <2>4. TotalsAre(d)'
    <3>1. "gaps" \in Metric!Counters /\ "produced" \in Metric!Counters  BY DEF Metric!Counters, Metric!Io
    <3>2. QED  BY <1>1, <1>4, <1>10, <3>1 DEF MetricDevice, TotalsAre
  <2>5. RowsApart(out[d])'  BY <1>9, <1>11 DEF RowsApart
  <2>6. SumsAre(d)'
    <3>1. \A c : Metric!Carried(out[d], c)' = Metric!Carried(q, c)  BY SMT, <1>11 DEF Metric!Carried
    <3>2. ASSUME NEW c \in Metric!Counters
          PROVE  (sent[d][c] + unsent[d][c]) + Metric!Carried(q, c) + pair'[d][c].interval = pair'[d][c].total
      <4>1. (sent[d][c] + unsent[d][c]) + Metric!Carried(out[d], c) + pair[d][c].interval = pair[d][c].total
        BY <1>1 DEF MetricDevice, SumsAre
      <4>2. Metric!Carried(<<>>, c) = 0  BY DEF Metric!Carried
      <4>3. Metric!Carried(out[d], c) = 0  BY <1>4, <4>2
      <4>4. sent[d][c] + unsent[d][c] \in Nat /\ pair[d][c].interval \in Nat /\ pair[d][c].total \in Nat  BY <1>3 DEF PairType
      <4>5. /\ (sent[d][c] + unsent[d][c]) + pair[d][c].interval + 0 = pair[d][c].total
            /\ (sent[d][c] + unsent[d][c]) + 0 + pair[d][c].interval = pair[d][c].total
        <5> DEFINE h == sent[d][c] + unsent[d][c]
                   a == pair[d][c].interval
                   t == pair[d][c].total
        <5>1. h \in Nat /\ a \in Nat /\ t \in Nat /\ h + 0 + a = t  BY <4>1, <4>3, <4>4
        <5> HIDE DEF h, a, t
        <5>2. h + a + 0 = t /\ h + 0 + a = t  BY <5>1, MetricSums
        <5>3. QED  BY <5>2 DEF h, a, t
      <4>6. CASE c \in drained
        <5>1. Metric!Carried(q, c) = pair[d][c].interval /\ pair'[d][c].interval = 0  BY <1>9, <1>10, <4>6
        <5>2. QED  BY <1>10, <4>5, <5>1
      <4>7. CASE c \notin drained
        <5>1. Metric!Carried(q, c) = 0 /\ pair'[d][c].interval = pair[d][c].interval  BY <1>9, <1>10, <4>7
        <5>2. QED  BY <1>10, <4>5, <5>1
      <4>8. QED  BY <4>6, <4>7
    <3>3. QED  BY <1>4, <3>1, <3>2 DEF SumsAre
  <2>7. QED  BY <2>1, <2>2, <2>3, <2>4, <2>5, <2>6 DEF MetricDevice
<1>17. QED  BY <1>14, <1>15, <1>16 DEF MetricInv

\* What a history has after a row (Gathered).
LEMMA GatheredIs ==
    ASSUME NEW h \in [Devices -> [Metric!Counters -> Nat]], NEW d \in Devices, NEW o \in RowType
    PROVE  LET g == Metric!Gathered(h, d, o)
           IN  /\ g \in [Devices -> [Metric!Counters -> Nat]] /\ \A e \in Devices \ {d} : g[e] = h[e]
               /\ \A c \in Metric!Counters : g[d][c] = h[d][c] + Amount(o.values, c)
<1> DEFINE f == [c \in Metric!Counters |-> h[d][c] + IF c \in DOMAIN o.values THEN o.values[c] ELSE 0]
           g == Metric!Gathered(h, d, o)
<1>1. g = [h EXCEPT ![d] = f]  BY DEF Metric!Gathered
<1>2. ASSUME NEW c \in Metric!Counters PROVE f[c] = h[d][c] + Amount(o.values, c) /\ f[c] \in Nat
  <2>1. Amount(o.values, c) \in Nat  BY RowNumbers DEF Amount
  <2>2. f[c] = h[d][c] + Amount(o.values, c)  BY DEF Amount
  <2> HIDE DEF f
  <2>3. QED  BY <2>1, <2>2
<1>3. f \in [Metric!Counters -> Nat]  BY <1>2
<1> HIDE DEF f, g
<1>4. g \in [Devices -> [Metric!Counters -> Nat]] /\ g[d] = f /\ \A e \in Devices \ {d} : g[e] = h[e]
  BY <1>1, <1>3
<1>5. QED  BY <1>2, <1>4 DEF g

\* A row is defined, and then emitted (emit_combo): the service takes it or not.
LEMMA EmitSteps ==
    ASSUME MetricInv, NEW d \in Devices, Metric!define(d) \/ Metric!emit(d)
    PROVE  MetricInv'
<1>1. MetricTypes /\ MetricDevice(d) /\ \A e \in Devices : MetricDevice(e)  BY DEF MetricInv
<1>2. CASE Metric!define(d)
  <2>1. UNCHANGED <<pair, conn, io, link, plan, out, now, sent, unsent, ms, truth>>  BY <1>2 DEF Metric!define
  <2>2. \A e \in Devices : MetricDevice(e)'
    <3> SUFFICES ASSUME NEW e \in Devices PROVE MetricDevice(e)'  OBVIOUS
    <3>1. /\ conn'[e] = conn[e] /\ ms'[e] = ms[e] /\ out'[e] = out[e] /\ pair'[e] = pair[e] /\ MetricDevice(e)
          /\ now' = now /\ io'[e] = io[e] /\ link'[e] = link[e] /\ sent'[e] = sent[e] /\ unsent'[e] = unsent[e] /\ truth'[e] = truth[e]
      BY <1>1, <2>1
    <3>2. QED  BY <3>1, Untouched
  <2>3. QED  BY <1>1, <2>1, <2>2 DEF MetricInv, MetricTypes
<1>3. CASE Metric!emit(d)
  <2> DEFINE o == Head(out[d])
             q == Tail(out[d])
  <2>1. /\ out \in [Devices -> Seq(RowType)] /\ sent \in [Devices -> [Metric!Counters -> Nat]]
        /\ unsent \in [Devices -> [Metric!Counters -> Nat]] /\ pair \in [Devices -> [Metric!Counters -> PairType]]
    BY <1>1 DEF MetricTypes
  <2>2. /\ out[d] # <<>> /\ out' = [out EXCEPT ![d] = q]
        /\ UNCHANGED <<pair, conn, io, link, plan, now, ms, truth>>
        /\ \/ sent' = Metric!Gathered(sent, d, o) /\ unsent' = unsent
           \/ unsent' = Metric!Gathered(unsent, d, o) /\ sent' = sent
    BY <1>3 DEF Metric!emit
  <2>3. out[d] \in Seq(RowType)  BY <2>1
  <2>4. /\ q \in Seq(RowType) /\ Len(q) = Len(out[d]) - 1 /\ Len(out[d]) \in Nat \ {0}
        /\ \A i \in 1..Len(q) : q[i] = out[d][i + 1] /\ i + 1 \in 1..Len(out[d])
        /\ out[d][1] = o
    BY <2>2, <2>3, TailIn
  <2>5. o \in RowType  BY <2>2, <2>3, HeadTailProperties
  <2> HIDE DEF o, q
  <2>6. RowsApart(out[d])  BY <1>1 DEF MetricDevice
  <2>7. RowsApart(q)
    <3>1. ASSUME NEW i \in 1..Len(q), NEW j \in 1..Len(q), i # j
          PROVE  DOMAIN q[i].values \cap DOMAIN q[j].values = {}
      <4>1. i + 1 \in 1..Len(out[d]) /\ j + 1 \in 1..Len(out[d]) /\ i + 1 # j + 1  BY <2>4, <3>1
      <4>2. q[i] = out[d][i + 1] /\ q[j] = out[d][j + 1]  BY <2>4
      <4>3. QED  BY <2>6, <4>1, <4>2 DEF RowsApart
    <3>2. QED  BY <3>1 DEF RowsApart
  <2>8. ASSUME NEW c \in Metric!Counters
        PROVE  /\ Amount(o.values, c) \in Nat /\ Amount(o.values, c) + Metric!Carried(q, c) = Metric!Carried(out[d], c)
               /\ Metric!Carried(q, c) \in Nat /\ Metric!Carried(out[d], c) \in Nat
    <3>1. Amount(o.values, c) \in Nat  BY <2>5, RowNumbers DEF Amount
    <3>2. Metric!Carried(q, c) \in Nat /\ Metric!Carried(out[d], c) \in Nat  BY <2>3, <2>4, <2>6, <2>7, CarriedIs
    <3>3. 1 \in 1..Len(out[d])  BY <2>4
    <3>4. CASE c \in DOMAIN o.values
      <4>1. Metric!Carried(out[d], c) = o.values[c]  BY <2>3, <2>4, <2>6, <3>3, <3>4, CarriedIs
      <4>2. \A i \in 1..Len(q) : c \notin DOMAIN q[i].values
        <5> SUFFICES ASSUME NEW i \in 1..Len(q) PROVE c \notin DOMAIN q[i].values  OBVIOUS
        <5>1. q[i] = out[d][i + 1] /\ i + 1 \in 1..Len(out[d]) /\ i + 1 # 1  BY <2>4
        <5>2. DOMAIN out[d][1].values \cap DOMAIN out[d][i + 1].values = {}  BY <2>6, <3>3, <5>1 DEF RowsApart
        <5>3. QED  BY <2>4, <3>4, <5>1, <5>2
      <4>3. Metric!Carried(q, c) = 0  BY <2>4, <2>7, <4>2, CarriedIs
      <4>4. Amount(o.values, c) = o.values[c]  BY <3>4 DEF Amount
      <4>5. QED  BY <3>1, <3>2, <4>1, <4>3, <4>4
    <3>5. CASE c \notin DOMAIN o.values
      <4>1. Amount(o.values, c) = 0  BY <3>5 DEF Amount
      <4>2. Metric!Carried(q, c) = Metric!Carried(out[d], c)
        <5>1. CASE \E i \in 1..Len(q) : c \in DOMAIN q[i].values
          <6>1. PICK i \in 1..Len(q) : c \in DOMAIN q[i].values  BY <5>1
          <6>2. q[i] = out[d][i + 1] /\ i + 1 \in 1..Len(out[d])  BY <2>4
          <6>3. Metric!Carried(q, c) = q[i].values[c]  BY <2>4, <2>7, <6>1, CarriedIs
          <6>4. Metric!Carried(out[d], c) = out[d][i + 1].values[c]  BY <2>3, <2>6, <6>1, <6>2, CarriedIs
          <6>5. QED  BY <6>2, <6>3, <6>4
        <5>2. CASE ~\E i \in 1..Len(q) : c \in DOMAIN q[i].values
          <6>1. \A i \in 1..Len(out[d]) : c \notin DOMAIN out[d][i].values
            <7> SUFFICES ASSUME NEW i \in 1..Len(out[d]) PROVE c \notin DOMAIN out[d][i].values  OBVIOUS
            <7>1. CASE i = 1  BY <2>4, <3>5, <7>1
            <7>2. CASE i # 1
              <8>1. i - 1 \in 1..Len(q) /\ (i - 1) + 1 = i  BY <2>4, <7>2
              <8>2. q[i - 1] = out[d][i]  BY <2>4, <8>1
              <8>3. QED  BY <5>2, <8>1, <8>2
            <7>3. QED  BY <7>1, <7>2
          <6>2. Metric!Carried(out[d], c) = 0  BY <2>3, <2>6, <6>1, CarriedIs
          <6>3. Metric!Carried(q, c) = 0  BY <2>4, <2>7, <5>2, CarriedIs
          <6>4. QED  BY <6>2, <6>3
        <5>3. QED  BY <5>1, <5>2
      <4>3. QED  BY <3>1, <3>2, <4>1, <4>2
    <3>6. QED  BY <3>1, <3>2, <3>4, <3>5
  <2>10. out' \in [Devices -> Seq(RowType)] /\ out'[d] = q /\ \A e \in Devices \ {d} : out'[e] = out[e]
    BY <2>1, <2>2, <2>4, OneUpdated
  <2>11. /\ sent' \in [Devices -> [Metric!Counters -> Nat]] /\ unsent' \in [Devices -> [Metric!Counters -> Nat]]
         /\ \A e \in Devices \ {d} : sent'[e] = sent[e] /\ unsent'[e] = unsent[e]
         /\ \A c \in Metric!Counters :
               sent'[d][c] + unsent'[d][c] = (sent[d][c] + unsent[d][c]) + Amount(o.values, c)
    <3>1. CASE sent' = Metric!Gathered(sent, d, o) /\ unsent' = unsent
      <4>1. /\ sent' \in [Devices -> [Metric!Counters -> Nat]] /\ \A e \in Devices \ {d} : sent'[e] = sent[e]
            /\ \A c \in Metric!Counters : sent'[d][c] = sent[d][c] + Amount(o.values, c)
        <5>1. sent \in [Devices -> [Metric!Counters -> Nat]] /\ o \in RowType  BY <2>1, <2>5
        <5>2. LET g == Metric!Gathered(sent, d, o)
              IN  /\ g \in [Devices -> [Metric!Counters -> Nat]] /\ \A e \in Devices \ {d} : g[e] = sent[e]
                  /\ \A c \in Metric!Counters : g[d][c] = sent[d][c] + Amount(o.values, c)
          BY ONLY <5>1, d \in Devices, GatheredIs
        <5>3. QED  BY ONLY <3>1, <5>2
      <4>2. ASSUME NEW c \in Metric!Counters
            PROVE  sent'[d][c] + unsent'[d][c] = (sent[d][c] + unsent[d][c]) + Amount(o.values, c)
        <5>1. sent[d][c] \in Nat /\ unsent[d][c] \in Nat /\ Amount(o.values, c) \in Nat  BY <2>1, <2>8
        <5>2. sent'[d][c] = sent[d][c] + Amount(o.values, c) /\ unsent'[d][c] = unsent[d][c]  BY <3>1, <4>1
        <5>3. QED  BY <5>1, <5>2
      <4>3. QED  BY <2>1, <3>1, <4>1, <4>2
    <3>2. CASE unsent' = Metric!Gathered(unsent, d, o) /\ sent' = sent
      <4>1. /\ unsent' \in [Devices -> [Metric!Counters -> Nat]] /\ \A e \in Devices \ {d} : unsent'[e] = unsent[e]
            /\ \A c \in Metric!Counters : unsent'[d][c] = unsent[d][c] + Amount(o.values, c)
        <5>1. unsent \in [Devices -> [Metric!Counters -> Nat]] /\ o \in RowType  BY <2>1, <2>5
        <5>2. LET g == Metric!Gathered(unsent, d, o)
              IN  /\ g \in [Devices -> [Metric!Counters -> Nat]] /\ \A e \in Devices \ {d} : g[e] = unsent[e]
                  /\ \A c \in Metric!Counters : g[d][c] = unsent[d][c] + Amount(o.values, c)
          BY ONLY <5>1, d \in Devices, GatheredIs
        <5>3. QED  BY ONLY <3>2, <5>2
      <4>2. ASSUME NEW c \in Metric!Counters
            PROVE  sent'[d][c] + unsent'[d][c] = (sent[d][c] + unsent[d][c]) + Amount(o.values, c)
        <5>1. sent[d][c] \in Nat /\ unsent[d][c] \in Nat /\ Amount(o.values, c) \in Nat  BY <2>1, <2>8
        <5>2. unsent'[d][c] = unsent[d][c] + Amount(o.values, c) /\ sent'[d][c] = sent[d][c]  BY <3>2, <4>1
        <5>3. QED  BY <5>1, <5>2
      <4>3. QED  BY <2>1, <3>2, <4>1, <4>2
    <3>3. QED  BY <2>2, <3>1, <3>2
  <2>12. MetricTypes'  BY <1>1, <2>2, <2>10, <2>11 DEF MetricTypes
  <2>13. ASSUME NEW e \in Devices, e # d PROVE MetricDevice(e)'
    <3>1. /\ conn'[e] = conn[e] /\ ms'[e] = ms[e] /\ out'[e] = out[e] /\ pair'[e] = pair[e] /\ MetricDevice(e)
          /\ now' = now /\ io'[e] = io[e] /\ link'[e] = link[e] /\ sent'[e] = sent[e] /\ unsent'[e] = unsent[e] /\ truth'[e] = truth[e]
      BY <1>1, <2>2, <2>10, <2>11, <2>13
    <3>2. QED  BY <3>1, Untouched
  <2>14. MetricDevice(d)'
    <3>1. ClockIs(conn[d], link[d])' /\ LinkIs(d, link[d], io[d], truth[d])' /\ TotalsAre(d)'
      BY <1>1, <2>2 DEF MetricDevice, ClockIs, LinkIs, TotalsAre
    <3>2. TimeAddsUp(d)'
      <4>1. conn'[d] = conn[d] /\ now' = now  BY <2>2
      <4>2. Metric!Accrued(conn[d])' = Metric!Accrued(conn[d])  BY <4>1, AccruedLater
      <4>3. QED  BY <1>1, <2>2, <4>2 DEF MetricDevice, TimeAddsUp
    <3>3. RowsApart(out[d])'  BY <2>7, <2>10 DEF RowsApart
    <3>4. SumsAre(d)'
      <4>1. \A c : Metric!Carried(out[d], c)' = Metric!Carried(q, c)  BY SMT, <2>10 DEF Metric!Carried
      <4>2. ASSUME NEW c \in Metric!Counters
            PROVE  (sent'[d][c] + unsent'[d][c]) + Metric!Carried(q, c) + pair[d][c].interval = pair[d][c].total
        <5>1. (sent[d][c] + unsent[d][c]) + Metric!Carried(out[d], c) + pair[d][c].interval = pair[d][c].total
          BY <1>1 DEF MetricDevice, SumsAre
        <5> DEFINE h == sent[d][c] + unsent[d][c]
                   v == Amount(o.values, c)
                   w == Metric!Carried(q, c)
                   u == Metric!Carried(out[d], c)
                   a == pair[d][c].interval
                   t == pair[d][c].total
        <5>2. h \in Nat /\ a \in Nat /\ t \in Nat  BY <2>1 DEF PairType
        <5>3. v \in Nat /\ w \in Nat /\ u \in Nat /\ v + w = u  BY <2>8
        <5>4. sent'[d][c] + unsent'[d][c] = h + v  BY <2>11
        <5>5. h + u + a = t  BY <5>1
        <5> HIDE DEF h, v, w, u, a, t
        <5>6. (h + v) + w + a = t  BY <5>2, <5>3, <5>5
        <5>7. QED  BY <5>4, <5>6 DEF w, a, t
      <4>3. QED  BY <2>2, <2>11, <4>1, <4>2 DEF SumsAre
    <3>5. QED  BY <3>1, <3>2, <3>3, <3>4 DEF MetricDevice
  <2>15. QED  BY <2>12, <2>13, <2>14 DEF MetricInv
<1>4. QED  BY <1>2, <1>3

\* The clock: a second more for every connection that is up.
LEMMA TickStep ==
    ASSUME MetricInv, Metric!Tick
    PROVE  MetricInv'
<1>1. MetricTypes /\ \A e \in Devices : MetricDevice(e)  BY DEF MetricInv
<1>2. /\ now \in Nat /\ ms \in [Devices -> [emitted : Nat, true : Nat]] /\ conn \in [Devices -> ClockType]
  BY <1>1 DEF MetricTypes
<1>3. /\ now' = now + 1 /\ UNCHANGED <<pair, conn, io, link, plan, out, sent, unsent, truth>>
      /\ ms' = [d \in Devices |-> [ms[d] EXCEPT !.true = @ + IF conn[d].up THEN 1 ELSE 0]]
  BY DEF Metric!Tick, Metric!NoEmission, Metric!Emission
<1>4. ASSUME NEW d \in Devices
      PROVE  /\ ms'[d] \in [emitted : Nat, true : Nat] /\ ms'[d].emitted = ms[d].emitted
             /\ ms'[d].true = ms[d].true + IF conn[d].up THEN 1 ELSE 0
  <2> DEFINE n == ms[d].true + IF conn[d].up THEN 1 ELSE 0
  <2>1. ms[d] \in [emitted : Nat, true : Nat]  BY <1>2
  <2>2. n \in Nat  BY <2>1
  <2>3. ms'[d] = [ms[d] EXCEPT !.true = n]  BY <1>3
  <2>4. n = ms[d].true + IF conn[d].up THEN 1 ELSE 0  OBVIOUS
  <2> HIDE DEF n
  <2>5. QED  BY <2>1, <2>2, <2>3, <2>4
<1>5. ms' \in [Devices -> [emitted : Nat, true : Nat]]
  <2>1. DOMAIN ms' = Devices /\ ms' = [d \in Devices |-> ms'[d]]  BY <1>3
  <2>2. QED  BY <1>4, <2>1
<1>6. MetricTypes'  BY <1>1, <1>2, <1>3, <1>5 DEF MetricTypes
<1>7. ASSUME NEW d \in Devices PROVE MetricDevice(d)'
  <2>1. MetricDevice(d) /\ conn[d] \in ClockType  BY <1>1, <1>2
  <2>2. ClockIs(conn[d], link[d]) /\ TimeAddsUp(d)  BY <2>1 DEF MetricDevice
  <2>3. ClockIs(conn[d], link[d])'
    <3>1. conn[d].since # -1 => conn[d].since \in Nat /\ conn[d].since <= now + 1  BY <1>2, <2>1, <2>2 DEF ClockIs, ClockType
    <3>2. QED  BY <1>3, <2>2, <3>1 DEF ClockIs
  <2>4. LinkIs(d, link[d], io[d], truth[d])' /\ TotalsAre(d)' /\ RowsApart(out[d])'
    BY <1>3, <2>1 DEF MetricDevice, LinkIs, TotalsAre, RowsApart
  <2>5. SumsAre(d)'
    <3>1. \A c : Metric!Carried(out[d], c)' = Metric!Carried(out[d], c)  BY SMT, <1>3 DEF Metric!Carried
    <3>2. QED  BY <1>3, <2>1, <3>1 DEF MetricDevice, SumsAre
  <2>6. TimeAddsUp(d)'
    <3>1. conn' = conn  BY <1>3
    <3>2. Metric!Accrued(conn[d])' = IF conn[d].since = -1 THEN conn[d]
                                     ELSE [conn[d] EXCEPT !.ms = @ + (now' - conn[d].since), !.since = now']
      BY Zenon, <3>1 DEF Metric!Accrued, Metric!None
    <3>3. Metric!Accrued(conn[d]) = IF conn[d].since = -1 THEN conn[d]
                                    ELSE [conn[d] EXCEPT !.ms = @ + (now - conn[d].since), !.since = now]
      BY DEF Metric!Accrued, Metric!None
    <3>4. ms[d].emitted + Metric!Accrued(conn[d]).ms = ms[d].true  BY <2>2 DEF TimeAddsUp
    <3>5. ms[d].emitted \in Nat /\ ms[d].true \in Nat  BY <1>2
    <3>6. CASE conn[d].since = -1
      <4>1. ~conn[d].up  BY <2>2, <3>6 DEF ClockIs
      <4>2. ms'[d].true = ms[d].true /\ ms'[d].emitted = ms[d].emitted  BY <1>4, <3>5, <4>1
      <4>3. Metric!Accrued(conn[d])' = Metric!Accrued(conn[d])  BY <3>2, <3>3, <3>6
      <4>4. QED  BY <3>4, <4>2, <4>3 DEF TimeAddsUp
    <3>7. CASE conn[d].since # -1
      <4>1. conn[d].up /\ conn[d].since \in Nat /\ conn[d].ms \in Nat  BY <2>1, <2>2, <3>7 DEF ClockIs, ClockType
      <4>2. ms'[d].true = ms[d].true + 1 /\ ms'[d].emitted = ms[d].emitted  BY <1>4, <4>1
      <4>3. Metric!Accrued(conn[d])'.ms = conn[d].ms + (now' - conn[d].since)  BY <2>1, <3>2, <3>7 DEF ClockType
      <4>4. Metric!Accrued(conn[d]).ms = conn[d].ms + (now - conn[d].since)  BY <2>1, <3>3, <3>7 DEF ClockType
      <4>5. ms'[d].emitted + (conn[d].ms + (now' - conn[d].since)) = ms'[d].true
        <5> DEFINE a == ms[d].emitted
                   b == conn[d].ms
                   c == conn[d].since
                   t == ms[d].true
        <5>1. a \in Nat /\ b \in Nat /\ c \in Nat /\ t \in Nat /\ now \in Nat /\ now' = now + 1  BY <1>2, <1>3, <3>5, <4>1
        <5>2. a + (b + (now - c)) = t  BY <3>4, <4>4
        <5>3. ms'[d].emitted = a /\ ms'[d].true = t + 1 /\ conn[d].ms = b /\ conn[d].since = c  BY <4>2
        <5> HIDE DEF a, b, c, t
        <5>4. a + (b + ((now + 1) - c)) = t + 1  BY ONLY <5>1, <5>2
        <5>5. QED  BY ONLY <5>1, <5>3, <5>4
      <4>6. QED  BY <4>3, <4>5 DEF TimeAddsUp
    <3>8. QED  BY <3>6, <3>7
  <2>7. QED  BY <2>3, <2>4, <2>5, <2>6 DEF MetricDevice
<1>8. QED  BY <1>6, <1>7 DEF MetricInv

\* DeviceMetrics::new: everything starts at zero.
LEMMA MetricStart ==
    ASSUME Metric!Init
    PROVE  MetricInv
<1>1. /\ pair = [d \in Devices |-> [c \in Metric!Counters |-> [total |-> 0, interval |-> 0]]]
      /\ conn = [d \in Devices |-> [up |-> FALSE, ever |-> FALSE, since |-> -1, ms |-> 0]]
      /\ io = [d \in Devices |-> [state |-> FALSE, lastSeq |-> -1, produced |-> 0, refused |-> 0]]
      /\ link = [d \in Devices |-> [phase |-> "down", produced |-> 0, refused |-> 0, seq |-> -1]]
      /\ plan = [d \in Devices |-> <<>>] /\ out = [d \in Devices |-> <<>>] /\ now = 0
      /\ sent = [d \in Devices |-> [c \in Metric!Counters |-> 0]]
      /\ unsent = [d \in Devices |-> [c \in Metric!Counters |-> 0]]
      /\ ms = [d \in Devices |-> [emitted |-> 0, true |-> 0]]
      /\ truth = [d \in Devices |-> [missed |-> 0, closed |-> 0, reports |-> 0, unreported |-> FALSE]]
  BY DEF Metric!Init, Metric!None, Metric!NoLink
<1>2. MetricTypes
  <2>1. -1 \in SeqNumbers  BY DEF SeqNumbers
  <2>2. pair \in [Devices -> [Metric!Counters -> PairType]]  BY <1>1 DEF PairType
  <2>3. conn \in [Devices -> ClockType]  BY <1>1 DEF ClockType
  <2>4. io \in [Devices -> IoType] /\ link \in [Devices -> LinkType]  BY <1>1, <2>1 DEF IoType, LinkType
  <2>5. truth \in [Devices -> TruthType] /\ ms \in [Devices -> [emitted : Nat, true : Nat]]  BY <1>1 DEF TruthType
  <2>6. plan \in [Devices -> Seq(Metric!Families)] /\ out \in [Devices -> Seq(RowType)]  BY <1>1
  <2>7. /\ sent \in [Devices -> [Metric!Counters -> Nat]] /\ unsent \in [Devices -> [Metric!Counters -> Nat]]
        /\ now \in Nat
    BY <1>1
  <2>8. QED  BY <2>2, <2>3, <2>4, <2>5, <2>6, <2>7 DEF MetricTypes
<1>3. ASSUME NEW d \in Devices PROVE MetricDevice(d)
  <2>1. ClockIs(conn[d], link[d])  BY <1>1 DEF ClockIs
  <2>2. LinkIs(d, link[d], io[d], truth[d])  BY <1>1 DEF LinkIs
  <2>3. TotalsAre(d)
    <3>1. "gaps" \in Metric!Counters /\ "produced" \in Metric!Counters  BY DEF Metric!Counters, Metric!Io
    <3>2. QED  BY <1>1, <3>1 DEF TotalsAre
  <2>4. out[d] = <<>> /\ Len(out[d]) = 0 /\ DOMAIN out[d] = {}  BY <1>1
  <2>5. RowsApart(out[d])  BY <2>4 DEF RowsApart
  <2>6. SumsAre(d)
    <3>1. \A c : Metric!Carried(out[d], c) = 0  BY <2>4 DEF Metric!Carried
    <3>2. QED  BY <1>1, <3>1 DEF SumsAre
  <2>7. TimeAddsUp(d)  BY <1>1 DEF TimeAddsUp, Metric!Accrued, Metric!None
  <2>8. QED  BY <2>1, <2>2, <2>3, <2>5, <2>6, <2>7 DEF MetricDevice
<1>4. QED  BY <1>2, <1>3 DEF MetricInv

\* Every step of the metrics keeps their invariant.
LEMMA MetricStep ==
    ASSUME MetricInv, [Metric!Next]_(Metric!vars)
    PROVE  MetricInv'
<1>1. CASE Metric!Tick  BY <1>1, TickStep
<1>2. ASSUME NEW d \in Devices, Metric!Records(d) PROVE MetricInv'
  BY <1>2, AttemptStep, ConnectOkStep, LinkSteps, FrameStep, PlainSteps, PeriodicStep, EndStep DEF Metric!Records
<1>3. ASSUME NEW d \in Devices, Metric!Drain(d) \/ Metric!define(d) \/ Metric!emit(d) PROVE MetricInv'
  BY <1>3, DrainStep, EmitSteps
<1>4. CASE UNCHANGED Metric!vars
  <2>1. UNCHANGED <<pair, conn, io, link, plan, out, now, sent, unsent, ms, truth>>  BY <1>4 DEF Metric!vars
  <2>2. ASSUME NEW e \in Devices PROVE MetricDevice(e)'
    <3>1. /\ conn'[e] = conn[e] /\ ms'[e] = ms[e] /\ out'[e] = out[e] /\ pair'[e] = pair[e] /\ MetricDevice(e)
          /\ now' = now /\ io'[e] = io[e] /\ link'[e] = link[e] /\ sent'[e] = sent[e] /\ unsent'[e] = unsent[e] /\ truth'[e] = truth[e]
      BY <2>1 DEF MetricInv
    <3>2. QED  BY <3>1, Untouched
  <2>3. QED  BY <2>1, <2>2 DEF MetricInv, MetricTypes
<1>5. QED  BY <1>1, <1>2, <1>3, <1>4 DEF Metric!Next

\* What the invariant is for.
LEMMA MetricsExact ==
    ASSUME MetricInv
    PROVE  Metric!IntervalsAddUp /\ Metric!LinksAccounted
<1>1. \A d \in Devices : MetricDevice(d)  BY DEF MetricInv
<1>2. Metric!IntervalsAddUp
  BY <1>1 DEF MetricDevice, SumsAre, TimeAddsUp, Metric!IntervalsAddUp, Metric!Pending
<1>3. Metric!LinksAccounted
  BY <1>1 DEF MetricDevice, TotalsAre, LinkIs, Metric!LinksAccounted
<1>4. QED  BY <1>2, <1>3

-----------------------------------------------------------------------------
(* The command surface *)

\* The handles of a device, the entries of a batch and what is reported of one.
Handles == Instances \X Gens
Entries == [field : Fields, form : STRING, value : BOOLEAN]
Outcomes == {"ok", "error", "unresolved", "refused", "missing value", "UNRESOLVED_REF", "value", "NO_FRAME", "NO_DATA"}
            \cup BOOLEAN \cup Fields \cup Nat
Verbs == {"none", "sb/status", "sb/signals", "sb/pause", "sb/resume", "reconnect", "repoll", "sb/read", "sb/write",
          "sb/browse any", "sb/browse", "sb/browse ref"}
Codes == {"", "OK", "BAD_ARGS", "NO_SUCH_INSTANCE", "DEVICE_UNAVAILABLE", "WRITE_NOT_ALLOWED", "READ_FAILED",
          "BROWSE_FAILED", "BROWSE_UNSUPPORTED", "RECONNECT_FAILED", "PAUSED"}

CmdType ==
    [pc : {"idle", "run", "wait", "done"}, verb : Verbs, at : Handles \cup {<<>>},
     args : Batches \cup BrowseKeys \cup {<<>>}, max : Nat, i : Nat, results : Seq(Outcomes), code : Codes,
     start : Nat, pages : Nat, tree : Seq(Nat), again : Nat]
Busy == cmd.pc \in {"run", "wait"}

CommandTypes ==
    /\ cmd \in CmdType /\ audit \in Seq(BOOLEAN) /\ reg \in [Instances -> Gens \cup {0}]
    /\ Busy => cmd.at \in Handles /\ (cmd.verb \in {"sb/read", "sb/write"} => cmd.args \in Seq(Entries))

\* A control request is out while the handler waits, it is the handler's own,
\* and a write is the one of the current entry, permitted.
RequestIs ==
    /\ request.op # "none" <=> cmd.pc = "wait"
    /\ cmd.pc = "wait" => /\ request.to = cmd.at
                          /\ cmd.verb = "sb/write" <=> request.op = "Write"
                          /\ cmd.verb = "sb/browse ref" <=> request.op = "BrowseAll"
                          /\ cmd.verb = "sb/read" <=> request.op \in {"ReadNow", "Snapshot"}
    /\ request.op = "Write" =>
          cmd.args # <<>> /\ request.field = cmd.args[cmd.i].field /\ request.field \in Allow[cmd.at[2]]

\* The entries handled so far are audited and reported as they went, and what landed
\* is theirs.
LandedWithin(n) == \A w \in landed : w.entry \in 1..n
Spared(k) == \A w \in landed : w.entry # k
Unwritten(result) == result \in {"refused", "unresolved", "missing value"}
LandsWithin(n) == \A w \in landed' : w.entry \in 1..n
LandsAt(i) == \A w \in landed' : w \in landed \/ w.entry = i
WriteIs ==
    cmd.verb = "sb/write" /\ cmd.at # <<>> =>
        /\ cmd.args \in Seq(Entries)
        /\ Busy => /\ cmd.args # <<>> => cmd.i \in 1..Len(cmd.args)
                   /\ cmd.args = <<>> => cmd.i = 1
                   /\ Len(cmd.results) = cmd.i - 1 /\ Len(audit) = cmd.i - 1
                   /\ \A k \in 1..(cmd.i - 1) : Command!Handled(k)
                   /\ LandedWithin(cmd.i - 1)

\* As long as no cursor led back into a page, the symbols of a walk lie below its
\* cursor, and each was met once.
TreeIs ==
    /\ cmd.again = 0 => Distinct(cmd.tree) /\ \A k \in 1..Len(cmd.tree) : cmd.tree[k] <= cmd.start
    /\ cmd.verb = "sb/browse ref" /\ cmd.again = 0 => Distinct(cmd.results)
    /\ Busy /\ cmd.verb \in {"sb/browse any", "sb/browse ref"} => cmd.results = <<>>

\* As long as one generation served a paged walk, it has the layout up to the
\* cursor, and ends with the layout.
WalkIs ==
    /\ walk.at \in SUBSET Handles /\ walk.got \in Seq(Fields) /\ walk.cursor \in Nat
    /\ walk.at = {} => walk.got = <<>> /\ walk.cursor = 0
    /\ \A t \in Handles : walk.at = {t} =>
          /\ walk.cursor <= Len(Signals[t[2]]) /\ walk.got = SubSeq(Signals[t[2]], 1, walk.cursor)
          /\ ~walk.open => walk.cursor = Len(Signals[t[2]])

CommandInv ==
    /\ CommandTypes /\ RequestIs /\ WriteIs /\ TreeIs /\ WalkIs
    /\ Command!WritesPermitted /\ Command!ReplyTruthful

\* The entries of a command stay what they are while nothing lands and nothing is
\* audited.
LEMMA EntriesSame ==
    ASSUME cmd'.results = cmd.results, cmd'.at = cmd.at, cmd'.args = cmd.args, UNCHANGED <<landed, audit>>
    PROVE  \A k : Command!Handled(k) => Command!Handled(k)'
<1> TAKE k
<1> HAVE Command!Handled(k)
<1>1. audit'[k] <=> cmd'.results[k] = "ok"
  <2>1. audit[k] <=> cmd.results[k] = "ok"  BY Zenon DEF Command!Handled
  <2>2. QED  BY <2>1, Zenon
<1>2. audit'[k] => Command!Landed(k)'
  <2>1. audit[k] => Command!Landed(k)  BY Zenon DEF Command!Handled
  <2>2. Command!Landed(k)' <=> Command!Landed(k)  BY DEF Command!Landed
  <2>3. QED  BY <2>1, <2>2, Zenon
<1>3. cmd'.results[k] \in {"refused", "unresolved", "missing value"} => \A w \in landed' : w.entry # k
  BY DEF Command!Handled
<1>4. QED  BY <1>1, <1>2, <1>3, Zenon DEF Command!Handled

\* A step that leaves the command alone.
LEMMA CommandElsewhere ==
    ASSUME CommandInv, reg' \in [Instances -> Gens \cup {0}], UNCHANGED <<cmd, request, landed, audit, walk>>
    PROVE  CommandInv'
<1>1. CommandTypes' /\ RequestIs' /\ TreeIs' /\ WalkIs'
  BY DEF CommandInv, CommandTypes, Busy, RequestIs, TreeIs, WalkIs, Distinct
<1>2. WriteIs' /\ Command!WritesPermitted' /\ Command!ReplyTruthful'
  BY EntriesSame DEF CommandInv, WriteIs, Busy, LandedWithin, Command!WritesPermitted, Command!ReplyTruthful
<1>3. QED  BY <1>1, <1>2 DEF CommandInv

\* The command is answered; a write with the truth.
LEMMA Finished ==
    ASSUME CommandInv, Busy, NEW code \in Codes, NEW rs \in Seq(Outcomes),
           cmd' = [cmd EXCEPT !.pc = "done", !.code = code, !.results = rs],
           request'.op = "none", UNCHANGED <<reg, audit>>, Command!WritesPermitted', WalkIs',
           cmd.verb = "sb/write" => Command!ReplyTruthful',
           cmd.verb = "sb/browse ref" /\ cmd.again = 0 => Distinct(rs)
    PROVE  CommandInv'
<1>1. cmd \in CmdType  BY DEF CommandInv, CommandTypes
<1>2. /\ cmd' \in CmdType /\ cmd'.pc = "done" /\ cmd'.verb = cmd.verb /\ cmd'.at = cmd.at /\ cmd'.args = cmd.args
      /\ cmd'.results = rs /\ cmd'.code = code /\ cmd'.start = cmd.start /\ cmd'.tree = cmd.tree /\ cmd'.again = cmd.again
  BY <1>1 DEF CmdType
<1>3. CommandTypes' /\ RequestIs'  BY <1>2 DEF CommandInv, CommandTypes, Busy, RequestIs
<1>4. WriteIs'  BY <1>2 DEF CommandInv, WriteIs, Busy
<1>5. TreeIs'
  <2>1. /\ cmd.again = 0 => Distinct(cmd.tree) /\ \A k \in 1..Len(cmd.tree) : cmd.tree[k] <= cmd.start
    BY DEF CommandInv, TreeIs
  <2>2. /\ cmd'.again = 0 => Distinct(cmd'.tree) /\ \A k \in 1..Len(cmd'.tree) : cmd'.tree[k] <= cmd'.start
    BY <1>2, <2>1
  <2>3. (cmd'.verb = "sb/browse ref" /\ cmd'.again = 0 => Distinct(cmd'.results)) /\ ~Busy'
    BY <1>2 DEF Busy
  <2>4. QED  BY <2>2, <2>3 DEF TreeIs
<1>6. Command!ReplyTruthful'  BY <1>2 DEF Command!ReplyTruthful
<1>7. QED  BY <1>3, <1>4, <1>5, <1>6 DEF CommandInv

\* A write in progress: its entries so far.
LEMMA WriteShape ==
    ASSUME CommandInv, Busy, cmd.verb = "sb/write"
    PROVE  /\ cmd \in CmdType /\ cmd.at \in Handles /\ cmd.at # <<>> /\ cmd.args \in Seq(Entries)
           /\ cmd.results \in Seq(Outcomes) /\ audit \in Seq(BOOLEAN) /\ cmd.i \in Nat /\ Len(cmd.args) \in Nat
           /\ cmd.args # <<>> => cmd.i \in 1..Len(cmd.args)
           /\ cmd.args = <<>> => cmd.i = 1 /\ Len(cmd.args) = 0
           /\ Len(cmd.results) = cmd.i - 1 /\ Len(audit) = cmd.i - 1
           /\ \A k \in 1..(cmd.i - 1) : Command!Handled(k)
           /\ LandedWithin(cmd.i - 1)
<1>1. /\ cmd \in CmdType /\ cmd.at \in Handles /\ audit \in Seq(BOOLEAN) /\ WriteIs
  BY DEF CommandInv, CommandTypes
<1>2. cmd.at # <<>>
  <2>1. PICK i \in Instances, g \in Gens : cmd.at = <<i, g>>  BY <1>1 DEF Handles
  <2>2. Len(<<i, g>>) = 2 /\ Len(<<>>) = 0  OBVIOUS
  <2>3. QED  BY <2>1, <2>2
<1>3. cmd.args \in Seq(Entries)  BY <1>1, <1>2 DEF WriteIs
<1>4. Len(cmd.args) \in Nat /\ (cmd.args = <<>> => Len(cmd.args) = 0)  BY <1>3, LenProperties, EmptySeq
<1>5. cmd.results \in Seq(Outcomes) /\ cmd.i \in Nat  BY <1>1 DEF CmdType
<1>6. QED  BY <1>1, <1>2, <1>3, <1>4, <1>5 DEF WriteIs

\* The command is answered with a code.
LEMMA Answered ==
    ASSUME CommandInv, Busy, NEW code \in Codes, Command!Answer(code),
           request'.op = "none", UNCHANGED <<reg, audit, walk>>, Command!WritesPermitted',
           cmd.verb = "sb/write" =>
              /\ code \notin {"OK", "WRITE_NOT_ALLOWED"} /\ landed \subseteq landed'
              /\ \A w \in landed' : w \in landed \/ (code = "DEVICE_UNAVAILABLE" /\ w.entry = cmd.i)
    PROVE  CommandInv'
<1>1. cmd \in CmdType /\ TreeIs  BY DEF CommandInv, CommandTypes
<1>2. cmd' = [cmd EXCEPT !.pc = "done", !.code = code, !.results = cmd.results] /\ cmd.results \in Seq(Outcomes)
  <2>1. cmd' = [cmd EXCEPT !.pc = "done", !.code = code]  BY DEF Command!Answer
  <2>2. QED  BY <1>1, <2>1 DEF CmdType
<1>3. WalkIs'  BY DEF CommandInv, WalkIs
<1>4. cmd.verb = "sb/browse ref" /\ cmd.again = 0 => Distinct(cmd.results)  BY <1>1 DEF TreeIs
<1>5. ASSUME cmd.verb = "sb/write" PROVE Command!ReplyTruthful'
  <2>1. /\ cmd.results \in Seq(Outcomes) /\ audit \in Seq(BOOLEAN) /\ cmd.i \in Nat
        /\ Len(cmd.results) = cmd.i - 1 /\ Len(audit) = cmd.i - 1 /\ cmd.i - 1 \in Nat
        /\ \A k \in 1..(cmd.i - 1) : Command!Handled(k)
        /\ LandedWithin(cmd.i - 1)
    <3>1. Len(audit) \in Nat  BY <1>5, WriteShape, LenProperties
    <3>2. QED  BY <1>5, <3>1, WriteShape
  <2>2. cmd'.code = code /\ cmd'.results = cmd.results /\ cmd'.args = cmd.args /\ cmd'.at = cmd.at /\ audit' = audit
    BY <1>1, <1>2 DEF CmdType
  <2>3. ASSUME NEW k \in 1..(cmd.i - 1) PROVE Command!Handled(k)'
    <3>1. Command!Handled(k) /\ k # cmd.i  BY <2>1
    <3>2. (\A w \in landed : w.entry # k) => \A w \in landed' : w.entry # k  BY <1>5, <3>1
    <3>3. Command!Landed(k) => Command!Landed(k)'  BY <1>5, <2>2 DEF Command!Landed
    <3>4. QED  BY <2>2, <3>1, <3>2, <3>3 DEF Command!Handled
  <2>4. ASSUME NEW w \in landed'
        PROVE  w.entry \in 1..Len(audit') \/ (cmd'.code = "DEVICE_UNAVAILABLE" /\ w.entry = Len(audit') + 1)
    <3>1. CASE w \in landed  BY <2>1, <2>2, <3>1 DEF LandedWithin
    <3>2. CASE code = "DEVICE_UNAVAILABLE" /\ w.entry = cmd.i
      <4>1. cmd.i = Len(audit') + 1  BY <2>1, <2>2
      <4>2. QED  BY <2>2, <3>2, <4>1
    <3>3. QED  BY <1>5, <3>1, <3>2
  <2>5. Len(cmd'.results) = Len(audit') /\ \A k \in 1..Len(audit') : Command!Handled(k)'  BY <2>1, <2>2, <2>3
  <2>6. cmd'.code \notin {"OK", "WRITE_NOT_ALLOWED"}  BY <1>5, <2>2
  <2>7. QED  BY <2>4, <2>5, <2>6 DEF Command!ReplyTruthful
<1>6. QED  BY <1>2, <1>3, <1>4, <1>5, Finished

\* A request is sent over the handle's channel.
LEMMA Sent ==
    ASSUME CommandInv, cmd.pc = "run", NEW p \in Nat, cmd' = [cmd EXCEPT !.pc = "wait", !.pages = p],
           request'.op # "none", request'.to = cmd.at, UNCHANGED <<reg, landed, audit, walk>>,
           cmd.verb = "sb/write" <=> request'.op = "Write", cmd.verb = "sb/browse ref" <=> request'.op = "BrowseAll",
           cmd.verb = "sb/read" <=> request'.op \in {"ReadNow", "Snapshot"},
           request'.op = "Write" => /\ cmd.args # <<>> /\ request'.field = cmd.args[cmd.i].field
                                    /\ request'.field \in Allow[cmd.at[2]]
    PROVE  CommandInv'
<1>1. cmd \in CmdType  BY DEF CommandInv, CommandTypes
<1>2. /\ cmd' \in CmdType /\ cmd'.pc = "wait" /\ cmd'.verb = cmd.verb /\ cmd'.at = cmd.at /\ cmd'.args = cmd.args
      /\ cmd'.i = cmd.i /\ cmd'.results = cmd.results /\ cmd'.start = cmd.start /\ cmd'.tree = cmd.tree /\ cmd'.again = cmd.again
  BY <1>1 DEF CmdType
<1>3. CommandTypes' /\ RequestIs'  BY <1>2 DEF CommandInv, CommandTypes, Busy, RequestIs
<1>4. WriteIs'  BY <1>2, EntriesSame DEF CommandInv, WriteIs, Busy, LandedWithin
<1>5. TreeIs'
  <2>1. /\ cmd.again = 0 => Distinct(cmd.tree) /\ \A k \in 1..Len(cmd.tree) : cmd.tree[k] <= cmd.start
        /\ (cmd.verb = "sb/browse ref" /\ cmd.again = 0 => Distinct(cmd.results))
        /\ (cmd.verb \in {"sb/browse any", "sb/browse ref"} => cmd.results = <<>>)
    BY DEF CommandInv, TreeIs, Busy
  <2>2. /\ cmd'.again = 0 => Distinct(cmd'.tree) /\ \A k \in 1..Len(cmd'.tree) : cmd'.tree[k] <= cmd'.start
        /\ (cmd'.verb = "sb/browse ref" /\ cmd'.again = 0 => Distinct(cmd'.results))
        /\ (cmd'.verb \in {"sb/browse any", "sb/browse ref"} => cmd'.results = <<>>)
    BY <1>2, <2>1
  <2>3. QED  BY <2>2 DEF TreeIs
<1>6. WalkIs'  BY DEF CommandInv, WalkIs
<1>7. Command!ReplyTruthful' /\ Command!WritesPermitted'  BY <1>2 DEF CommandInv, Command!ReplyTruthful, Command!WritesPermitted
<1>8. QED  BY <1>3, <1>4, <1>5, <1>6, <1>7 DEF CommandInv

\* A command is routed to a running generation or refused (Commander::resolve).
LEMMA Routed ==
    ASSUME reg \in [Instances -> Gens \cup {0}], NEW a \in Instances \cup {"none"}
    PROVE  LET r == Command!resolve(a)
           IN  (Command!Resolved(r) => r \in Handles) /\ (~Command!Resolved(r) => r[1] \in Codes)
<1> DEFINE r == Command!resolve(a)
           running == {i \in Instances : reg[i] # 0}
           j == CHOOSE i \in running : TRUE
<1>1. r = IF a # "none" THEN IF reg[a] # 0 THEN <<a, reg[a]>> ELSE <<"NO_SUCH_INSTANCE">>
          ELSE IF running = {} THEN <<"DEVICE_UNAVAILABLE">>
          ELSE IF Command!Cardinality(running) > 1 THEN <<"BAD_ARGS">> ELSE <<j, reg[j]>>
  BY DEF Command!resolve, Command!None
<1>2. running # {} => j \in running  OBVIOUS
<1>3. \A i \in running : i \in Instances /\ reg[i] \in Gens  OBVIOUS
<1>4. a # "none" /\ reg[a] # 0 => a \in Instances /\ reg[a] \in Gens  OBVIOUS
<1> HIDE DEF running, j
<1>5. \/ \E i \in Instances, g \in Gens : r = <<i, g>>
      \/ r = <<"NO_SUCH_INSTANCE">> \/ r = <<"DEVICE_UNAVAILABLE">> \/ r = <<"BAD_ARGS">>
  <2> HIDE DEF r
  <2>1. CASE a # "none" /\ reg[a] # 0  BY <1>1, <1>4, <2>1
  <2>2. CASE a # "none" /\ reg[a] = 0  BY <1>1, <2>2
  <2>3. CASE a = "none" /\ running = {}  BY <1>1, <2>3
  <2>4. CASE a = "none" /\ running # {} /\ Command!Cardinality(running) > 1  BY <1>1, <2>4
  <2>5. CASE a = "none" /\ running # {} /\ ~(Command!Cardinality(running) > 1)
    <3>1. r = <<j, reg[j]>> /\ j \in Instances /\ reg[j] \in Gens  BY <1>1, <1>2, <1>3, <2>5
    <3>2. QED  BY <3>1
  <2>6. QED  BY <2>1, <2>2, <2>3, <2>4, <2>5
<1> HIDE DEF r
<1>6. ASSUME NEW i \in Instances, NEW g \in Gens, r = <<i, g>>
      PROVE  (Command!Resolved(r) => r \in Handles) /\ (~Command!Resolved(r) => r[1] \in Codes)
  <2>1. Len(<<i, g>>) = 2 /\ <<i, g>> \in Handles  BY DEF Handles
  <2>2. QED  BY <1>6, <2>1 DEF Command!Resolved
<1>7. ASSUME NEW s \in Codes, r = <<s>>
      PROVE  (Command!Resolved(r) => r \in Handles) /\ (~Command!Resolved(r) => r[1] \in Codes)
  <2>1. Len(<<s>>) = 1 /\ <<s>>[1] = s  OBVIOUS
  <2>2. QED  BY <1>7, <2>1 DEF Command!Resolved
<1>8. "NO_SUCH_INSTANCE" \in Codes /\ "DEVICE_UNAVAILABLE" \in Codes /\ "BAD_ARGS" \in Codes  BY DEF Codes
<1>9. (Command!Resolved(r) => r \in Handles) /\ (~Command!Resolved(r) => r[1] \in Codes)
  BY <1>5, <1>6, <1>7, <1>8
<1>10. QED  BY <1>9 DEF r

\* A command begins.
LEMMA Begun ==
    ASSUME CommandInv, NEW v \in Verbs, NEW a \in Instances \cup {"none"},
           NEW g \in Batches \cup BrowseKeys \cup {<<>>}, NEW m \in Int, Command!Begin(v, a, g, m),
           v \in {"sb/read", "sb/write"} => g \in Batches, WalkIs'
    PROVE  CommandInv'
<1> DEFINE r == Command!resolve(a)
           ok == Command!Resolved(r)
           mx == Command!clamp(m)
           pc1 == IF ok THEN "run" ELSE "done"
           at1 == IF ok THEN r ELSE <<>>
           cd1 == IF ok THEN "" ELSE r[1]
<1>1. /\ cmd.pc = "idle" /\ audit' = <<>> /\ landed' = {} /\ UNCHANGED <<reg, request>>
      /\ cmd' = [Command!Idle EXCEPT !.verb = v, !.args = g, !.max = mx, !.pc = pc1, !.at = at1, !.code = cd1]
  BY DEF Command!Begin
<1>2. reg \in [Instances -> Gens \cup {0}] /\ RequestIs  BY DEF CommandInv, CommandTypes
<1>3. (ok => r \in Handles) /\ (~ok => r[1] \in Codes)  BY <1>2, Routed
<1>4. mx \in Nat  BY CommandTables DEF Command!clamp
<1>5. /\ pc1 \in {"run", "done"} /\ at1 \in Handles \cup {<<>>} /\ cd1 \in Codes
      /\ (pc1 = "run" => at1 \in Handles)
      /\ (pc1 = "done" => at1 = <<>>)
  <2> HIDE DEF r, ok
  <2>1. CASE ok  BY <1>3, <2>1 DEF Codes
  <2>2. CASE ~ok  BY <1>3, <2>2
  <2>3. QED  BY <2>1, <2>2
<1> HIDE DEF r, ok, mx, pc1, at1, cd1
<1>6. cmd' = [pc |-> pc1, verb |-> v, at |-> at1, args |-> g, max |-> mx, i |-> 1, results |-> <<>>, code |-> cd1,
              start |-> 0, pages |-> 0, tree |-> <<>>, again |-> 0]
  BY <1>1 DEF Command!Idle
<1>7. cmd' \in CmdType /\ cmd'.pc = pc1 /\ cmd'.verb = v /\ cmd'.at = at1 /\ cmd'.args = g /\ cmd'.i = 1
      /\ cmd'.results = <<>> /\ cmd'.tree = <<>> /\ cmd'.start = 0
  BY <1>4, <1>5, <1>6 DEF CmdType
<1>8. CommandTypes'
  <2>1. audit' \in Seq(BOOLEAN) /\ reg' \in [Instances -> Gens \cup {0}]  BY <1>1, <1>2
  <2>2. Busy' => cmd'.at \in Handles  BY <1>5, <1>7 DEF Busy
  <2>3. v \in {"sb/read", "sb/write"} => g \in Seq(Entries)  BY CommandTables DEF Entries
  <2>4. QED  BY <1>7, <2>1, <2>2, <2>3 DEF CommandTypes, Busy
<1>9. RequestIs'
  <2>1. request.op = "none"  BY <1>1, <1>2 DEF RequestIs
  <2>2. request'.op = "none" /\ cmd'.pc # "wait"  BY <1>1, <1>5, <1>7, <2>1
  <2>3. QED  BY <2>2 DEF RequestIs
<1>10. WriteIs'
  <2> SUFFICES ASSUME v = "sb/write", at1 # <<>>
               PROVE  /\ g \in Seq(Entries) /\ (g # <<>> => 1 \in 1..Len(g)) /\ Len(cmd'.results) = 0 /\ Len(audit') = 0
    BY <1>1, <1>7 DEF WriteIs, Busy, LandedWithin
  <2>1. g \in Seq(Entries)  BY CommandTables DEF Entries
  <2>2. Len(g) \in Nat /\ (g # <<>> => Len(g) # 0)  BY <2>1, LenProperties, EmptySeq
  <2>3. QED  BY <1>1, <1>7, <2>1, <2>2
<1>11. TreeIs'
  <2>1. Len(<<>>) = 0 /\ DOMAIN <<>> = {}  OBVIOUS
  <2>2. QED  BY <1>7, <2>1 DEF TreeIs, Distinct
<1>12. Command!WritesPermitted' /\ Command!ReplyTruthful'
  BY <1>1, <1>5, <1>7 DEF Command!WritesPermitted, Command!ReplyTruthful
<1>13. QED  BY <1>8, <1>9, <1>10, <1>11, <1>12 DEF CommandInv

\* The client calls, and has its answer.
LEMMA ClientSteps ==
    ASSUME CommandInv, Command!Call \/ Command!Replied
    PROVE  CommandInv'
<1>1. WalkIs  BY DEF CommandInv
<1>2. walk' = walk => WalkIs'  BY <1>1 DEF WalkIs
<1>3. walk' = Command!NoWalk => WalkIs'
  <2> SUFFICES ASSUME walk' = Command!NoWalk PROVE WalkIs'  OBVIOUS
  <2>1. /\ walk' = [at |-> {}, got |-> <<>>, cursor |-> 0, open |-> FALSE]
    BY DEF Command!NoWalk
  <2>2. QED  BY <2>1 DEF WalkIs
<1>4. CASE Command!Replied
  <2>1. /\ cmd.pc = "done" /\ cmd' = Command!Idle /\ UNCHANGED <<reg, request, landed, audit, walk>>
    BY <1>4 DEF Command!Replied
  <2>2. /\ cmd' \in CmdType /\ cmd'.pc = "idle" /\ cmd'.verb = "none" /\ cmd'.tree = <<>>
    <3>1. cmd' = [pc |-> "idle", verb |-> "none", at |-> <<>>, args |-> <<>>, max |-> 0, i |-> 1, results |-> <<>>,
                  code |-> "", start |-> 0, pages |-> 0, tree |-> <<>>, again |-> 0]
      BY <2>1 DEF Command!Idle
    <3>2. "" \in Codes /\ "none" \in Verbs  BY DEF Codes, Verbs
    <3> DEFINE nil == <<>>
    <3>3. /\ nil \in Handles \cup {<<>>} /\ nil \in Batches \cup BrowseKeys \cup {<<>>}
          /\ nil \in Seq(Outcomes) /\ nil \in Seq(Nat)
      OBVIOUS
    <3>4. cmd' = [pc |-> "idle", verb |-> "none", at |-> nil, args |-> nil, max |-> 0, i |-> 1, results |-> nil,
                  code |-> "", start |-> 0, pages |-> 0, tree |-> nil, again |-> 0] /\ nil = <<>>
      BY <3>1
    <3> HIDE DEF nil
    <3>5. cmd' \in CmdType  BY <3>2, <3>3, <3>4 DEF CmdType
    <3>6. QED  BY <3>4, <3>5
  <2>3. CommandTypes' /\ RequestIs' /\ WriteIs'
    BY <2>1, <2>2 DEF CommandInv, CommandTypes, RequestIs, WriteIs, Busy
  <2>4. TreeIs'
    <3>1. Len(<<>>) = 0 /\ DOMAIN <<>> = {}  OBVIOUS
    <3>2. QED  BY <2>2, <3>1 DEF TreeIs, Distinct, Busy
  <2>5. Command!WritesPermitted' /\ Command!ReplyTruthful'
    BY <2>1, <2>2 DEF CommandInv, Command!WritesPermitted, Command!ReplyTruthful
  <2>6. QED  BY <1>2, <2>1, <2>3, <2>4, <2>5 DEF CommandInv
<1>5. CASE Command!Call
  <2>1. PICK a \in Instances \cup {"none"} :
          \/ \E v \in {"sb/status", "sb/signals", "sb/pause", "sb/resume", "reconnect", "repoll"} :
                Command!Begin(v, a, <<>>, 1) /\ UNCHANGED walk
          \/ \E v \in {"sb/read", "sb/write"}, b \in Batches : Command!Begin(v, a, b, 1) /\ UNCHANGED walk
          \/ \E m \in {0, 1, MaxPage + 1}, keys \in BrowseKeys :
                /\ Command!Begin("sb/browse any", a, keys, m)
                /\ walk' = walk \/ walk' = Command!NoWalk
    BY <1>5 DEF Command!Call
  <2>2. CASE \E v \in {"sb/status", "sb/signals", "sb/pause", "sb/resume", "reconnect", "repoll"} :
                Command!Begin(v, a, <<>>, 1) /\ UNCHANGED walk
    <3>1. PICK v \in {"sb/status", "sb/signals", "sb/pause", "sb/resume", "reconnect", "repoll"} :
                Command!Begin(v, a, <<>>, 1) /\ UNCHANGED walk
      BY <2>2
    <3>2. v \in Verbs /\ v \notin {"sb/read", "sb/write"}  BY DEF Verbs
    <3> DEFINE nil == <<>>
    <3>3. nil \in Batches \cup BrowseKeys \cup {<<>>} /\ Command!Begin(v, a, nil, 1)  BY <3>1
    <3> HIDE DEF nil
    <3>4. 1 \in Int  OBVIOUS
    <3>5. QED  BY <1>2, <3>1, <3>2, <3>3, <3>4, Begun
  <2>3. CASE \E v \in {"sb/read", "sb/write"}, b \in Batches : Command!Begin(v, a, b, 1) /\ UNCHANGED walk
    <3>1. PICK v \in {"sb/read", "sb/write"}, b \in Batches : Command!Begin(v, a, b, 1) /\ UNCHANGED walk
      BY <2>3
    <3>2. v \in Verbs  BY DEF Verbs
    <3>3. b \in Batches \cup BrowseKeys \cup {<<>>} /\ 1 \in Int  OBVIOUS
    <3>4. QED  BY <1>2, <3>1, <3>2, <3>3, Begun
  <2>4. CASE \E m \in {0, 1, MaxPage + 1}, keys \in BrowseKeys :
                Command!Begin("sb/browse any", a, keys, m) /\ (walk' = walk \/ walk' = Command!NoWalk)
    <3>1. MaxPage + 1 \in Int  BY CommandTables
    <3>2. PICK m \in {0, 1, MaxPage + 1}, keys \in BrowseKeys :
                Command!Begin("sb/browse any", a, keys, m) /\ (walk' = walk \/ walk' = Command!NoWalk)
      BY <2>4
    <3>3. m \in Int  BY <3>1
    <3> DEFINE v == "sb/browse any"
    <3>4. v \in Verbs /\ v \notin {"sb/read", "sb/write"} /\ keys \in Batches \cup BrowseKeys \cup {<<>>}  BY DEF Verbs
    <3>5. Command!Begin(v, a, keys, m)  BY <3>2
    <3> HIDE DEF v
    <3>6. QED  BY <1>2, <1>3, <3>2, <3>3, <3>4, <3>5, Begun
  <2>5. QED  BY <2>1, <2>2, <2>3, <2>4
<1>6. QED  BY <1>4, <1>5

\* The configuration change beside the command: instances stop, start, and
\* their tasks die with what they hold.
LEMMA ChangeSteps ==
    ASSUME CommandInv, (\E i \in Instances : Command!Stop(i) \/ Command!Start(i)) \/ (\E t \in alive : Command!Die(t))
    PROVE  CommandInv'
<1>1. reg \in [Instances -> Gens \cup {0}] /\ RequestIs /\ Command!WritesPermitted  BY DEF CommandInv, CommandTypes
<1>2. ASSUME NEW i \in Instances, Command!Stop(i) PROVE CommandInv'
  <2>1. reg' = [reg EXCEPT ![i] = 0] /\ UNCHANGED <<cmd, request, landed, audit, walk>>
    BY <1>2 DEF Command!Stop, Command!None
  <2>2. reg' \in [Instances -> Gens \cup {0}]  BY <1>1, <2>1
  <2>3. QED  BY <2>1, <2>2, CommandElsewhere
<1>3. ASSUME NEW i \in Instances, Command!Start(i) PROVE CommandInv'
  <2>1. /\ next[i] \in Gens /\ reg' = [reg EXCEPT ![i] = next[i]]
        /\ UNCHANGED <<cmd, request, landed, audit, walk>>
    BY <1>3 DEF Command!Start
  <2>2. reg' \in [Instances -> Gens \cup {0}]  BY <1>1, <2>1
  <2>3. QED  BY <2>1, <2>2, CommandElsewhere
<1>4. ASSUME NEW t \in alive, Command!Die(t) PROVE CommandInv'
  <2>1. UNCHANGED <<reg, audit, walk>>  BY <1>4 DEF Command!Die
  <2>2. CASE request.op # "none" /\ request.to = t
    <3>1. /\ request'.op = "none" /\ cmd' = [cmd EXCEPT !.pc = "done", !.code = "DEVICE_UNAVAILABLE"]
          /\ \/ landed' = landed
             \/ /\ request.op = "Write"
                /\ landed' = landed \cup {[at |-> t, field |-> request.field, entry |-> cmd.i]}
      BY <1>4, <2>2 DEF Command!Die, Command!NoRequest
    <3>2. Busy /\ t = cmd.at  BY <1>1, <2>2 DEF RequestIs, Busy
    <3>3. Command!WritesPermitted'
      <4>1. CASE landed' = landed  BY <1>1, <4>1 DEF Command!WritesPermitted
      <4>2. CASE /\ request.op = "Write"
                 /\ landed' = landed \cup {[at |-> t, field |-> request.field, entry |-> cmd.i]}
        <5>1. request.field \in Allow[t[2]]  BY <1>1, <3>2, <4>2 DEF RequestIs
        <5>2. QED  BY <1>1, <4>2, <5>1 DEF Command!WritesPermitted
      <4>3. QED  BY <3>1, <4>1, <4>2
    <3> DEFINE code == "DEVICE_UNAVAILABLE"
    <3>4. /\ Command!Answer(code) /\ code \in Codes /\ code = "DEVICE_UNAVAILABLE"
          /\ code \notin {"OK", "WRITE_NOT_ALLOWED"}
      BY <3>1 DEF Command!Answer, Codes
    <3> HIDE DEF code
    <3>5. cmd.verb = "sb/write" =>
             /\ landed \subseteq landed'
             /\ \A w \in landed' : w \in landed \/ (code = "DEVICE_UNAVAILABLE" /\ w.entry = cmd.i)
      BY <3>1, <3>4
    <3>6. QED  BY <2>1, <3>1, <3>2, <3>3, <3>4, <3>5, Answered
  <2>3. CASE ~(request.op # "none" /\ request.to = t)
    <3>1. UNCHANGED <<cmd, request, landed>>  BY <1>4, <2>3 DEF Command!Die
    <3>2. QED  BY <1>1, <2>1, <3>1, CommandElsewhere
  <2>4. QED  BY <2>2, <2>3
<1>5. QED  BY <1>2, <1>3, <1>4

\* The reply of a batch whose entries were all handled.
LEMMA WriteReplied ==
    ASSUME CommandInv, Busy, cmd.verb = "sb/write", NEW rs \in Seq(Outcomes), Command!WriteDone(rs),
           audit' \in Seq(BOOLEAN), Len(audit') = Len(cmd.args), Len(rs) = Len(cmd.args),
           \A k \in 1..Len(cmd.args) :
              /\ audit'[k] <=> rs[k] = "ok"
              /\ rs[k] = "ok" => \E w \in landed' : w.entry = k /\ w.at = cmd.at /\ w.field = cmd.args[k].field
              /\ Unwritten(rs[k]) => Spared(k)',
           LandsWithin(Len(cmd.args)),
           request'.op = "none", UNCHANGED <<reg, walk>>, Command!WritesPermitted'
    PROVE  CommandInv'
<1>1. /\ cmd \in CmdType /\ cmd.args \in Seq(Entries) /\ Len(cmd.args) \in Nat  BY WriteShape
<1>2. PICK code \in {"OK", "WRITE_NOT_ALLOWED"} :
          /\ cmd' = [cmd EXCEPT !.pc = "done", !.code = code, !.results = rs]
          /\ code = "WRITE_NOT_ALLOWED" => \A k \in DOMAIN rs : rs[k] = "refused"
  BY DEF Command!WriteDone, Command!NothingAllowed, Command!AnswerWith
<1>3. code \in Codes  BY DEF Codes
<1>4. /\ cmd' \in CmdType /\ cmd'.pc = "done" /\ cmd'.verb = "sb/write" /\ cmd'.at = cmd.at /\ cmd'.args = cmd.args
      /\ cmd'.results = rs /\ cmd'.code = code /\ cmd'.start = cmd.start /\ cmd'.tree = cmd.tree /\ cmd'.again = cmd.again
  BY <1>1, <1>2, <1>3 DEF CmdType
<1>5. CommandTypes' /\ RequestIs'  BY <1>4 DEF CommandInv, CommandTypes, Busy, RequestIs
<1>6. WriteIs' /\ WalkIs'  BY <1>1, <1>4 DEF CommandInv, WriteIs, WalkIs, Busy
<1>7. TreeIs'
  <2>1. /\ cmd.again = 0 => Distinct(cmd.tree) /\ \A k \in 1..Len(cmd.tree) : cmd.tree[k] <= cmd.start
    BY DEF CommandInv, TreeIs
  <2>2. /\ cmd'.again = 0 => Distinct(cmd'.tree) /\ \A k \in 1..Len(cmd'.tree) : cmd'.tree[k] <= cmd'.start
    BY <1>4, <2>1
  <2>3. cmd'.verb # "sb/browse ref" /\ cmd'.verb # "sb/browse any"  BY <1>4
  <2>4. QED  BY <2>2, <2>3 DEF TreeIs
<1>8. Command!ReplyTruthful'
  <2>1. DOMAIN rs = 1..Len(cmd.args)  BY <1>1, LenProperties
  <2>2. ASSUME NEW k \in 1..Len(cmd.args) PROVE Command!Handled(k)'
    <3>1. audit'[k] <=> cmd'.results[k] = "ok"  BY <1>4, <2>2, Zenon
    <3>2. cmd'.results[k] = "ok" => Command!Landed(k)'
      <4>1. rs[k] = "ok" => \E w \in landed' : w.entry = k /\ w.at = cmd.at /\ w.field = cmd.args[k].field
        BY <2>2, Zenon
      <4>2. cmd'.results[k] = "ok" => \E w \in landed' : w.entry = k /\ w.at = cmd'.at /\ w.field = cmd'.args[k].field
        BY ONLY <1>4, <4>1
      <4>3. QED  BY <4>2, Zenon DEF Command!Landed
    <3>3. Unwritten(cmd'.results[k]) => Spared(k)'
      BY <1>4, <2>2, Zenon
    <3>4. QED  BY <3>1, <3>2, <3>3, Zenon DEF Command!Handled, Spared, Unwritten
  <2>3. code = "WRITE_NOT_ALLOWED" => \A k \in 1..Len(cmd.args) : cmd'.results[k] = "refused"
    BY <1>2, <1>4, <2>1
  <2>4. Len(audit') = Len(cmd.args) /\ Len(cmd'.results) = Len(cmd.args) /\ cmd'.args = cmd.args /\ cmd'.code = code
    BY <1>4
  <2>5. QED  BY <2>2, <2>3, <2>4 DEF Command!ReplyTruthful, LandsWithin
<1>9. QED  BY <1>5, <1>6, <1>7, <1>8 DEF CommandInv

\* One entry is done: audited, reported, and the loop goes on.
LEMMA EntryDone ==
    ASSUME CommandInv, Busy, cmd.verb = "sb/write", cmd.args # <<>>, NEW ok \in BOOLEAN, NEW result \in Outcomes,
           ok <=> result = "ok", Command!Audited(ok, result), landed \subseteq landed',
           result = "ok" =>
              \E w \in landed' : w.entry = cmd.i /\ w.at = cmd.at /\ w.field = cmd.args[cmd.i].field,
           LandsAt(cmd.i),
           Unwritten(result) => UNCHANGED landed,
           request'.op = "none", UNCHANGED <<reg, walk>>, Command!WritesPermitted'
    PROVE  CommandInv'
<1>1. /\ cmd \in CmdType /\ cmd.at \in Handles /\ cmd.at # <<>> /\ cmd.args \in Seq(Entries)
      /\ cmd.results \in Seq(Outcomes) /\ audit \in Seq(BOOLEAN) /\ cmd.i \in Nat /\ Len(cmd.args) \in Nat
      /\ cmd.i \in 1..Len(cmd.args) /\ Len(cmd.results) = cmd.i - 1 /\ Len(audit) = cmd.i - 1
      /\ \A k \in 1..(cmd.i - 1) : Command!Handled(k)
      /\ LandedWithin(cmd.i - 1)
  BY WriteShape
<1> DEFINE rs == Append(cmd.results, result)
           au == Append(audit, ok)
           n == cmd.i
<1>2. /\ rs \in Seq(Outcomes) /\ Len(rs) = n /\ (\A k \in 1..(n - 1) : rs[k] = cmd.results[k]) /\ rs[n] = result
  <2>1. /\ rs \in Seq(Outcomes) /\ Len(rs) = Len(cmd.results) + 1
        /\ (\A k \in 1..Len(cmd.results) : rs[k] = cmd.results[k]) /\ rs[Len(cmd.results) + 1] = result
    BY <1>1, AppendIn
  <2>2. Len(cmd.results) + 1 = n  BY <1>1
  <2> HIDE DEF rs
  <2>3. QED  BY <1>1, <2>1, <2>2
<1>3. /\ au \in Seq(BOOLEAN) /\ Len(au) = n /\ (\A k \in 1..(n - 1) : au[k] = audit[k]) /\ au[n] = ok
  <2>1. /\ au \in Seq(BOOLEAN) /\ Len(au) = Len(audit) + 1
        /\ (\A k \in 1..Len(audit) : au[k] = audit[k]) /\ au[Len(audit) + 1] = ok
    BY <1>1, AppendIn
  <2>2. Len(audit) + 1 = n  BY <1>1
  <2> HIDE DEF au
  <2>3. QED  BY <1>1, <2>1, <2>2
<1>4. /\ audit' = au
      /\ \/ n = Len(cmd.args) /\ Command!WriteDone(rs)
         \/ n # Len(cmd.args) /\ cmd' = [cmd EXCEPT !.pc = "run", !.i = @ + 1, !.results = rs]
  BY DEF Command!Audited
<1> HIDE DEF rs, au
<1>5. ASSUME NEW k \in 1..n
      PROVE  /\ au[k] <=> rs[k] = "ok"
             /\ rs[k] = "ok" => \E w \in landed' : w.entry = k /\ w.at = cmd.at /\ w.field = cmd.args[k].field
             /\ Unwritten(rs[k]) => Spared(k)'
  <2>1. CASE k = n
    <3>1. UNCHANGED landed => Spared(k)'
      <4>1. \A w \in landed : w.entry # k  BY <1>1, <2>1 DEF LandedWithin
      <4>2. QED  BY <4>1 DEF Spared
    <3>2. rs[k] = result /\ au[k] = ok  BY <1>2, <1>3, <2>1
    <3>3. result = "ok" => \E w \in landed' : w.entry = k /\ w.at = cmd.at /\ w.field = cmd.args[k].field  BY <2>1
    <3>4. QED  BY <3>1, <3>2, <3>3, Zenon
  <2>2. CASE k # n
    <3>1. k \in 1..(n - 1)  BY <1>1, <2>2
    <3>2. Command!Handled(k)  BY <1>1, <3>1
    <3>3. rs[k] = cmd.results[k] /\ au[k] = audit[k]  BY <1>2, <1>3, <3>1
    <3>4. (audit[k] <=> cmd.results[k] = "ok") /\ (audit[k] => Command!Landed(k))
      BY <3>2, Zenon DEF Command!Handled
    <3>5. Command!Landed(k) => \E w \in landed' : w.entry = k /\ w.at = cmd.at /\ w.field = cmd.args[k].field
      BY DEF Command!Landed
    <3>6. Unwritten(cmd.results[k]) => Spared(k)'
      <4>1. Unwritten(cmd.results[k]) => Spared(k)
        BY <3>2 DEF Command!Handled, Spared, Unwritten
      <4>2. Spared(k) => Spared(k)'  BY <2>2 DEF Spared, LandsAt
      <4>3. QED  BY <4>1, <4>2
    <3>7. QED  BY <3>3, <3>4, <3>5, <3>6, Zenon
  <2>3. QED  BY <2>1, <2>2
<1>50. LandsWithin(n)  BY <1>1 DEF LandedWithin, LandsAt, LandsWithin
<1>6. CASE n = Len(cmd.args) /\ Command!WriteDone(rs)
  <2>1. \A k \in 1..Len(cmd.args) :
              /\ audit'[k] <=> rs[k] = "ok"
              /\ rs[k] = "ok" => \E w \in landed' : w.entry = k /\ w.at = cmd.at /\ w.field = cmd.args[k].field
              /\ Unwritten(rs[k]) => Spared(k)'
    BY <1>4, <1>5, <1>6
  <2>2. /\ audit' \in Seq(BOOLEAN) /\ Len(audit') = Len(cmd.args) /\ Len(rs) = Len(cmd.args)
        /\ LandsWithin(Len(cmd.args))
    BY <1>2, <1>3, <1>4, <1>50, <1>6
  <2> HIDE DEF n
  <2>3. QED  BY <1>2, <1>6, <2>1, <2>2, WriteReplied
<1>7. CASE n # Len(cmd.args) /\ cmd' = [cmd EXCEPT !.pc = "run", !.i = @ + 1, !.results = rs]
  <2> DEFINE m == cmd.i + 1
  <2>1. m \in Nat /\ m \in 1..Len(cmd.args) /\ m - 1 = n  BY <1>1, <1>7
  <2>2. cmd' = [cmd EXCEPT !.pc = "run", !.i = m, !.results = rs]  BY <1>1, <1>7 DEF CmdType
  <2> HIDE DEF m
  <2>3. /\ cmd' \in CmdType /\ cmd'.pc = "run" /\ cmd'.verb = "sb/write" /\ cmd'.at = cmd.at /\ cmd'.args = cmd.args
        /\ cmd'.i = m /\ cmd'.results = rs /\ cmd'.start = cmd.start /\ cmd'.tree = cmd.tree /\ cmd'.again = cmd.again
    BY <1>1, <1>2, <2>1, <2>2 DEF CmdType
  <2>4. CommandTypes' /\ RequestIs'
    BY <1>1, <1>3, <1>4, <2>3 DEF CommandInv, CommandTypes, Busy, RequestIs
  <2>5. WriteIs'
    <3>1. ASSUME NEW k \in 1..n PROVE Command!Handled(k)'
      <4>1. audit'[k] <=> cmd'.results[k] = "ok"  BY <1>4, <1>5, <2>3, Zenon
      <4>2. cmd'.results[k] = "ok" => Command!Landed(k)'
        <5>1. rs[k] = "ok" => \E w \in landed' : w.entry = k /\ w.at = cmd.at /\ w.field = cmd.args[k].field
          BY <1>5, Zenon
        <5>2. cmd'.results[k] = "ok" => \E w \in landed' : w.entry = k /\ w.at = cmd'.at /\ w.field = cmd'.args[k].field
          BY ONLY <2>3, <5>1
        <5>3. QED  BY <5>2, Zenon DEF Command!Landed
      <4>3. Unwritten(cmd'.results[k]) => Spared(k)'
        BY <1>5, <2>3, Zenon
      <4>4. QED  BY <4>1, <4>2, <4>3, Zenon DEF Command!Handled, Spared, Unwritten
    <3>2. /\ Len(cmd'.results) = m - 1 /\ Len(audit') = m - 1 /\ \A k \in 1..(cmd'.i - 1) : Command!Handled(k)'
          /\ LandsWithin(cmd'.i - 1)
      BY <1>2, <1>3, <1>4, <1>50, <2>1, <2>3, <3>1
    <3>3. LandedWithin(cmd.i - 1)'  BY <3>2 DEF LandedWithin, LandsWithin
    <3>4. QED  BY <1>1, <2>1, <2>3, <3>2, <3>3 DEF WriteIs
  <2>6. TreeIs'
    <3>1. /\ cmd.again = 0 => Distinct(cmd.tree) /\ \A k \in 1..Len(cmd.tree) : cmd.tree[k] <= cmd.start
      BY DEF CommandInv, TreeIs
    <3>2. /\ cmd'.again = 0 => Distinct(cmd'.tree) /\ \A k \in 1..Len(cmd'.tree) : cmd'.tree[k] <= cmd'.start
      BY <2>3, <3>1
    <3>3. cmd'.verb # "sb/browse ref" /\ cmd'.verb # "sb/browse any"  BY <2>3
    <3>4. QED  BY <3>2, <3>3 DEF TreeIs
  <2>7. WalkIs' /\ Command!ReplyTruthful'  BY <2>3 DEF CommandInv, WalkIs, Command!ReplyTruthful
  <2>8. QED  BY <2>4, <2>5, <2>6, <2>7 DEF CommandInv
<1>8. QED  BY <1>4, <1>6, <1>7

\* A request that is no write and no page of a walk.
LEMMA Asked ==
    ASSUME CommandInv, cmd.pc = "run", NEW q, q \notin {"none", "Write", "BrowseAll"}, Command!Ask(q),
           cmd.verb \notin {"sb/write", "sb/browse ref"}, cmd.verb = "sb/read" <=> q \in {"ReadNow", "Snapshot"},
           UNCHANGED <<reg, landed, audit, walk>>
    PROVE  CommandInv'
<1>1. cmd \in CmdType /\ Command!WritesPermitted  BY DEF CommandInv, CommandTypes
<1>2. CASE cmd.at \in alive
  <2>1. request' = [[op |-> q, to |-> <<>>] EXCEPT !.to = cmd.at] /\ cmd' = [cmd EXCEPT !.pc = "wait"]
    BY <1>2 DEF Command!Ask, Command!Send
  <2>2. request'.op = q /\ request'.to = cmd.at  BY <2>1
  <2>3. cmd.pages \in Nat /\ cmd' = [cmd EXCEPT !.pc = "wait", !.pages = cmd.pages]  BY <1>1, <2>1 DEF CmdType
  <2>4. QED  BY <2>2, <2>3, Sent
<1>3. CASE cmd.at \notin alive
  <2> DEFINE code == "DEVICE_UNAVAILABLE"
  <2>1. request' = [op |-> "none"] /\ Command!Answer(code)
    BY <1>3 DEF Command!Ask, Command!Send, Command!NoRequest
  <2>4. request'.op = "none" /\ code \in Codes  BY <2>1 DEF Codes
  <2>2. Command!WritesPermitted' /\ Busy  BY <1>1 DEF Command!WritesPermitted, Busy
  <2> HIDE DEF code
  <2>3. QED  BY <2>1, <2>2, <2>4, Answered
<1>4. QED  BY <1>2, <1>3

\* A running command holds no request.
LEMMA RunningHoldsNone ==
    ASSUME CommandInv, cmd.pc = "run"
    PROVE  request.op = "none" /\ Busy /\ cmd.at \in Handles
BY DEF CommandInv, RequestIs, CommandTypes, Busy

\* What a reference of a write comes to.
LEMMA WriteRefIs ==
    ASSUME NEW t, NEW e
    PROVE  Command!WriteRef(t, e) \in {"BAD_ARGS", "UNRESOLVED", "ok"}
<1>1. Command!resolve_push_write_ref(t, e) \in {"BAD_ARGS", "UNRESOLVED", "ok"}
  BY DEF Command!resolve_push_write_ref
<1>2. Command!resolve_poll_ref(t, e) \in {"BAD_ARGS", "UNRESOLVED", "ok"}
  <2>1. CASE e.form = "badCount"  BY <2>1 DEF Command!resolve_poll_ref
  <2>2. CASE e.form = "name"  BY <2>2 DEF Command!resolve_poll_ref
  <2>3. CASE e.form = "tagPath"  BY <2>3 DEF Command!resolve_poll_ref
  <2>4. CASE e.form \notin {"badCount", "name", "tagPath"}  BY <2>4 DEF Command!resolve_poll_ref
  <2>5. QED  BY <2>1, <2>2, <2>3, <2>4
<1>3. QED  BY <1>1, <1>2 DEF Command!WriteRef

\* An entry of a write: refused, or sent to the handle's own task (write_poll,
\* write_push).
LEMMA WriteEntrySteps ==
    ASSUME CommandInv, Command!WriteEntry
    PROVE  CommandInv'
<1>1. /\ cmd.pc = "run" /\ cmd.verb = "sb/write" /\ UNCHANGED <<reg, landed, walk>>
  BY DEF Command!WriteEntry, Command!At, Command!Quiet
<1>2. request.op = "none" /\ Busy /\ Command!WritesPermitted  BY <1>1, RunningHoldsNone DEF CommandInv
<1>3. /\ cmd \in CmdType /\ cmd.args \in Seq(Entries) /\ audit \in Seq(BOOLEAN) /\ Len(cmd.args) \in Nat
      /\ cmd.args # <<>> => cmd.i \in 1..Len(cmd.args)
      /\ cmd.args = <<>> => cmd.i = 1 /\ Len(cmd.args) = 0
      /\ Len(audit) = cmd.i - 1
  BY <1>1, <1>2, WriteShape
<1>4. Command!WritesPermitted'  BY <1>1, <1>2 DEF Command!WritesPermitted
<1>5. CASE cmd.args = <<>>
  <2> DEFINE rs == <<>>
  <2>1. Command!WriteDone(rs) /\ UNCHANGED <<request, audit>>  BY <1>5 DEF Command!WriteEntry
  <2>2. rs \in Seq(Outcomes) /\ Len(rs) = 0  OBVIOUS
  <2> HIDE DEF rs
  <2>3. Len(audit') = Len(cmd.args) /\ Len(rs) = Len(cmd.args) /\ audit' \in Seq(BOOLEAN) /\ 1..Len(cmd.args) = {}
    BY <1>3, <1>5, <2>1, <2>2
  <2>4. request'.op = "none"  BY <1>2, <2>1
  <2>5. LandsWithin(Len(cmd.args))
    <3>1. LandedWithin(cmd.i - 1) /\ cmd.i - 1 = Len(cmd.args)  BY <1>1, <1>2, <1>3, <1>5, WriteShape
    <3>2. QED  BY <1>1, <3>1 DEF LandedWithin, LandsWithin
  <2>6. QED  BY <1>1, <1>2, <1>4, <2>1, <2>2, <2>3, <2>4, <2>5, WriteReplied
<1>6. CASE cmd.args # <<>>
  <2> DEFINE e == cmd.args[cmd.i]
             r == Command!WriteRef(cmd.at, e)
  <2>1. e \in Entries /\ e.value \in BOOLEAN
    <3>1. e \in Entries  BY <1>3, <1>6, ElementOfSeq
    <3>2. QED  BY <3>1 DEF Entries
  <2>2. r \in {"BAD_ARGS", "UNRESOLVED", "ok"}  BY WriteRefIs
  <2>4. /\ r = "BAD_ARGS" => Command!Answer("BAD_ARGS") /\ UNCHANGED <<request, audit>>
        /\ r = "UNRESOLVED" => Command!Audited(FALSE, "unresolved") /\ UNCHANGED request
        /\ r = "ok" /\ ~Command!permits(e.field) => Command!Audited(FALSE, "refused") /\ UNCHANGED request
        /\ r = "ok" /\ Command!permits(e.field) /\ ~e.value =>
              Command!Audited(FALSE, "missing value") /\ UNCHANGED request
        /\ r = "ok" /\ Command!permits(e.field) /\ e.value => Command!SendWrite(e.field) /\ UNCHANGED audit
    BY <1>6 DEF Command!WriteEntry
  <2> HIDE DEF e, r
  <2>5. CASE r = "BAD_ARGS"
    <3> DEFINE code == "BAD_ARGS"
    <3>1. /\ Command!Answer(code) /\ UNCHANGED <<request, audit>> /\ code \in Codes
          /\ code \notin {"OK", "WRITE_NOT_ALLOWED"}
      BY <2>4, <2>5 DEF Codes
    <3> HIDE DEF code
    <3>2. request'.op = "none"  BY <1>2, <3>1
    <3>3. QED  BY <1>1, <1>2, <1>4, <3>1, <3>2, Answered
  <2>6. ASSUME NEW s \in {"unresolved", "refused", "missing value"}, Command!Audited(FALSE, s), UNCHANGED request
        PROVE  CommandInv'
    <3>1. s \in Outcomes /\ s # "ok"  BY DEF Outcomes
    <3> DEFINE ok == FALSE
    <3>2. ok \in BOOLEAN /\ ~ok /\ Command!Audited(ok, s)  BY <2>6
    <3> HIDE DEF ok
    <3>3. (ok <=> s = "ok") /\ request'.op = "none" /\ landed \subseteq landed' /\ LandsAt(cmd.i)
      BY <1>1, <1>2, <2>6, <3>1, <3>2 DEF LandsAt
    <3>4. QED  BY <1>1, <1>2, <1>4, <1>6, <3>1, <3>2, <3>3, EntryDone
  <2>7. CASE r = "ok" /\ Command!permits(e.field) /\ e.value
    <3>1. Command!SendWrite(e.field) /\ UNCHANGED audit /\ e.field \in Allow[cmd.at[2]]
      BY <2>4, <2>7 DEF Command!permits
    <3>2. CASE cmd.at \in alive
      <4>1. /\ request' = [[op |-> "Write", to |-> <<>>, field |-> e.field] EXCEPT !.to = cmd.at]
            /\ cmd' = [cmd EXCEPT !.pc = "wait"]
        BY <3>1, <3>2 DEF Command!SendWrite, Command!Send
      <4>2. request'.op = "Write" /\ request'.to = cmd.at /\ request'.field = e.field  BY <4>1
      <4>3. cmd.pages \in Nat /\ cmd' = [cmd EXCEPT !.pc = "wait", !.pages = cmd.pages]  BY <1>3, <4>1 DEF CmdType
      <4>4. request'.field = cmd.args[cmd.i].field  BY <4>2 DEF e
      <4>5. QED  BY <1>1, <1>6, <3>1, <4>2, <4>3, <4>4, Sent
    <3>3. CASE cmd.at \notin alive
      <4> DEFINE code == "DEVICE_UNAVAILABLE"
      <4>1. /\ request'.op = "none" /\ Command!Answer(code) /\ code \in Codes
            /\ code \notin {"OK", "WRITE_NOT_ALLOWED"}
        BY <3>1, <3>3 DEF Command!SendWrite, Command!Send, Command!NoRequest, Codes
      <4> HIDE DEF code
      <4>2. QED  BY <1>1, <1>2, <1>4, <3>1, <4>1, Answered
    <3>4. QED  BY <3>2, <3>3
  <2>8. QED  BY <2>1, <2>2, <2>4, <2>5, <2>6, <2>7
<1>7. QED  BY <1>5, <1>6

\* The task answers a write: it landed, or it failed before or after the wire.
LEMMA WriteAnswerSteps ==
    ASSUME CommandInv, Command!WriteAnswer
    PROVE  CommandInv'
<1> DEFINE w == [at |-> request.to, field |-> request.field, entry |-> cmd.i]
<1>1. /\ cmd.pc = "wait" /\ request.op = "Write" /\ request'.op = "none" /\ UNCHANGED <<reg, walk>>
      /\ \/ landed' = landed \cup {w} /\ Command!Audited(TRUE, "ok")
         \/ Command!Audited(FALSE, "error") /\ \E l \in {landed, landed \cup {w}} : landed' = l
  BY DEF Command!WriteAnswer, Command!Serving, Command!Served, Command!NoRequest
<1>2. /\ Busy /\ cmd.verb = "sb/write" /\ request.to = cmd.at /\ cmd.args # <<>>
      /\ request.field = cmd.args[cmd.i].field /\ request.field \in Allow[cmd.at[2]] /\ Command!WritesPermitted
  BY <1>1 DEF CommandInv, RequestIs, Busy
<1>3. w.at = cmd.at /\ w.field = cmd.args[cmd.i].field /\ w.entry = cmd.i /\ w.field \in Allow[w.at[2]]  BY <1>2
<1> HIDE DEF w
<1>4. landed \subseteq landed' /\ (landed' = landed \/ landed' = landed \cup {w})  BY <1>1
<1>5. Command!WritesPermitted' /\ LandsAt(cmd.i)  BY <1>2, <1>3, <1>4 DEF Command!WritesPermitted, LandsAt
<1>6. CASE landed' = landed \cup {w} /\ Command!Audited(TRUE, "ok")
  <2> DEFINE ok == TRUE
             s == "ok"
  <2>1. /\ ok \in BOOLEAN /\ s \in Outcomes /\ (ok <=> s = "ok") /\ Command!Audited(ok, s)
        /\ ~Unwritten(s)
    BY <1>6 DEF Outcomes, Unwritten
  <2>2. \E x \in landed' : x.entry = cmd.i /\ x.at = cmd.at /\ x.field = cmd.args[cmd.i].field  BY <1>3, <1>6
  <2> HIDE DEF ok, s
  <2>3. QED  BY <1>1, <1>2, <1>4, <1>5, <2>1, <2>2, EntryDone
<1>7. CASE Command!Audited(FALSE, "error")
  <2> DEFINE ok == FALSE
             s == "error"
  <2>1. /\ ok \in BOOLEAN /\ s \in Outcomes /\ s # "ok" /\ (ok <=> s = "ok") /\ Command!Audited(ok, s)
        /\ ~Unwritten(s)
    BY <1>7 DEF Outcomes, Unwritten
  <2> HIDE DEF ok, s
  <2>2. QED  BY <1>1, <1>2, <1>4, <1>5, <2>1, EntryDone
<1>8. QED  BY <1>1, <1>6, <1>7

\* Where a page ends.
LEMMA PageBound ==
    ASSUME NEW c \in Nat, NEW m \in Nat, NEW n \in Nat
    PROVE  LET hi == IF c + m < n THEN c + m ELSE n
           IN  /\ hi \in Nat /\ hi <= n /\ c + 1 \in Nat /\ c + 1 \in Int /\ hi \in Int
               /\ c <= n => c <= hi /\ hi \in c..n
OBVIOUS

\* The fields of a walk record.
LEMMA WalkRecord ==
    ASSUME NEW A, NEW G, NEW e, NEW n, walk' = [at |-> A, got |-> G, cursor |-> e, open |-> e < n]
    PROVE  walk'.at = A /\ walk'.got = G /\ walk'.cursor = e /\ (~walk'.open => ~(e < n))
OBVIOUS

\* A page of a layout (browse_push_layout), appended to what the walk has.
LEMMA WalkStep ==
    ASSUME WalkIs, NEW t \in Handles, NEW m \in Nat, NEW page,
           page = SubSeq(Signals[t[2]], walk.cursor + 1,
                         IF walk.cursor + m < Len(Signals[t[2]]) THEN walk.cursor + m ELSE Len(Signals[t[2]])),
           walk'.at = walk.at \cup {t}, walk'.got = walk.got \o page, walk'.cursor = walk.cursor + Len(page),
           ~walk'.open => ~(walk.cursor + Len(page) < Len(Signals[t[2]]))
    PROVE  WalkIs' /\ page \in Seq(Fields)
<1> DEFINE lay == Signals[t[2]]
           c == walk.cursor
           hi == IF c + m < Len(lay) THEN c + m ELSE Len(lay)
           end == c + Len(page)
<1>1. lay \in Seq(Fields)  BY CommandTables DEF Handles
<1>2. /\ walk.at \in SUBSET Handles /\ walk.got \in Seq(Fields) /\ c \in Nat  BY DEF WalkIs
<1>3. page = SubSeq(lay, c + 1, hi)  OBVIOUS
<1> HIDE DEF lay
<1>4. Len(lay) \in Nat /\ \A i \in 1..Len(lay) : lay[i] \in Fields  BY <1>1, LenProperties, ElementOfSeq
<1> HIDE DEF c
<1>5. hi \in Nat /\ hi <= Len(lay) /\ c + 1 \in Nat /\ c + 1 \in Int /\ hi \in Int
  BY <1>2, <1>4, PageBound
<1>6. (c <= Len(lay) => c <= hi /\ hi \in c..Len(lay))  BY <1>2, <1>4, PageBound
<1> HIDE DEF hi
<1>7. /\ page \in Seq(Fields) /\ Len(page) = IF c + 1 <= hi THEN hi - (c + 1) + 1 ELSE 0
  <2> DEFINE a == c + 1
  <2>1. a \in Int /\ hi \in Int /\ \A i \in a..hi : lay[i] \in Fields  BY <1>2, <1>4, <1>5
  <2>2. page = SubSeq(lay, a, hi)  BY <1>3
  <2> HIDE DEF a
  <2>3. SubSeq(lay, a, hi) \in Seq(Fields) /\ Len(SubSeq(lay, a, hi)) = IF a <= hi THEN hi - a + 1 ELSE 0
    BY <2>1, SubSeqProperties
  <2>4. page \in Seq(Fields) /\ Len(page) = IF a <= hi THEN hi - a + 1 ELSE 0  BY <2>2, <2>3
  <2>5. QED  BY <2>4 DEF a
<1>8. end \in Nat /\ (c <= Len(lay) => end = hi)
  <2> DEFINE n == Len(page)
  <2>1. n = IF c + 1 <= hi THEN hi - (c + 1) + 1 ELSE 0  BY <1>7
  <2>2. end = c + n  OBVIOUS
  <2> HIDE DEF n, end
  <2>3. QED  BY <1>2, <1>4, <1>5, <1>6, <2>1, <2>2
<1>9. /\ walk'.at = walk.at \cup {t} /\ walk'.got = walk.got \o page /\ walk'.cursor = end
      /\ (~walk'.open => ~(end < Len(lay)))
  BY DEF lay, c
<1>10. walk.got \o page \in Seq(Fields)  BY <1>2, <1>7, ConcatProperties
<1> HIDE DEF end
<1>11. /\ walk'.at = walk.at \cup {t} /\ walk'.got = walk.got \o page /\ walk'.cursor = end
       /\ (~walk'.open => ~(end < Len(lay)))
       /\ walk'.at \in SUBSET Handles /\ walk'.got \in Seq(Fields) /\ walk'.cursor \in Nat
  BY <1>2, <1>8, <1>9, <1>10
<1>12. ASSUME NEW u \in Handles, walk'.at = {u}
       PROVE  /\ walk'.cursor <= Len(Signals[u[2]]) /\ walk'.got = SubSeq(Signals[u[2]], 1, walk'.cursor)
              /\ ~walk'.open => walk'.cursor = Len(Signals[u[2]])
  <2>1. u = t /\ (walk.at = {} \/ walk.at = {t})  BY <1>11, <1>12
  <2>2. c <= Len(lay) /\ walk.got = SubSeq(lay, 1, c)
    <3>1. CASE walk.at = {}
      <4>1. walk.got = <<>> /\ c = 0  BY <3>1 DEF WalkIs, c
      <4>2. SubSeq(lay, 1, 0) = <<>>  BY SubSeqEmpty
      <4>3. QED  BY <1>4, <4>1, <4>2
    <3>2. CASE walk.at = {t}  BY <3>2 DEF WalkIs, c, lay
    <3>3. QED  BY <2>1, <3>1, <3>2
  <2>3. end = hi /\ hi \in c..Len(lay)  BY <1>6, <1>8, <2>2
  <2>4. walk.got \o page = SubSeq(lay, 1, hi)
    <3>1. 1 \in 1..(Len(lay) + 1) /\ c \in (1 - 1)..Len(lay)  BY <1>2, <1>4, <2>2
    <3>2. SubSeq(lay, 1, c) \o SubSeq(lay, c + 1, hi) = SubSeq(lay, 1, hi)
      BY <1>1, <2>3, <3>1, ConcatAdjacentSubSeq
    <3>3. QED  BY <1>3, <2>2, <3>2
  <2>5. ~(end < Len(lay)) => end = Len(lay)  BY <1>4, <1>5, <2>3
  <2>6. QED  BY <1>4, <1>5, <1>11, <2>1, <2>3, <2>4, <2>5 DEF lay
<1>13. walk'.at # {}  BY <1>11
<1>14. WalkIs'  BY <1>11, <1>12, <1>13 DEF WalkIs
<1>15. QED  BY <1>7, <1>14

\* A prefix and one element of a list; without repetitions, if it has none.
LEMMA DistinctParts ==
    ASSUME NEW S, NEW q \in Seq(S), NEW m \in Nat
    PROVE  /\ LET p == SubSeq(q, 1, IF m < Len(q) THEN m ELSE Len(q)) IN p \in Seq(S) /\ (Distinct(q) => Distinct(p))
           /\ \A k \in DOMAIN q : <<q[k]>> \in Seq(S) /\ Distinct(<<q[k]>>)
<1> DEFINE n == IF m < Len(q) THEN m ELSE Len(q)
           p == SubSeq(q, 1, n)
<1>1. Len(q) \in Nat /\ DOMAIN q = 1..Len(q) /\ \A i \in 1..Len(q) : q[i] \in S  BY LenProperties, ElementOfSeq
<1>2. n \in Nat /\ n <= Len(q) /\ n \in Int /\ 1 \in Int  BY <1>1
<1> HIDE DEF n
<1>3. /\ p \in Seq(S) /\ Len(p) = (IF 1 <= n THEN n - 1 + 1 ELSE 0) /\ \A i \in 1..(n - 1 + 1) : p[i] = q[1 + i - 1]
  <2>1. \A i \in 1..n : q[i] \in S  BY <1>1, <1>2
  <2>2. QED  BY <1>2, <2>1, SubSeqProperties
<1> HIDE DEF p
<1>4. DOMAIN p = 1..n /\ \A i \in 1..n : p[i] = q[i] /\ i \in DOMAIN q
  <2>1. Len(p) = n /\ DOMAIN p = 1..Len(p)  BY <1>2, <1>3, LenProperties
  <2>2. QED  BY <1>1, <1>2, <1>3, <2>1
<1>5. Distinct(q) => Distinct(p)  BY <1>4 DEF Distinct
<1>6. ASSUME NEW k \in DOMAIN q PROVE <<q[k]>> \in Seq(S) /\ Distinct(<<q[k]>>)
  <2>1. q[k] \in S  BY <1>1
  <2>2. QED  BY <2>1 DEF Distinct
<1>7. QED  BY <1>3, <1>5, <1>6 DEF p, n

\* The reply of a hierarchical browse.
LEMMA TreeReplied ==
    ASSUME CommandInv, Busy, cmd.verb = "sb/browse ref", NEW q \in Seq(Outcomes), cmd.again = 0 => Distinct(q),
           Command!TreeReply(q),
           request'.op = "none", UNCHANGED <<reg, landed, audit, walk>>
    PROVE  CommandInv'
<1>1. cmd \in CmdType /\ Command!WritesPermitted /\ WalkIs  BY DEF CommandInv, CommandTypes
<1>2. cmd.max \in Nat  BY <1>1 DEF CmdType
<1>3. Command!WritesPermitted' /\ WalkIs'  BY <1>1 DEF Command!WritesPermitted, WalkIs
<1>4. ASSUME NEW rs \in Seq(Outcomes), cmd.again = 0 => Distinct(rs), Command!AnswerWith("OK", rs) PROVE CommandInv'
  <2> DEFINE code == "OK"
  <2>1. code \in Codes /\ cmd' = [cmd EXCEPT !.pc = "done", !.code = code, !.results = rs]
    BY <1>4 DEF Command!AnswerWith, Codes
  <2> HIDE DEF code
  <2>2. QED  BY <1>3, <1>4, <2>1, Finished
<1>5. CASE Command!Answer("BAD_ARGS")
  <2> DEFINE code == "BAD_ARGS"
  <2>1. code \in Codes /\ Command!Answer(code)  BY <1>5 DEF Codes
  <2> HIDE DEF code
  <2>2. QED  BY <1>3, <2>1, Answered
<1>6. QED  BY <1>2, <1>4, <1>5, DistinctParts DEF Command!TreeReply

\* A command other than a write is answered with a code.
LEMMA Told ==
    ASSUME CommandInv, Busy, cmd.verb # "sb/write", NEW code \in Codes, Command!Answer(code),
           request'.op = "none", UNCHANGED <<reg, landed, audit, walk>>
    PROVE  CommandInv'
<1>1. Command!WritesPermitted'  BY DEF CommandInv, Command!WritesPermitted
<1>2. QED  BY <1>1, Answered

\* A read or a listing is answered with its entries.
LEMMA Listed ==
    ASSUME CommandInv, Busy, cmd.verb \notin {"sb/write", "sb/browse ref"}, NEW rs \in Seq(Outcomes),
           Command!AnswerWith("OK", rs), request'.op = "none", UNCHANGED <<reg, landed, audit>>, WalkIs'
    PROVE  CommandInv'
<1> DEFINE code == "OK"
<1>1. code \in Codes /\ cmd' = [cmd EXCEPT !.pc = "done", !.code = code, !.results = rs]
  BY DEF Command!AnswerWith, Codes
<1>2. Command!WritesPermitted'  BY DEF CommandInv, Command!WritesPermitted
<1> HIDE DEF code
<1>3. QED  BY <1>1, <1>2, Finished

\* A table over the places of a list is a list.
LEMMA TableIsList ==
    ASSUME NEW S, NEW q \in Seq(S), NEW T, NEW f \in [DOMAIN q -> T]
    PROVE  f \in Seq(T)
<1>1. Len(q) \in Nat /\ DOMAIN q = 1..Len(q)  BY LenProperties
<1>2. QED  BY <1>1, SeqDef

\* sb/status and sb/signals.
LEMMA ViewSteps ==
    ASSUME CommandInv, Command!Status \/ Command!SignalsView
    PROVE  CommandInv'
<1>1. CASE Command!Status
  <2> DEFINE code == "OK"
  <2>1. /\ cmd.pc = "run" /\ cmd.verb = "sb/status" /\ Command!Answer(code) /\ code \in Codes
        /\ UNCHANGED <<reg, landed, request, audit, walk>>
    BY <1>1 DEF Command!Status, Command!At, Command!Quiet, Codes
  <2> HIDE DEF code
  <2>2. request'.op = "none" /\ Busy  BY <2>1, RunningHoldsNone
  <2>3. QED  BY <2>1, <2>2, Told
<1>2. CASE Command!SignalsView
  <2> DEFINE q == Signals[cmd.at[2]]
             rs == [k \in DOMAIN q |-> Command!permits(q[k])]
  <2>1. /\ cmd.pc = "run" /\ cmd.verb = "sb/signals" /\ Command!AnswerWith("OK", rs)
        /\ UNCHANGED <<reg, landed, request, audit, walk>>
    BY <1>2 DEF Command!SignalsView, Command!At, Command!Quiet
  <2>2. request'.op = "none" /\ Busy /\ cmd.at \in Handles  BY <2>1, RunningHoldsNone
  <2>3. q \in Seq(Fields)  BY <2>2, CommandTables DEF Handles
  <2>4. rs \in [DOMAIN q -> BOOLEAN]  BY DEF Command!permits
  <2> HIDE DEF q, rs
  <2>5. rs \in Seq(BOOLEAN)  BY <2>3, <2>4, TableIsList
  <2>6. BOOLEAN \subseteq Outcomes  BY DEF Outcomes
  <2>7. rs \in Seq(Outcomes)  BY <2>5, <2>6, SeqMonotonic
  <2>8. WalkIs'  BY <2>1 DEF CommandInv, WalkIs
  <2>9. QED  BY <2>1, <2>2, <2>7, <2>8, Listed
<1>3. QED  BY <1>1, <1>2

\* sb/read: refused, answered without the device, or asked of it.
LEMMA ReadStep ==
    ASSUME CommandInv, Command!Read
    PROVE  CommandInv'
<1> DEFINE refs == [k \in DOMAIN cmd.args |-> Command!resolve_poll_ref(cmd.at, cmd.args[k])]
           rs == [k \in DOMAIN cmd.args |-> "UNRESOLVED_REF"]
<1>1. /\ cmd.pc = "run" /\ cmd.verb = "sb/read" /\ UNCHANGED <<reg, landed, audit, walk>>
      /\ \/ Command!Ask("Snapshot")
         \/ Command!Answer("BAD_ARGS") /\ UNCHANGED request
         \/ Command!Ask("ReadNow")
         \/ Command!AnswerWith("OK", [k \in DOMAIN refs |-> "UNRESOLVED_REF"]) /\ UNCHANGED request
  BY DEF Command!Read, Command!At, Command!Quiet
<1>2. DOMAIN refs = DOMAIN cmd.args  OBVIOUS
<1>3. request.op = "none" /\ Busy /\ cmd.args \in Seq(Entries) /\ WalkIs
  BY <1>1, RunningHoldsNone DEF CommandInv, CommandTypes
<1> HIDE DEF refs
<1>4. WalkIs'  BY <1>1, <1>3 DEF WalkIs
<1>5. ASSUME NEW s \in {"Snapshot", "ReadNow"}, Command!Ask(s) PROVE CommandInv'
  BY <1>1, <1>5, Asked
<1>6. CASE Command!Answer("BAD_ARGS") /\ UNCHANGED request
  <2> DEFINE code == "BAD_ARGS"
  <2>1. Command!Answer(code) /\ code \in Codes /\ request'.op = "none"  BY <1>3, <1>6 DEF Codes
  <2> HIDE DEF code
  <2>2. QED  BY <1>1, <1>3, <2>1, Told
<1>7. CASE Command!AnswerWith("OK", [k \in DOMAIN refs |-> "UNRESOLVED_REF"]) /\ UNCHANGED request
  <2>1. Command!AnswerWith("OK", rs) /\ request'.op = "none"  BY <1>2, <1>3, <1>7
  <2>2. rs \in [DOMAIN cmd.args -> Outcomes]  BY DEF Outcomes
  <2> HIDE DEF rs
  <2>3. rs \in Seq(Outcomes)  BY <1>3, <2>2, TableIsList
  <2>4. QED  BY <1>1, <1>3, <1>4, <2>1, <2>3, Listed
<1>8. QED  BY <1>1, <1>5, <1>6, <1>7

\* pause, resume, reconnect and repoll.
LEMMA ControlSteps ==
    ASSUME CommandInv, Command!Control \/ Command!Repoll
    PROVE  CommandInv'
<1>1. CASE Command!Control
  <2>1. PICK v \in {"sb/pause", "sb/resume", "reconnect"} :
            cmd.pc = "run" /\ cmd.verb = v /\ Command!Ask(v) /\ UNCHANGED <<reg, landed, audit, walk>>
    BY <1>1 DEF Command!Control, Command!At, Command!Quiet
  <2>2. v \notin {"none", "Write", "BrowseAll", "ReadNow", "Snapshot", "sb/write", "sb/browse ref", "sb/read"}  OBVIOUS
  <2>3. QED  BY <2>1, <2>2, Asked
<1>2. CASE Command!Repoll
  <2>1. /\ cmd.pc = "run" /\ cmd.verb = "repoll" /\ UNCHANGED <<reg, landed, audit, walk>>
        /\ \/ \E code \in {"BAD_ARGS", "PAUSED"} : Command!Answer(code) /\ UNCHANGED request
           \/ Command!Ask("Repoll")
    BY <1>2 DEF Command!Repoll, Command!At, Command!Quiet
  <2>2. request.op = "none" /\ Busy  BY <2>1, RunningHoldsNone
  <2>3. ASSUME NEW code \in {"BAD_ARGS", "PAUSED"}, Command!Answer(code), UNCHANGED request PROVE CommandInv'
    <3>1. code \in Codes /\ request'.op = "none"  BY <2>2, <2>3 DEF Codes
    <3>2. QED  BY <2>1, <2>2, <2>3, <3>1, Told
  <2>4. CASE Command!Ask("Repoll")
    <3> DEFINE q == "Repoll"
    <3>1. q \notin {"none", "Write", "BrowseAll", "ReadNow", "Snapshot"} /\ Command!Ask(q)  BY <2>4
    <3> HIDE DEF q
    <3>2. cmd.verb \notin {"sb/write", "sb/browse ref", "sb/read"}  BY <2>1
    <3>3. QED  BY <2>1, <3>1, <3>2, Asked
  <2>5. QED  BY <2>1, <2>3, <2>4
<1>3. QED  BY <1>1, <1>2

\* The form of a browse is decided.
LEMMA BrowseFormStep ==
    ASSUME CommandInv, Command!BrowseForm
    PROVE  CommandInv'
<1> DEFINE f == Command!browse_form(cmd.args)
<1>1. /\ cmd.pc = "run" /\ cmd.verb = "sb/browse any" /\ UNCHANGED <<reg, landed, request, audit, walk>>
      /\ IF f = "BAD_ARGS" THEN Command!Answer(f) ELSE cmd' = [cmd EXCEPT !.verb = f]
  BY DEF Command!BrowseForm, Command!At, Command!Quiet
<1>2. f \in {"BAD_ARGS", "sb/browse ref", "sb/browse"}
  <2> DEFINE keys == cmd.args
             tree == keys \cap {"ref", "depth", "maxRefs"} # {}
             paged == keys \cap {"cursor", "max"} # {}
  <2>1. f = CASE tree /\ paged -> "BAD_ARGS"
              [] tree /\ ~paged /\ "ref" \notin keys -> "BAD_ARGS"
              [] "ref" \in keys /\ ~paged -> "sb/browse ref"
              [] OTHER -> "sb/browse"
    BY DEF Command!browse_form
  <2>2. tree \in BOOLEAN /\ paged \in BOOLEAN  OBVIOUS
  <2> HIDE DEF keys, tree, paged, f
  <2>3. CASE tree /\ paged  BY <2>1, <2>3
  <2>4. CASE tree /\ ~paged /\ "ref" \notin keys  BY <2>1, <2>4
  <2>5. CASE "ref" \in keys /\ ~paged  BY <2>1, <2>5
  <2>6. CASE ~(tree /\ paged) /\ ~(tree /\ ~paged /\ "ref" \notin keys) /\ ~("ref" \in keys /\ ~paged)
    BY <2>1, <2>6
  <2>7. QED  BY <2>3, <2>4, <2>5, <2>6
<1> HIDE DEF f
<1>3. request.op = "none" /\ Busy /\ cmd.at \in Handles /\ cmd \in CmdType /\ cmd.results = <<>>
  BY <1>1, RunningHoldsNone DEF CommandInv, CommandTypes, TreeIs
<1>4. CASE f = "BAD_ARGS"
  <2>1. f \in Codes /\ Command!Answer(f) /\ request'.op = "none" /\ cmd.verb # "sb/write"
    BY <1>1, <1>3, <1>4 DEF Codes
  <2>2. QED  BY <1>1, <1>3, <2>1, Told
<1>5. CASE f \in {"sb/browse ref", "sb/browse"}
  <2>1. f \in Verbs /\ cmd' = [cmd EXCEPT !.verb = f]  BY <1>1, <1>5 DEF Verbs
  <2>2. /\ cmd' \in CmdType /\ cmd'.pc = "run" /\ cmd'.verb = f /\ cmd'.at = cmd.at /\ cmd'.results = <<>>
        /\ cmd'.tree = cmd.tree /\ cmd'.again = cmd.again /\ cmd'.start = cmd.start
    BY <1>1, <1>3, <2>1 DEF CmdType
  <2>3. f # "sb/read" /\ f # "sb/write"  BY <1>5
  <2>4. CommandTypes' /\ RequestIs' /\ WriteIs'
    BY <1>1, <1>3, <2>2, <2>3 DEF CommandInv, CommandTypes, RequestIs, WriteIs, Busy
  <2>5. TreeIs'
    <3>1. /\ cmd.again = 0 => Distinct(cmd.tree) /\ \A k \in 1..Len(cmd.tree) : cmd.tree[k] <= cmd.start
      BY DEF CommandInv, TreeIs
    <3>2. /\ cmd'.again = 0 => Distinct(cmd'.tree) /\ \A k \in 1..Len(cmd'.tree) : cmd'.tree[k] <= cmd'.start
      BY <2>2, <3>1
    <3>3. DOMAIN <<>> = {}  OBVIOUS
    <3>4. Distinct(cmd'.results) /\ cmd'.results = <<>>  BY <2>2, <3>3 DEF Distinct
    <3>5. QED  BY <3>2, <3>4 DEF TreeIs
  <2>6. WalkIs' /\ Command!WritesPermitted' /\ Command!ReplyTruthful'
    BY <1>1, <2>2 DEF CommandInv, WalkIs, Command!WritesPermitted, Command!ReplyTruthful
  <2>7. QED  BY <2>4, <2>5, <2>6 DEF CommandInv
<1>6. QED  BY <1>2, <1>4, <1>5

\* A page: of the layout on push, asked of the device on poll.
LEMMA BrowseStep ==
    ASSUME CommandInv, Command!Browse
    PROVE  CommandInv'
<1> DEFINE t == cmd.at
           lay == Signals[t[2]]
           page == SubSeq(lay, walk.cursor + 1,
                          IF walk.cursor + cmd.max < Len(lay) THEN walk.cursor + cmd.max ELSE Len(lay))
<1>1. /\ cmd.pc = "run" /\ cmd.verb = "sb/browse" /\ UNCHANGED <<reg, landed, audit>>
      /\ \/ Command!Ask("Browse") /\ UNCHANGED walk
         \/ /\ Command!AnswerWith("OK", page) /\ UNCHANGED request
            /\ walk' = [at |-> walk.at \cup {t}, got |-> walk.got \o page, cursor |-> walk.cursor + Len(page),
                        open |-> walk.cursor + Len(page) < Len(lay)]
  BY DEF Command!Browse, Command!At, Command!Quiet, Command!PageEnd
<1>2. request.op = "none" /\ Busy /\ t \in Handles /\ cmd \in CmdType /\ WalkIs
  BY <1>1, RunningHoldsNone DEF CommandInv, CommandTypes
<1>3. CASE Command!Ask("Browse") /\ UNCHANGED walk
  <2> DEFINE q == "Browse"
  <2>1. q \notin {"none", "Write", "BrowseAll", "ReadNow", "Snapshot"} /\ Command!Ask(q)  BY <1>3
  <2> HIDE DEF q
  <2>2. cmd.verb \notin {"sb/write", "sb/browse ref", "sb/read"}  BY <1>1
  <2>3. QED  BY <1>1, <1>3, <2>1, <2>2, Asked
<1>4. ASSUME Command!AnswerWith("OK", page), UNCHANGED request,
             walk' = [at |-> walk.at \cup {t}, got |-> walk.got \o page, cursor |-> walk.cursor + Len(page),
                      open |-> walk.cursor + Len(page) < Len(lay)]
      PROVE  CommandInv'
  <2> DEFINE m == cmd.max
             A == walk.at \cup {t}
             G == walk.got \o page
             e == walk.cursor + Len(page)
             n == Len(lay)
  <2>1. m \in Nat  BY <1>2 DEF CmdType
  <2>2. walk' = [at |-> A, got |-> G, cursor |-> e, open |-> e < n]  BY <1>4
  <2> HIDE DEF A, G, e, n
  <2>3. walk'.at = A /\ walk'.got = G /\ walk'.cursor = e /\ (~walk'.open => ~(e < n))
    BY ONLY <2>2, WalkRecord
  <2>4. /\ walk'.at = walk.at \cup {t} /\ walk'.got = walk.got \o page /\ walk'.cursor = walk.cursor + Len(page)
        /\ (~walk'.open => ~(walk.cursor + Len(page) < Len(Signals[t[2]])))
    BY <2>3 DEF A, G, e, n
  <2>5. page = SubSeq(Signals[t[2]], walk.cursor + 1,
                      IF walk.cursor + m < Len(Signals[t[2]]) THEN walk.cursor + m ELSE Len(Signals[t[2]]))
    OBVIOUS
  <2>6. Command!AnswerWith("OK", page)  BY <1>4
  <2> HIDE DEF page, lay, m, t
  <2>7. WalkIs' /\ page \in Seq(Fields)  BY <1>2, <2>1, <2>4, <2>5, WalkStep
  <2>8. Fields \subseteq Outcomes  BY DEF Outcomes
  <2>9. page \in Seq(Outcomes)  BY <2>7, <2>8, SeqMonotonic
  <2>10. request'.op = "none" /\ cmd.verb \notin {"sb/write", "sb/browse ref"}  BY <1>1, <1>2, <1>4
  <2>11. QED  BY <1>1, <1>2, <2>6, <2>7, <2>9, <2>10, Listed
<1>5. QED  BY <1>1, <1>3, <1>4

\* A hierarchical browse asks for its next page, gives up, or has its layout.
LEMMA TreeStep ==
    ASSUME CommandInv, Command!Tree
    PROVE  CommandInv'
<1> DEFINE q == Signals[cmd.at[2]]
<1>1. /\ cmd.pc = "run" /\ cmd.verb = "sb/browse ref" /\ UNCHANGED <<reg, landed, audit, walk>>
      /\ \/ Command!TreeReply(q) /\ UNCHANGED request
         \/ \E code \in {"BROWSE_FAILED", "DEVICE_UNAVAILABLE"} : Command!Answer(code) /\ UNCHANGED request
         \/ /\ request' = [op |-> "BrowseAll", to |-> cmd.at]
            /\ cmd' = [cmd EXCEPT !.pc = "wait", !.pages = @ + 1]
  BY DEF Command!Tree, Command!At, Command!Quiet
<1>2. request.op = "none" /\ Busy /\ cmd.at \in Handles /\ cmd \in CmdType
  BY <1>1, RunningHoldsNone DEF CommandInv, CommandTypes
<1>3. CASE Command!TreeReply(q) /\ UNCHANGED request
  <2>1. q \in Seq(Fields) /\ Distinct(q)  BY <1>2, CommandTables DEF Handles
  <2>2. Command!TreeReply(q) /\ request'.op = "none"  BY <1>2, <1>3
  <2> HIDE DEF q
  <2>3. Fields \subseteq Outcomes  BY DEF Outcomes
  <2>4. q \in Seq(Outcomes)  BY <2>1, <2>3, SeqMonotonic
  <2>5. QED  BY <1>1, <1>2, <2>1, <2>2, <2>4, TreeReplied
<1>4. ASSUME NEW code \in {"BROWSE_FAILED", "DEVICE_UNAVAILABLE"}, Command!Answer(code), UNCHANGED request
      PROVE  CommandInv'
  <2>1. code \in Codes /\ request'.op = "none" /\ cmd.verb # "sb/write"  BY <1>1, <1>2, <1>4 DEF Codes
  <2>2. QED  BY <1>1, <1>2, <1>4, <2>1, Told
<1>5. CASE /\ request' = [op |-> "BrowseAll", to |-> cmd.at]
           /\ cmd' = [cmd EXCEPT !.pc = "wait", !.pages = @ + 1]
  <2> DEFINE p == cmd.pages + 1
  <2>1. p \in Nat /\ cmd' = [cmd EXCEPT !.pc = "wait", !.pages = p]  BY <1>2, <1>5 DEF CmdType
  <2> HIDE DEF p
  <2>2. request'.op = "BrowseAll" /\ request'.to = cmd.at  BY <1>5
  <2>3. QED  BY <1>1, <2>1, <2>2, Sent
<1>6. QED  BY <1>1, <1>3, <1>4, <1>5

\* The task answers a read.
LEMMA ReadAnswerStep ==
    ASSUME CommandInv, Command!ReadAnswer
    PROVE  CommandInv'
<1>1. /\ cmd.pc = "wait" /\ request.op \in {"ReadNow", "Snapshot"} /\ request'.op = "none"
      /\ UNCHANGED <<reg, landed, audit, walk>>
      /\ \/ \E have \in {Fields, {}}, missing \in {"NO_FRAME", "NO_DATA"} :
               Command!AnswerWith("OK", Command!ReadEntries(have, missing))
         \/ Command!Answer("READ_FAILED")
  BY DEF Command!ReadAnswer, Command!Serving, Command!Served, Command!NoRequest
<1>2. Busy /\ cmd.verb = "sb/read" /\ cmd.args \in Seq(Entries) /\ WalkIs
  BY <1>1 DEF CommandInv, RequestIs, CommandTypes, Busy
<1>3. ASSUME NEW have \in {Fields, {}}, NEW missing \in {"NO_FRAME", "NO_DATA"},
             Command!AnswerWith("OK", Command!ReadEntries(have, missing))
      PROVE  CommandInv'
  <2> DEFINE rs == Command!ReadEntries(have, missing)
  <2>1. rs \in [DOMAIN cmd.args -> Outcomes]
    <3>1. "UNRESOLVED_REF" \in Outcomes /\ "value" \in Outcomes /\ missing \in Outcomes  BY DEF Outcomes
    <3>2. QED  BY <3>1 DEF Command!ReadEntries
  <2>2. Command!AnswerWith("OK", rs) /\ WalkIs'  BY <1>1, <1>2, <1>3 DEF WalkIs
  <2> HIDE DEF rs
  <2>3. rs \in Seq(Outcomes)  BY <1>2, <2>1, TableIsList
  <2>4. cmd.verb \notin {"sb/write", "sb/browse ref"}  BY <1>2
  <2>5. QED  BY <1>1, <1>2, <2>2, <2>3, <2>4, Listed
<1>4. CASE Command!Answer("READ_FAILED")
  <2> DEFINE code == "READ_FAILED"
  <2>1. Command!Answer(code) /\ code \in Codes /\ cmd.verb # "sb/write"  BY <1>2, <1>4 DEF Codes
  <2> HIDE DEF code
  <2>2. QED  BY <1>1, <1>2, <2>1, Told
<1>5. QED  BY <1>1, <1>3, <1>4

\* The task answers a page of a device's tag list, or a control request.
LEMMA PlainAnswerSteps ==
    ASSUME CommandInv, Command!BrowseAnswer \/ Command!ControlAnswer
    PROVE  CommandInv'
<1>1. /\ cmd.pc = "wait" /\ request.op \in {"Browse", "sb/pause", "sb/resume", "reconnect", "Repoll"}
      /\ request'.op = "none" /\ UNCHANGED <<reg, landed, audit, walk>>
      /\ \E code \in {"OK", "BROWSE_UNSUPPORTED", "BROWSE_FAILED", "RECONNECT_FAILED", "PAUSED", "DEVICE_UNAVAILABLE"} :
            Command!Answer(code)
  BY DEF Command!BrowseAnswer, Command!ControlAnswer, Command!Serving, Command!Served, Command!NoRequest
<1>2. Busy /\ cmd.verb # "sb/write"  BY <1>1 DEF CommandInv, RequestIs, Busy
<1>3. PICK code \in {"OK", "BROWSE_UNSUPPORTED", "BROWSE_FAILED", "RECONNECT_FAILED", "PAUSED", "DEVICE_UNAVAILABLE"} :
            Command!Answer(code)
  BY <1>1
<1>4. code \in Codes  BY DEF Codes
<1>5. QED  BY <1>1, <1>2, <1>3, <1>4, Told

\* The symbols of a walk with the next page: still one each, and none past the
\* end of the page.
LEMMA TreeGrows ==
    ASSUME NEW q \in Seq(Nat), NEW s \in Nat, NEW n \in Nat
    PROVE  LET r == q \o Command!PageFrom(s, n)
           IN  /\ r \in Seq(Nat)
               /\ Distinct(q) /\ (\A k \in 1..Len(q) : q[k] <= s) =>
                     Distinct(r) /\ \A k \in 1..Len(r) : r[k] <= s + n
<1> DEFINE pg == [k \in 1..n |-> s + k]
           r == q \o pg
           m == Len(q)
<1>1. Command!PageFrom(s, n) = pg  BY DEF Command!PageFrom
<1>2. pg \in Seq(Nat) /\ Len(pg) = n /\ \A k \in 1..n : pg[k] = s + k
  <2>1. \A k \in 1..n : s + k \in Nat  OBVIOUS
  <2>2. pg \in [1..n -> Nat]  BY <2>1
  <2>3. pg \in Seq(Nat)  BY <2>2, SeqDef
  <2>4. QED  BY <2>2, <2>3, LenProperties
<1>3. m \in Nat /\ DOMAIN q = 1..m /\ \A k \in 1..m : q[k] \in Nat  BY LenProperties, ElementOfSeq
<1> HIDE DEF pg
<1>4. /\ r \in Seq(Nat) /\ Len(r) = m + n
      /\ (\A k \in 1..(m + n) : r[k] = IF k <= m THEN q[k] ELSE pg[k - m])
  BY <1>2, ConcatProperties
<1>5. DOMAIN r = 1..(m + n)  BY <1>4, LenProperties
<1> HIDE DEF r, m
<1>6. ASSUME Distinct(q), \A k \in 1..m : q[k] <= s
      PROVE  Distinct(r) /\ \A k \in 1..(m + n) : r[k] <= s + n
  <2>1. ASSUME NEW k \in 1..(m + n), k <= m PROVE r[k] = q[k] /\ k \in 1..m /\ r[k] \in Nat /\ r[k] <= s
    BY <1>3, <1>4, <1>6, <2>1
  <2>2. ASSUME NEW k \in 1..(m + n), ~(k <= m) PROVE r[k] = s + (k - m) /\ r[k] > s /\ r[k] <= s + n
    <3>1. k - m \in 1..n  BY <1>3, <2>2
    <3>2. r[k] = pg[k - m]  BY <1>4, <2>2
    <3>3. r[k] = s + (k - m)  BY <1>2, <3>1, <3>2
    <3>4. QED  BY <1>3, <3>1, <3>3
  <2>3. ASSUME NEW k \in 1..(m + n) PROVE r[k] <= s + n
    <3>1. CASE k <= m
      <4>1. r[k] \in Nat /\ r[k] <= s  BY <2>1, <3>1
      <4>2. QED  BY <4>1
    <3>2. CASE ~(k <= m)  BY <2>2, <3>2
    <3>3. QED  BY <3>1, <3>2
  <2>4. ASSUME NEW j \in 1..(m + n), NEW k \in 1..(m + n), r[j] = r[k] PROVE j = k
    <3>1. CASE j <= m /\ k <= m
      <4>1. j \in DOMAIN q /\ k \in DOMAIN q /\ q[j] = q[k]  BY <1>3, <2>1, <2>4, <3>1
      <4>2. QED  BY <1>6, <4>1 DEF Distinct
    <3>2. CASE ~(j <= m) /\ ~(k <= m)
      <4>1. s + (j - m) = s + (k - m)  BY <2>2, <2>4, <3>2
      <4>2. QED  BY <1>3, <4>1
    <3>3. CASE j <= m /\ ~(k <= m)
      <4>1. r[j] \in Nat /\ r[j] <= s /\ r[k] > s  BY <2>1, <2>2, <3>3
      <4>2. QED  BY <2>4, <4>1
    <3>4. CASE ~(j <= m) /\ k <= m
      <4>1. r[k] \in Nat /\ r[k] <= s /\ r[j] > s  BY <2>1, <2>2, <3>4
      <4>2. QED  BY <2>4, <4>1
    <3>5. QED  BY <3>1, <3>2, <3>3, <3>4
  <2>5. Distinct(r)  BY <1>5, <2>4 DEF Distinct
  <2>6. QED  BY <2>3, <2>5
<1>7. /\ r \in Seq(Nat)
      /\ Distinct(q) /\ (\A k \in 1..Len(q) : q[k] <= s) =>
            Distinct(r) /\ \A k \in 1..Len(r) : r[k] <= s + n
  BY <1>4, <1>6 DEF m
<1>8. QED  BY <1>1, <1>7 DEF r

\* The task answers a page of a hierarchical walk.
LEMMA TreeAnswerStep ==
    ASSUME CommandInv, Command!TreeAnswer
    PROVE  CommandInv'
<1>1. /\ cmd.pc = "wait" /\ request.op = "BrowseAll" /\ request'.op = "none" /\ UNCHANGED <<reg, landed, audit, walk>>
      /\ \/ \E n \in Command!PageSizes(cmd.start) :
               \E c \in {-2, 0, 1, Command!NextCursor(cmd.start, n)} : Command!TreePage(n, c)
         \/ \E code \in {"BROWSE_UNSUPPORTED", "BROWSE_FAILED"} : Command!Answer(code)
  BY DEF Command!TreeAnswer, Command!Serving, Command!Served, Command!NoRequest
<1>2. Busy /\ cmd.verb = "sb/browse ref" /\ cmd \in CmdType
  BY <1>1 DEF CommandInv, RequestIs, CommandTypes, Busy
<1>3. /\ cmd.tree \in Seq(Nat) /\ cmd.start \in Nat /\ cmd.again \in Nat /\ cmd.results = <<>> /\ Distinct(cmd.results)
      /\ cmd.again = 0 => Distinct(cmd.tree) /\ \A k \in 1..Len(cmd.tree) : cmd.tree[k] <= cmd.start
  <2>1. /\ cmd.tree \in Seq(Nat) /\ cmd.start \in Nat /\ cmd.again \in Nat  BY <1>2 DEF CmdType
  <2>2. cmd.results = <<>>  BY <1>2 DEF CommandInv, TreeIs
  <2>3. Distinct(<<>>)
    <3>1. DOMAIN <<>> = {}  OBVIOUS
    <3>2. QED  BY <3>1 DEF Distinct
  <2>4. QED  BY <2>1, <2>2, <2>3 DEF CommandInv, TreeIs
<1>4. ASSUME NEW code \in {"BROWSE_UNSUPPORTED", "BROWSE_FAILED"}, Command!Answer(code) PROVE CommandInv'
  <2>1. code \in Codes /\ cmd.verb # "sb/write"  BY <1>2 DEF Codes
  <2>2. QED  BY <1>1, <1>2, <1>4, <2>1, Told
<1>5. ASSUME NEW n \in Command!PageSizes(cmd.start), NEW c \in {-2, 0, 1, Command!NextCursor(cmd.start, n)},
             Command!TreePage(n, c)
      PROVE  CommandInv'
  <2> DEFINE r == cmd.tree \o Command!PageFrom(cmd.start, n)
             g == IF c < cmd.start + n THEN cmd.again + 1 ELSE cmd.again
             on == [cmd EXCEPT !.pc = "run", !.tree = r, !.start = c, !.again = IF c < cmd.start + n THEN @ + 1 ELSE @]
             goes == Command!Advances(c, cmd.start)
  <2>1. n \in Nat  BY CommandTables DEF Command!PageSizes
  <2>2. c \in Int /\ (c = -1 \/ c = -2 \/ c >= 0)  BY <1>3, <2>1 DEF Command!NextCursor
  <2>3. /\ r \in Seq(Nat)
        /\ cmd.again = 0 => Distinct(r) /\ \A k \in 1..Len(r) : r[k] <= cmd.start + n
    BY <1>3, <2>1, TreeGrows
  <2>4. /\ c = -1 => Command!TreeReply(r)
        /\ c = -2 \/ (c >= 0 /\ ~goes) => Command!Answer("BROWSE_FAILED")
        /\ c >= 0 /\ goes => cmd' = on
    <3>1. (CASE c = -1 -> Command!TreeReply(r)
             [] c = -2 \/ (c >= 0 /\ ~goes) -> Command!Answer("BROWSE_FAILED")
             [] c >= 0 /\ goes -> cmd' = on)
      BY <1>5 DEF Command!TreePage
    <3>2. goes \in BOOLEAN  BY DEF Command!Advances
    <3> HIDE DEF r, on, goes
    <3>3. CASE c = -1  BY <3>1, <3>3
    <3>4. CASE c = -2  BY <3>1, <3>4
    <3>5. CASE c >= 0 /\ goes
      <4>1. c # -1 /\ c # -2  BY <2>2, <3>5
      <4>2. cmd' = on  BY <3>1, <3>5, <4>1
      <4>3. QED  BY <3>5, <4>1, <4>2
    <3>6. CASE c >= 0 /\ ~goes
      <4>1. c # -1 /\ c # -2  BY <2>2, <3>6
      <4>2. Command!Answer("BROWSE_FAILED")  BY <3>1, <3>6, <4>1
      <4>3. QED  BY <3>6, <4>1, <4>2
    <3>7. QED  BY <2>2, <3>3, <3>4, <3>5, <3>6
  <2> HIDE DEF r, goes
  <2>5. CASE c = -1
    <3>1. Nat \subseteq Outcomes  BY DEF Outcomes
    <3>2. r \in Seq(Outcomes)  BY <2>3, <3>1, SeqMonotonic
    <3>3. QED  BY <1>1, <1>2, <2>3, <2>4, <2>5, <3>2, TreeReplied
  <2>6. CASE c = -2 \/ (c >= 0 /\ ~goes)  BY <1>4, <2>4, <2>6
  <2>7. CASE c >= 0 /\ goes
    <3>1. c \in Nat /\ g \in Nat /\ (g = 0 => cmd.again = 0 /\ cmd.start + n <= c)  BY <1>3, <2>1, <2>2, <2>7
    <3>2. cmd' = [cmd EXCEPT !.pc = "run", !.tree = r, !.start = c, !.again = g]
      BY <1>2, <2>4, <2>7 DEF CmdType
    <3> HIDE DEF g
    <3>3. /\ cmd' \in CmdType /\ cmd'.pc = "run" /\ cmd'.verb = "sb/browse ref" /\ cmd'.at = cmd.at
          /\ cmd'.results = cmd.results /\ cmd'.tree = r /\ cmd'.start = c /\ cmd'.again = g
      BY <1>2, <2>3, <3>1, <3>2 DEF CmdType
    <3>4. CommandTypes' /\ RequestIs' /\ WriteIs'
      BY <1>1, <1>2, <3>3 DEF CommandInv, CommandTypes, RequestIs, WriteIs, Busy
    <3>5. ASSUME g = 0, NEW k \in 1..Len(r) PROVE r[k] <= c
      <4>1. r[k] \in Nat /\ r[k] <= cmd.start + n  BY <2>3, <3>1, <3>5, ElementOfSeq
      <4>2. QED  BY <1>3, <2>1, <3>1, <3>5, <4>1
    <3>6. TreeIs'
      <4>1. cmd'.again = 0 => Distinct(cmd'.tree) /\ \A k \in 1..Len(cmd'.tree) : cmd'.tree[k] <= cmd'.start
        BY <2>3, <3>1, <3>3, <3>5
      <4>2. Distinct(cmd'.results) /\ cmd'.results = <<>>  BY <1>3, <3>3
      <4>3. QED  BY <4>1, <4>2 DEF TreeIs
    <3>7. WalkIs' /\ Command!WritesPermitted' /\ Command!ReplyTruthful'
      BY <1>1, <3>3 DEF CommandInv, WalkIs, Command!WritesPermitted, Command!ReplyTruthful
    <3>8. QED  BY <3>4, <3>6, <3>7 DEF CommandInv
  <2>8. QED  BY <2>2, <2>5, <2>6, <2>7
<1>6. QED  BY <1>1, <1>4, <1>5

\* The client's commands start with none.
LEMMA CommandStart ==
    ASSUME Command!Init
    PROVE  CommandInv
<1>1. /\ reg \in [Instances -> {0, 1}] /\ cmd = Command!Idle /\ request = Command!NoRequest /\ landed = {}
      /\ audit = <<>> /\ walk = Command!NoWalk
  BY DEF Command!Init, Command!None
<1>2. /\ cmd \in CmdType /\ cmd.pc = "idle" /\ cmd.verb = "none" /\ cmd.tree = <<>>
  <2> DEFINE nil == <<>>
  <2>1. "" \in Codes /\ "none" \in Verbs  BY DEF Codes, Verbs
  <2>2. /\ nil \in Handles \cup {<<>>} /\ nil \in Batches \cup BrowseKeys \cup {<<>>}
        /\ nil \in Seq(Outcomes) /\ nil \in Seq(Nat)
    OBVIOUS
  <2>3. cmd = [pc |-> "idle", verb |-> "none", at |-> nil, args |-> nil, max |-> 0, i |-> 1, results |-> nil,
               code |-> "", start |-> 0, pages |-> 0, tree |-> nil, again |-> 0] /\ nil = <<>>
    BY <1>1 DEF Command!Idle
  <2> HIDE DEF nil
  <2>4. cmd \in CmdType  BY <2>1, <2>2, <2>3 DEF CmdType
  <2>5. QED  BY <2>3, <2>4
<1>3. reg \in [Instances -> Gens \cup {0}] /\ audit \in Seq(BOOLEAN)  BY <1>1, CommandTables
<1>4. request.op = "none"  BY <1>1 DEF Command!NoRequest
<1>5. CommandTypes /\ RequestIs /\ WriteIs  BY <1>2, <1>3, <1>4 DEF CommandTypes, RequestIs, WriteIs, Busy
<1>6. TreeIs
  <2>1. Len(<<>>) = 0 /\ DOMAIN <<>> = {}  OBVIOUS
  <2>2. QED  BY <1>2, <2>1 DEF TreeIs, Distinct, Busy
<1>7. WalkIs
  <2>1. walk = [at |-> {}, got |-> <<>>, cursor |-> 0, open |-> FALSE]  BY <1>1 DEF Command!NoWalk
  <2>2. QED  BY <2>1 DEF WalkIs
<1>8. Command!WritesPermitted /\ Command!ReplyTruthful
  BY <1>1, <1>2 DEF Command!WritesPermitted, Command!ReplyTruthful
<1>9. QED  BY <1>5, <1>6, <1>7, <1>8 DEF CommandInv

\* Every step of the command surface keeps its invariant.
LEMMA CommandStep ==
    ASSUME CommandInv, [Command!Next]_(Command!vars)
    PROVE  CommandInv'
<1>1. CASE UNCHANGED Command!vars
  <2>1. UNCHANGED <<reg, cmd, request, landed, audit, walk>>  BY <1>1 DEF Command!vars
  <2>2. reg' \in [Instances -> Gens \cup {0}]  BY <2>1 DEF CommandInv, CommandTypes
  <2>3. QED  BY <2>1, <2>2, CommandElsewhere
<1>2. CASE Command!Next
  BY <1>2, ChangeSteps, ClientSteps, ViewSteps, ReadStep, WriteEntrySteps, BrowseFormStep, BrowseStep, TreeStep,
     ControlSteps, WriteAnswerSteps, ReadAnswerStep, TreeAnswerStep, PlainAnswerSteps
  DEF Command!Next
<1>3. QED  BY <1>1, <1>2

\* What the invariant is for.
LEMMA CommandsExact ==
    ASSUME CommandInv
    PROVE  Command!WritesPermitted /\ Command!ReplyTruthful /\ Command!WalksComplete
<1>1. ASSUME NEW t \in walk.at, walk.at = {t}, ~walk.open PROVE walk.got = Signals[t[2]]
  <2>1. t \in Handles /\ walk.cursor = Len(Signals[t[2]]) /\ walk.got = SubSeq(Signals[t[2]], 1, walk.cursor)
    BY <1>1 DEF CommandInv, WalkIs
  <2>2. Signals[t[2]] \in Seq(Fields)  BY <2>1, CommandTables DEF Handles
  <2>3. QED  BY <2>1, <2>2, SubSeqFull
<1>2. cmd.again = 0 =>
         Command!IsInjective(cmd.tree) /\ (cmd.verb = "sb/browse ref" => Command!IsInjective(cmd.results))
  BY DEF CommandInv, TreeIs, Distinct, Command!IsInjective
<1>3. Command!WalksComplete  BY <1>1, <1>2 DEF Command!WalksComplete
<1>4. QED  BY <1>3 DEF CommandInv

-----------------------------------------------------------------------------
(* The tag session *)

Storages == {"BOOL", "DWORD"}
Places == 0..(Bits - 1)
DeviceType == [storage : Storages, denom : {"bools", "words"}, bits : [Places -> BOOLEAN], symbols : SUBSET Symbols,
               startOnly : BOOLEAN]
ReadType == [kind : {"read"}, array : BOOLEAN, n : Counts, fragment : BOOLEAN, code : {"none"} \cup Storages,
             acc : Seq(BOOLEAN), asked : Nat]
WriteType == [kind : {"write"}, array : {TRUE}, n : Counts, value : BOOLEAN, sent : Nat, applied : SUBSET Nat]

TagTypes ==
    /\ device \in DeviceType /\ held \in [Places -> SUBSET BOOLEAN] /\ bad \in Nat /\ faults \in Nat

\* Units that the tag had, each at its place, since the operation began.
HeldUnits(units) ==
    units \in Seq(BOOLEAN) /\ Len(units) <= Bits /\ \A i \in 1..Len(units) : units[i] \in held[i - 1]

\* A read under way: what it has and what the device has now was held meanwhile.
ReadIs ==
    /\ op \in ReadType /\ (op.array \/ op.n = 1) /\ HeldUnits(op.acc)
    /\ op.asked = op.n \/ op.asked = Tag!packed_dword_count(op.n)
    /\ \A i \in Places : device.bits[i] \in held[i]

\* A write under way: the device applied what was sent.
TagWriteIs == op \in WriteType /\ op.sent <= op.n /\ op.applied = 0..(op.sent - 1)

GoodShape == res.quality = "good" => HeldUnits(res.value)

\* After a bad reading the session knows how the tag is stored, and the next
\* read asks for what the device will answer.
Converging ==
    Tag!CountsAnswered /\ faults = 0 =>
        /\ bad <= 1
        /\ bad = 1 => /\ observed = device.storage
                      /\ op.kind = "read" /\ op.array =>
                            op.asked = IF device.storage = "DWORD" THEN Tag!packed_dword_count(op.n) ELSE op.n

TagInv ==
    /\ TagTypes /\ (op.kind = "read" => ReadIs) /\ (op.kind = "write" => TagWriteIs)
    /\ GoodShape /\ Tag!GoodIsWhole /\ Tag!WrittenIsApplied /\ Converging

\* Division by the size of a word.
LEMMA Division ==
    ASSUME NEW a \in Nat, NEW V \in Nat, V > 0
    PROVE  a \div V \in Nat /\ a % V \in Nat /\ a % V < V /\ a = V * (a \div V) + (a % V)
<1>1. a \div V \in Nat  OBVIOUS
<1>2. a % V \in Nat /\ a % V < V  OBVIOUS
<1>3. a = V * (a \div V) + (a % V)  OBVIOUS
<1>4. QED  BY <1>1, <1>2, <1>3

\* Words and multiples of their size.
LEMMA WholeWords ==
    ASSUME NEW q \in Nat, NEW V \in Nat, V > 0
    PROVE  q * V \in Nat /\ (q * V) % V = 0 /\ (q * V) \div V = q /\ q <= q * V
<1>1. q * V \in Nat /\ (q * V) % V = 0 /\ (q * V) \div V = q  OBVIOUS
<1>2. q <= q * V  OBVIOUS
<1>3. QED  BY <1>1, <1>2

\* packed_dword_count: the words that n booleans need.
LEMMA PackedCount ==
    ASSUME NEW n \in Nat \ {0}
    PROVE  LET p == Tag!packed_dword_count(n)
           IN  p \in Nat \ {0} /\ p <= n /\ n <= p * W /\ p * W \in Nat /\ p * W <= n * W
<1> DEFINE a == n + W - 1
           p == a \div W
           r == a % W
           m == W * p
<1>1. W \in Nat /\ W > 0 /\ a \in Nat  BY TagSizes
<1>2. p \in Nat /\ r \in Nat /\ r < W /\ a = m + r  BY <1>1, Division
<1>3. m \in Nat /\ m = p * W  BY <1>1, <1>2
<1> HIDE DEF m, p, r
<1>4. n <= m /\ m < n + W  BY <1>1, <1>2, <1>3
<1>5. p # 0
  <2>1. p = 0 => p * W = 0  BY <1>1
  <2>2. QED  BY <1>3, <1>4, <2>1
<1>6. p <= n
  <2> SUFFICES ASSUME p > n PROVE FALSE  BY <1>2
  <2>1. n * W + W <= p * W  BY <1>1, <1>2
  <2>2. n <= n * W /\ n * W \in Nat  BY <1>1, WholeWords
  <2>3. QED  BY <1>1, <1>3, <1>4, <2>1, <2>2
<1>7. p * W <= n * W  BY <1>1, <1>2, <1>6
<1>8. Tag!packed_dword_count(n) = p  BY DEF Tag!packed_dword_count, p
<1>9. QED  BY <1>2, <1>3, <1>4, <1>5, <1>6, <1>7, <1>8

\* What the device sends of its tag, and what it asks of a fragment.
LEMMA UnitsHeld ==
    ASSUME TagInv, ReadIs, NEW from \in Nat, NEW to \in Nat, from <= to, to <= Bits
    PROVE  LET u == Tag!Units(from, to)
           IN  /\ u \in Seq(BOOLEAN) /\ Len(u) = to - from
               /\ \A i \in 1..(to - from) : u[i] \in held[from + i - 1]
<1> DEFINE n == to - from
           u == Tag!Units(from, to)
<1>1. n \in Nat /\ Bits \in Nat  BY TagSizes
<1>2. \A i \in 1..n : from + i - 1 \in Places  BY <1>1 DEF Places
<1>3. device.bits \in [Places -> BOOLEAN]  BY DEF TagInv, TagTypes, DeviceType
<1>4. u = [i \in 1..n |-> device.bits[from + i - 1]]  BY DEF Tag!Units
<1> HIDE DEF n, u
<1>5. u \in [1..n -> BOOLEAN]  BY <1>2, <1>3, <1>4
<1>6. u \in Seq(BOOLEAN) /\ Len(u) = n  BY <1>1, <1>5, SeqDef, LenProperties
<1>7. \A i \in 1..n : u[i] \in held[from + i - 1]  BY <1>2, <1>4 DEF ReadIs
<1>8. QED  BY <1>6, <1>7 DEF n, u

\* decode_reading: bad, or as many booleans as configured; and good when the
\* reply is the one the configured count asks for.
LEMMA Decoded ==
    ASSUME ReadIs, NEW ty \in Storages, NEW units \in Seq(BOOLEAN), Tag!Decodable(ty, units)
    PROVE  LET r == Tag!decode_reading(op, ty, units)
           IN  /\ r = Tag!Bad \/ (r = Tag!Good(units, op.n) /\ op.n <= Len(units))
               /\ ty = "BOOL" /\ Len(units) = op.n => r = Tag!Good(units, op.n)
               /\ ty = "DWORD" /\ op.array /\ Len(units) = Tag!packed_dword_count(op.n) * W => r = Tag!Good(units, op.n)
<1> DEFINE r == Tag!decode_reading(op, ty, units)
           n == op.n
           m == Len(units)
           p == Tag!packed_dword_count(n)
<1>1. n \in Nat \ {0} /\ n \in Nat /\ m \in Nat /\ W \in Nat /\ W > 0
  <2>1. n \in Counts  BY DEF ReadIs, ReadType
  <2>2. m \in Nat  BY LenProperties
  <2> HIDE DEF n, m
  <2>3. QED  BY <2>1, <2>2, TagSizes
<1>2. p \in Nat \ {0} /\ n <= p * W  BY <1>1, PackedCount
<1>3. CASE op.array /\ ty = "DWORD"
  <2>1. r = IF m \div W # p THEN Tag!Bad ELSE Tag!Good(units, n)
    BY <1>3 DEF Tag!decode_reading, Tag!is_bool_array, Tag!unpack_bools, Tag!Elements, Tag!element_size
  <2>2. m % W = 0  BY <1>3 DEF Tag!Decodable, Tag!element_size
  <2> DEFINE q == m \div W
             k == q * W
  <2>3. q \in Nat /\ m = k
    <3>1. q \in Nat /\ m = W * q + (m % W)  BY <1>1, Division
    <3>2. W * q = k /\ k \in Nat  BY <1>1, <3>1
    <3>3. QED  BY <2>2, <3>1, <3>2
  <2>4. m = p * W => q = p  BY <1>1, <1>2, WholeWords
  <2>5. q = p => n <= m  BY <1>2, <2>3
  <2> HIDE DEF r, n, m, p, q, k
  <2>6. QED  BY <1>3, <2>1, <2>4, <2>5 DEF r, n, m, p, q
<1>4. CASE ~(op.array /\ ty = "DWORD")
  <2>1. r = IF ty # "BOOL" \/ m # n THEN Tag!Bad ELSE Tag!Good(units, n)
    BY <1>4 DEF Tag!decode_reading, Tag!is_bool_array
  <2> HIDE DEF r, n, m
  <2>2. QED  BY <1>1, <1>4, <2>1 DEF r, n, m
<1>5. QED  BY <1>3, <1>4

\* The first elements of a list.
LEMMA PrefixOf ==
    ASSUME NEW S, NEW q \in Seq(S), NEW n \in Nat, n <= Len(q)
    PROVE  SubSeq(q, 1, n) \in Seq(S) /\ Len(SubSeq(q, 1, n)) = n /\ \A i \in 1..n : SubSeq(q, 1, n)[i] = q[i]
<1> DEFINE v == SubSeq(q, 1, n)
<1>1. Len(q) \in Nat /\ \A i \in 1..Len(q) : q[i] \in S  BY LenProperties, ElementOfSeq
<1>2. 1 \in Int /\ n \in Int /\ \A i \in 1..n : q[i] \in S  BY <1>1
<1>3. /\ v \in Seq(S) /\ Len(v) = (IF 1 <= n THEN n - 1 + 1 ELSE 0)
      /\ \A i \in 1..(n - 1 + 1) : v[i] = q[1 + i - 1]
  BY <1>2, SubSeqProperties
<1> HIDE DEF v
<1>4. Len(v) = n /\ \A i \in 1..n : v[i] = q[i]  BY <1>3
<1>5. QED  BY <1>3, <1>4 DEF v

\* A good reading.
LEMMA GoodReading ==
    ASSUME TagInv, ReadIs, NEW units, HeldUnits(units), op.n <= Len(units), res' = Tag!Good(units, op.n), UNCHANGED held
    PROVE  GoodShape' /\ Tag!GoodIsWhole' /\ Tag!WrittenIsApplied'
<1> DEFINE n == op.n
           v == SubSeq(units, 1, n)
<1>1. n \in Nat /\ units \in Seq(BOOLEAN) /\ Len(units) \in Nat /\ Len(units) <= Bits /\ Bits \in Nat
      /\ (\A i \in 1..Len(units) : units[i] \in BOOLEAN /\ units[i] \in held[i - 1])
  BY TagSizes, LenProperties, ElementOfSeq DEF ReadIs, ReadType, HeldUnits
<1>2. /\ res' = [quality |-> "good", n |-> n, shape |-> IF n = 1 THEN "scalar" ELSE "array", value |-> v]
  BY DEF Tag!Good
<1>3. n <= Len(units)  OBVIOUS
<1> HIDE DEF n
<1>4. v \in Seq(BOOLEAN) /\ Len(v) = n /\ \A i \in 1..n : v[i] = units[i]  BY <1>1, <1>3, PrefixOf
<1> HIDE DEF v
<1>5. res'.quality = "good" /\ res'.n = n /\ res'.value = v /\ res'.shape = (IF n = 1 THEN "scalar" ELSE "array")
  BY <1>2
<1>6. ASSUME NEW i \in 1..n PROVE v[i] \in held'[i - 1]
  <2>1. i \in 1..Len(units)  BY <1>1, <1>3
  <2>2. units[i] \in held[i - 1] /\ v[i] = units[i]  BY <1>1, <1>4, <2>1
  <2>3. QED  BY <2>2
<1>7. Len(v) <= Bits  BY <1>1, <1>3, <1>4
<1>8. GoodShape'  BY <1>4, <1>5, <1>6, <1>7 DEF GoodShape, HeldUnits
<1>9. Tag!GoodIsWhole'  BY <1>4, <1>5, <1>6 DEF Tag!GoodIsWhole
<1>10. Tag!WrittenIsApplied'  BY <1>5 DEF Tag!WrittenIsApplied
<1>11. QED  BY <1>8, <1>9, <1>10

\* What the device answers depends on how it stores and counts alone.
LEMMA SameAnswers ==
    ASSUME device'.storage = device.storage, device'.denom = device.denom
    PROVE  Tag!CountsAnswered' <=> Tag!CountsAnswered
BY DEF Tag!CountsAnswered, Tag!Answers, Tag!Wanted, Tag!Words, Tag!packed_dword_count

\* An operation ends, or a listing begins, and nothing is read or written by it.
LEMMA Ended ==
    ASSUME TagInv, op'.kind \notin {"read", "write"}, res'.quality \notin {"good", "written"},
           UNCHANGED <<device, observed, bad>>, held' \in [Places -> SUBSET BOOLEAN],
           faults' = faults \/ faults' = faults + 1
    PROVE  TagInv'
<1>1. TagTypes'  BY DEF TagInv, TagTypes
<1>2. GoodShape' /\ Tag!GoodIsWhole' /\ Tag!WrittenIsApplied'
  BY DEF GoodShape, Tag!GoodIsWhole, Tag!WrittenIsApplied
<1>3. faults' = 0 => faults = 0  BY DEF TagInv, TagTypes
<1>4. Tag!CountsAnswered' <=> Tag!CountsAnswered  BY SameAnswers
<1>5. Converging'  BY <1>3, <1>4 DEF TagInv, Converging
<1>6. QED  BY <1>1, <1>2, <1>5 DEF TagInv

\* A whole value has arrived.
LEMMA ArrivedStep ==
    ASSUME TagInv, op.kind = "read", NEW units, HeldUnits(units), Tag!Arrived(device.storage, units),
           UNCHANGED <<device, held>>, faults' = faults \/ faults' = faults + 1,
           Tag!CountsAnswered /\ faults' = 0 => Len(units) = Tag!Wanted(op.asked)
    PROVE  TagInv'
<1> DEFINE ty == device.storage
           r == Tag!decode_reading(op, ty, units)
<1>1. /\ ReadIs /\ TagTypes /\ Converging /\ units \in Seq(BOOLEAN) /\ ty \in Storages
  BY DEF TagInv, HeldUnits, TagTypes, DeviceType
<1>2. held' \in [Places -> SUBSET BOOLEAN]  BY <1>1 DEF TagTypes
<1>3. CASE ~Tag!Decodable(ty, units)
  <2>1. op' = [kind |-> "none"] /\ res' = [quality |-> "error"] /\ UNCHANGED <<observed, bad>>
    BY <1>3 DEF Tag!Arrived, Tag!Poison, Tag!NoOp
  <2>2. op'.kind \notin {"read", "write"} /\ res'.quality \notin {"good", "written"}  BY <2>1
  <2>3. QED  BY <1>2, <2>1, <2>2, Ended
<1>4. CASE Tag!Decodable(ty, units)
  <2>1. /\ op' = [kind |-> "none"] /\ res' = r /\ observed' = ty
        /\ bad' = (IF ~op.array THEN bad ELSE IF r.quality = "bad" THEN bad + 1 ELSE 0)
    BY <1>4 DEF Tag!Arrived, Tag!Finish, Tag!NoOp, Tag!Observe, Tag!Row
  <2>2. /\ r = Tag!Bad \/ (r = Tag!Good(units, op.n) /\ op.n <= Len(units))
        /\ ty = "BOOL" /\ Len(units) = op.n => r = Tag!Good(units, op.n)
        /\ ty = "DWORD" /\ op.array /\ Len(units) = Tag!packed_dword_count(op.n) * W => r = Tag!Good(units, op.n)
    BY <1>1, <1>4, Decoded
  <2> HIDE DEF r, ty
  <2>3. Tag!Bad.quality = "bad" /\ Tag!Good(units, op.n).quality = "good"  BY DEF Tag!Bad, Tag!Good
  <2>4. GoodShape' /\ Tag!GoodIsWhole' /\ Tag!WrittenIsApplied'
    <3>1. CASE r = Tag!Bad
      <4>1. res'.quality = "bad"  BY <2>1, <2>3, <3>1
      <4>2. QED  BY <4>1 DEF GoodShape, Tag!GoodIsWhole, Tag!WrittenIsApplied
    <3>2. CASE r = Tag!Good(units, op.n) /\ op.n <= Len(units)  BY <1>1, <2>1, <3>2, GoodReading
    <3>3. QED  BY <2>2, <3>1, <3>2
  <2>5. bad' \in Nat /\ op'.kind = "none"  BY <1>1, <2>1 DEF TagTypes
  <2>6. TagTypes'  BY <1>1, <1>2, <2>5 DEF TagTypes
  <2>7. Converging'
    <3> SUFFICES ASSUME Tag!CountsAnswered', faults' = 0 PROVE bad' <= 1 /\ observed' = device'.storage
      BY <2>5 DEF Converging
    <3>1. Tag!CountsAnswered /\ faults = 0  BY <1>1, SameAnswers DEF TagTypes
    <3>2. bad <= 1 /\ bad \in Nat  BY <1>1, <3>1 DEF Converging, TagTypes
    <3>3. observed' = device'.storage  BY <2>1 DEF ty
    <3>7. CASE ~op.array  BY <2>1, <3>2, <3>3, <3>7
    <3>4. CASE bad = 0
      <4>1. bad' = bad \/ bad' = bad + 1 \/ bad' = 0  BY <2>1
      <4>2. QED  BY <3>3, <3>4, <4>1
    <3>5. CASE op.array /\ bad = 1
      <4>1. /\ op.asked = (IF ty = "DWORD" THEN Tag!packed_dword_count(op.n) ELSE op.n)
        BY <1>1, <3>1, <3>5 DEF Converging, ty
      <4>2. Len(units) = Tag!Wanted(op.asked)  BY <3>1
      <4>3. Tag!Wanted(op.asked) = IF ty = "DWORD" THEN op.asked * W ELSE op.asked
        <5>1. op.n \in Counts  BY <1>1 DEF ReadIs, ReadType
        <5>2. ty = "DWORD" => Tag!Words(op.asked) = op.asked
          BY <3>1, <4>1, <5>1 DEF Tag!CountsAnswered, ty
        <5>3. QED  BY <1>1, <5>2 DEF Tag!Wanted, ty
      <4>4. r = Tag!Good(units, op.n)  BY <1>1, <2>2, <3>5, <4>1, <4>2, <4>3 DEF Storages
      <4>5. bad' = 0  BY <2>1, <2>3, <3>5, <4>4
      <4>6. QED  BY <3>3, <4>5
    <3>8. op.array \in BOOLEAN  BY <1>1 DEF ReadIs, ReadType
    <3>6. QED  BY <3>2, <3>4, <3>5, <3>7, <3>8
  <2>8. QED  BY <2>4, <2>5, <2>6, <2>7 DEF TagInv
<1>5. QED  BY <1>3, <1>4

\* An operation begins.
LEMMA Issued ==
    ASSUME TagInv, NEW o, Tag!Issue(o)
    PROVE  /\ op' = o /\ res'.quality = "none" /\ UNCHANGED <<device, observed, bad, faults>> /\ TagTypes'
           /\ held' \in [Places -> SUBSET BOOLEAN] /\ (\A i \in Places : device'.bits[i] \in held'[i])
           /\ GoodShape' /\ Tag!GoodIsWhole' /\ Tag!WrittenIsApplied'
<1>1. /\ op' = o /\ res' = [quality |-> "none"] /\ held' = [i \in Places |-> {device.bits[i]}]
      /\ UNCHANGED <<device, observed, bad, faults>>
  BY DEF Tag!Issue, Tag!Holding, Places
<1>2. TagTypes /\ device.bits \in [Places -> BOOLEAN]  BY DEF TagInv, TagTypes, DeviceType
<1>3. held' \in [Places -> SUBSET BOOLEAN] /\ \A i \in Places : device'.bits[i] \in held'[i]  BY <1>1, <1>2
<1>4. res'.quality = "none"  BY <1>1
<1>5. GoodShape' /\ Tag!GoodIsWhole' /\ Tag!WrittenIsApplied'
  BY <1>4 DEF GoodShape, Tag!GoodIsWhole, Tag!WrittenIsApplied
<1>6. QED  BY <1>1, <1>2, <1>3, <1>4, <1>5 DEF TagTypes

\* read_one begins.
LEMMA TagReadStep ==
    ASSUME TagInv, NEW array \in BOOLEAN, NEW n \in Counts, Tag!Read(array, n)
    PROVE  TagInv'
<1> DEFINE p == Tag!packed_dword_count(n)
           a == IF array /\ observed = "DWORD" THEN p ELSE n
           o == [kind |-> "read", array |-> array, n |-> n, fragment |-> FALSE, code |-> "none", acc |-> <<>>,
                 asked |-> a]
<1>1. (array \/ n = 1) /\ Tag!Issue(o)  BY DEF Tag!Read, Tag!NoType, Tag!reads_packed
<1>2. n \in Nat \ {0} /\ Bits \in Nat  BY TagSizes
<1>3. p \in Nat  BY <1>2, PackedCount
<1>4. a \in Nat /\ (a = n \/ a = p)  BY <1>2, <1>3
<1>5. array /\ observed = "DWORD" => a = p  OBVIOUS
<1>6. ~(array /\ observed = "DWORD") => a = n  OBVIOUS
<1> HIDE DEF o, p, a
<1>7. /\ op' = o /\ res'.quality = "none" /\ UNCHANGED <<device, observed, bad, faults>> /\ TagTypes'
      /\ (\A i \in Places : device'.bits[i] \in held'[i])
      /\ GoodShape' /\ Tag!GoodIsWhole' /\ Tag!WrittenIsApplied'
  BY <1>1, Issued
<1>8. o \in ReadType /\ o.kind = "read" /\ o.array = array /\ o.n = n /\ o.acc = <<>> /\ o.asked = a
  <2> DEFINE nil == <<>>
  <2>1. nil \in Seq(BOOLEAN) /\ nil = <<>>  OBVIOUS
  <2>2. o = [kind |-> "read", array |-> array, n |-> n, fragment |-> FALSE, code |-> "none", acc |-> nil, asked |-> a]
    BY DEF o
  <2> HIDE DEF nil
  <2>3. QED  BY <1>4, <2>1, <2>2 DEF ReadType, Storages
<1>9. ReadIs'
  <2>1. HeldUnits(<<>>)'
    <3>1. Len(<<>>) = 0 /\ <<>> \in Seq(BOOLEAN)  OBVIOUS
    <3>2. QED  BY <1>2, <3>1 DEF HeldUnits
  <2>2. HeldUnits(op.acc)'  BY <1>7, <1>8, <2>1 DEF HeldUnits
  <2>3. op' \in ReadType /\ (op'.array \/ op'.n = 1)  BY <1>1, <1>7, <1>8
  <2>4. op'.asked = op'.n \/ op'.asked = Tag!packed_dword_count(op.n)'
    BY <1>4, <1>7, <1>8 DEF p, Tag!packed_dword_count
  <2>5. QED  BY <1>7, <2>2, <2>3, <2>4 DEF ReadIs
<1>10. Converging'
  <2> SUFFICES ASSUME Tag!CountsAnswered', faults' = 0
               PROVE  /\ bad' <= 1
                      /\ bad' = 1 => /\ observed' = device'.storage
                                     /\ op'.array => op'.asked = IF device'.storage = "DWORD"
                                                                 THEN Tag!packed_dword_count(op.n)' ELSE op'.n
    BY DEF Converging
  <2>1. Tag!CountsAnswered /\ faults = 0  BY <1>7, SameAnswers
  <2>2. bad <= 1 /\ (bad = 1 => observed = device.storage)  BY <2>1 DEF TagInv, Converging
  <2>3. Tag!packed_dword_count(op.n)' = p  BY <1>7, <1>8 DEF p, Tag!packed_dword_count
  <2>4. QED  BY <1>5, <1>6, <1>7, <1>8, <2>2, <2>3
<1>11. op'.kind = "read"  BY <1>7, <1>8
<1>12. QED  BY <1>7, <1>9, <1>10, <1>11 DEF TagInv

\* What stays true when a write begins or goes on.
LEMMA Writing ==
    ASSUME TagInv, TagTypes', op' \in WriteType, op'.sent <= op'.n, op'.applied = 0..(op'.sent - 1),
           GoodShape', Tag!GoodIsWhole', Tag!WrittenIsApplied', UNCHANGED <<observed, bad>>,
           device'.storage = device.storage, device'.denom = device.denom, faults' = faults \/ faults' = faults + 1
    PROVE  TagInv'
<1>1. op'.kind = "write"  BY DEF WriteType
<1>2. TagWriteIs'  BY DEF TagWriteIs
<1>3. (faults' = 0 => faults = 0) /\ (Tag!CountsAnswered' => Tag!CountsAnswered)
  BY SameAnswers DEF TagInv, TagTypes
<1>4. Converging'  BY <1>1, <1>3 DEF TagInv, Converging
<1>5. QED  BY <1>1, <1>2, <1>4 DEF TagInv

\* write_signal and browse begin.
LEMMA BeginSteps ==
    ASSUME TagInv, (\E n \in Counts, v \in BOOLEAN : Tag!Write(n, v)) \/ (\E n \in Counts : Tag!WriteRefused(n))
                   \/ (\E m \in 1..2 : Tag!Browse(m))
    PROVE  TagInv'
<1>1. ASSUME NEW n \in Counts, NEW v \in BOOLEAN, Tag!Write(n, v) PROVE TagInv'
  <2> DEFINE o == [kind |-> "write", array |-> TRUE, n |-> n, value |-> v, sent |-> 0, applied |-> {}]
  <2>1. Tag!Issue(o)  BY <1>1 DEF Tag!Write
  <2>2. o \in WriteType /\ o.sent = 0 /\ o.n = n /\ o.applied = {}  BY DEF WriteType
  <2> HIDE DEF o
  <2>3. n \in Nat /\ 0..(0 - 1) = {}  BY TagSizes
  <2>4. /\ op' = o /\ UNCHANGED <<device, observed, bad, faults>> /\ TagTypes'
        /\ GoodShape' /\ Tag!GoodIsWhole' /\ Tag!WrittenIsApplied'
    BY <2>1, Issued
  <2>7. op' \in WriteType /\ op'.sent = 0 /\ op'.n = n /\ op'.applied = {}  BY <2>2, <2>4
  <2>8. op'.sent <= op'.n  BY <2>3, <2>7
  <2>9. 0..(op'.sent - 1) = {}  BY <2>3, <2>7
  <2>5. op' \in WriteType /\ op'.sent <= op'.n /\ op'.applied = 0..(op'.sent - 1)  BY <2>7, <2>8, <2>9
  <2>6. QED  BY <2>4, <2>5, Writing
<1>2. ASSUME NEW n \in Counts, Tag!WriteRefused(n) PROVE TagInv'
  <2>1. /\ op = [kind |-> "none"] /\ res' = [quality |-> "refused"]
        /\ UNCHANGED <<device, observed, op, bad, held, faults>>
    BY <1>2 DEF Tag!WriteRefused, Tag!Free, Tag!NoOp
  <2>2. op'.kind \notin {"read", "write"} /\ res'.quality \notin {"good", "written"}  BY <2>1
  <2>3. held' \in [Places -> SUBSET BOOLEAN]  BY <2>1 DEF TagInv, TagTypes
  <2>4. QED  BY <2>1, <2>2, <2>3, Ended
<1>3. ASSUME NEW m \in 1..2, Tag!Browse(m) PROVE TagInv'
  <2> DEFINE o == [kind |-> "browse", array |-> FALSE, start |-> listing.cursor, max |-> m]
  <2>1. Tag!Issue(o)  BY <1>3 DEF Tag!Browse
  <2>2. o.kind = "browse"  OBVIOUS
  <2> HIDE DEF o
  <2>3. /\ op' = o /\ UNCHANGED <<device, observed, bad, faults>> /\ res'.quality = "none"
        /\ held' \in [Places -> SUBSET BOOLEAN]
    BY <2>1, Issued
  <2>4. QED  BY <2>2, <2>3, Ended
<1>4. QED  BY <1>1, <1>2, <1>3

\* An operation ends without a value: the link fails, a write times out, a page
\* is returned or refused.
LEMMA EndSteps ==
    ASSUME TagInv, Tag!LinkFails \/ Tag!WriteTimesOut \/ Tag!BrowseReply \/ Tag!BrowseReplyOdd \/ Tag!BrowseReplyEmpty
               \/ Tag!BrowseRefused
    PROVE  TagInv'
<1>1. /\ op' = [kind |-> "none"] /\ UNCHANGED <<device, observed, bad, held>>
      /\ res'.quality \in {"error", "rejected", "failed", "page", "unsupported"}
      /\ faults' = faults \/ faults' = faults + 1
  <2>1. CASE Tag!LinkFails  BY <2>1 DEF Tag!LinkFails, Tag!Poison, Tag!Fault, Tag!NoOp
  <2>2. CASE Tag!WriteTimesOut  BY <2>2 DEF Tag!WriteTimesOut, Tag!Finish, Tag!Fault, Tag!NoOp
  <2>3. ASSUME NEW g, NEW m, Tag!Page(g, m)
        PROVE  op' = [kind |-> "none"] /\ res'.quality \in {"error", "rejected", "failed", "page", "unsupported"}
    BY <2>3 DEF Tag!Page, Tag!Finish, Tag!NoOp
  <2>4. CASE Tag!BrowseReply
    <3>1. (\E g, m : Tag!Page(g, m)) /\ UNCHANGED <<device, observed, bad, held, faults>>
      BY <2>4 DEF Tag!BrowseReply, Tag!NoFault
    <3>2. QED  BY <2>3, <3>1
  <2>5. CASE Tag!BrowseReplyOdd
    <3>1. (\E g, m : Tag!Page(g, m)) /\ UNCHANGED <<device, observed, bad, held>> /\ faults' = faults + 1
      BY <2>5 DEF Tag!BrowseReplyOdd, Tag!Fault
    <3>2. QED  BY <2>3, <3>1
  <2>6. CASE Tag!BrowseRefused
    <3>1. \E s \in {"unsupported", "failed"} : Tag!Finish([quality |-> s])
      BY <2>6 DEF Tag!BrowseRefused
    <3>2. UNCHANGED <<device, observed, bad, held, faults>>  BY <2>6 DEF Tag!BrowseRefused, Tag!NoFault
    <3>3. QED  BY <3>1, <3>2 DEF Tag!Finish, Tag!NoOp
  <2>7. CASE Tag!BrowseReplyEmpty  BY <2>7 DEF Tag!BrowseReplyEmpty, Tag!Finish, Tag!Fault, Tag!NoOp
  <2>8. QED  BY <2>1, <2>2, <2>4, <2>5, <2>6, <2>7
<1>2. op'.kind \notin {"read", "write"} /\ res'.quality \notin {"good", "written"}  BY <1>1
<1>3. held' \in [Places -> SUBSET BOOLEAN]  BY <1>1 DEF TagInv, TagTypes
<1>4. QED  BY <1>1, <1>2, <1>3, Ended

\* What a request asks for is a number of units.
LEMMA WantedIs ==
    ASSUME ReadIs
    PROVE  Tag!Wanted(op.asked) \in Nat
<1> DEFINE a == op.asked
           n == op.n
<1>1. n \in Nat \ {0} /\ W \in Nat
  <2>1. n \in Counts  BY DEF ReadIs, ReadType
  <2> HIDE DEF n
  <2>2. QED  BY <2>1, TagSizes
<1>2. Tag!packed_dword_count(n) \in Nat \ {0}  BY <1>1, PackedCount
<1>3. a \in Nat \ {0}  BY <1>1, <1>2 DEF ReadIs
<1> HIDE DEF a, n
<1>4. Tag!packed_dword_count(a) * W \in Nat  BY <1>3, PackedCount
<1>5. a * W \in Nat  BY <1>1, <1>3
<1>6. Tag!Wanted(a) \in Nat
  <2>1. \/ Tag!Wanted(a) = Tag!packed_dword_count(a) * W \/ Tag!Wanted(a) = a * W \/ Tag!Wanted(a) = a
    BY DEF Tag!Wanted, Tag!Words
  <2>2. QED  BY <1>3, <1>4, <1>5, <2>1
<1>7. QED  BY <1>6 DEF a

\* The first units of the tag.
LEMMA FirstUnits ==
    ASSUME TagInv, ReadIs, NEW k \in Nat, k <= Bits
    PROVE  HeldUnits(Tag!Units(0, k)) /\ Len(Tag!Units(0, k)) = k
<1> DEFINE u == Tag!Units(0, k)
<1>1. 0 \in Nat /\ 0 <= k /\ k - 0 = k  OBVIOUS
<1>2. /\ u \in Seq(BOOLEAN) /\ Len(u) = k - 0 /\ \A i \in 1..(k - 0) : u[i] \in held[0 + i - 1]
  BY <1>1, UnitsHeld
<1> HIDE DEF u
<1>3. Len(u) = k /\ \A i \in 1..k : u[i] \in held[i - 1]
  <2>1. ASSUME NEW i \in 1..k PROVE u[i] \in held[i - 1]
    <3>1. 0 + i - 1 = i - 1  OBVIOUS
    <3>2. QED  BY <1>1, <1>2, <3>1
  <2>2. QED  BY <1>1, <1>2, <2>1
<1>4. HeldUnits(u)  BY <1>2, <1>3 DEF HeldUnits
<1>5. QED  BY <1>3, <1>4 DEF u

\* read_tag: a whole reply, of the units asked for or of others.
LEMMA ReplySteps ==
    ASSUME TagInv, Tag!ReadReply \/ Tag!ReadReplyOdd
    PROVE  TagInv'
<1>1. CASE Tag!ReadReply
  <2> DEFINE k == Tag!Wanted(op.asked)
             u == Tag!Units(0, k)
  <2>1. /\ op.kind = "read" /\ k <= Bits /\ Tag!Arrived(device.storage, u) /\ UNCHANGED <<device, held, faults>>
    BY <1>1 DEF Tag!ReadReply, Tag!Answers, Tag!NoFault, Tag!Stays
  <2>2. ReadIs  BY <2>1 DEF TagInv
  <2>3. k \in Nat  BY <2>2, WantedIs
  <2>4. HeldUnits(u) /\ Len(u) = k  BY <2>1, <2>2, <2>3, FirstUnits
  <2> HIDE DEF u
  <2>5. QED  BY <2>1, <2>4, ArrivedStep
<1>2. CASE Tag!ReadReplyOdd
  <2>1. PICK k \in 0..Bits :
            /\ op.kind = "read" /\ Tag!Arrived(device.storage, Tag!Units(0, k)) /\ UNCHANGED <<device, held>>
            /\ faults' = faults + 1
    BY <1>2 DEF Tag!ReadReplyOdd, Tag!Fault, Tag!Stays
  <2> DEFINE u == Tag!Units(0, k)
  <2>2. ReadIs /\ faults \in Nat  BY <2>1 DEF TagInv, TagTypes
  <2>3. k \in Nat /\ k <= Bits /\ faults' # 0  BY <2>1, <2>2, TagSizes
  <2>4. HeldUnits(u) /\ Tag!Arrived(device.storage, u)  BY <2>1, <2>2, <2>3, FirstUnits
  <2> HIDE DEF u
  <2>5. QED  BY <2>1, <2>3, <2>4, ArrivedStep
<1>3. QED  BY <1>1, <1>2

\* A read that goes on.
LEMMA Reading ==
    ASSUME TagInv, op.kind = "read", op' \in ReadType, HeldUnits(op.acc)', op'.array = op.array, op'.n = op.n,
           op'.asked = op.asked, UNCHANGED <<device, observed, bad, res, held>>, faults' = faults \/ faults' = faults + 1
    PROVE  TagInv'
<1>1. ReadIs /\ TagTypes  BY DEF TagInv
<1>2. ReadIs'  BY <1>1 DEF ReadIs, Tag!packed_dword_count
<1>3. TagTypes'  BY <1>1 DEF TagTypes
<1>4. (faults' = 0 => faults = 0) /\ (Tag!CountsAnswered' => Tag!CountsAnswered)
  BY <1>1, SameAnswers DEF TagTypes
<1>5. Tag!packed_dword_count(op.n)' = Tag!packed_dword_count(op.n)  BY DEF Tag!packed_dword_count
<1>6. Converging'  BY <1>4, <1>5 DEF TagInv, Converging
<1>7. GoodShape' /\ Tag!GoodIsWhole' /\ Tag!WrittenIsApplied'
  BY DEF TagInv, GoodShape, HeldUnits, Tag!GoodIsWhole, Tag!WrittenIsApplied
<1>8. op'.kind = "read"  BY DEF ReadType
<1>9. QED  BY <1>2, <1>3, <1>6, <1>7, <1>8 DEF TagInv

\* A reply too large for one message.
LEMMA PartialStep ==
    ASSUME TagInv, Tag!ReadPartial
    PROVE  TagInv'
<1>1. /\ op.kind = "read" /\ op' = [op EXCEPT !.fragment = TRUE] /\ UNCHANGED <<device, observed, bad, res, held, faults>>
  BY DEF Tag!ReadPartial, Tag!NoFault, Tag!Stays
<1>2. ReadIs  BY <1>1 DEF TagInv
<1>3. op' \in ReadType /\ op'.acc = op.acc /\ op'.array = op.array /\ op'.n = op.n /\ op'.asked = op.asked
  BY <1>1, <1>2 DEF ReadIs, ReadType
<1>4. HeldUnits(op.acc)'  BY <1>1, <1>2, <1>3 DEF ReadIs, HeldUnits
<1>5. QED  BY <1>1, <1>3, <1>4, Reading

\* read_tag_fragmented: a fragment is added, breaks the rules, or is the last.
LEMMA FragmentStep ==
    ASSUME TagInv, Tag!ReadFragment
    PROVE  TagInv'
<1>1. PICK k \in 0..Bits, more \in BOOLEAN :
          /\ op.kind = "read" /\ Len(op.acc) + k <= Bits
          /\ IF k > 0 /\ Len(op.acc) + k <= Tag!Wanted(op.asked) /\ more = (Len(op.acc) + k < Tag!Wanted(op.asked))
             THEN faults' = faults ELSE faults' = faults + 1
          /\ Tag!Fragment(k, more) /\ UNCHANGED <<device, held>>
  BY DEF Tag!ReadFragment, Tag!NoFault, Tag!Fault, Tag!Stays
<1>2. ReadIs /\ TagTypes /\ faults \in Nat  BY <1>1 DEF TagInv, TagTypes
<1> DEFINE l == Len(op.acc)
           w == Tag!Wanted(op.asked)
           u == Tag!Units(l, l + k)
           c == op.acc \o u
<1>3. op.acc \in Seq(BOOLEAN) /\ l \in Nat /\ k \in Nat /\ w \in Nat /\ Bits \in Nat
  <2>1. op.acc \in Seq(BOOLEAN)  BY <1>2 DEF ReadIs, HeldUnits
  <2>2. l \in Nat  BY <2>1, LenProperties
  <2>3. k \in Nat /\ Bits \in Nat  BY TagSizes
  <2>4. w \in Nat  BY <1>2, WantedIs
  <2>5. QED  BY <2>1, <2>2, <2>3, <2>4
<1>4. l + k <= Bits  BY <1>1
<1>5. (faults' = faults \/ faults' = faults + 1) /\ (faults' = 0 => l + k <= w /\ (~more => ~(l + k < w)))
  <2>1. CASE k > 0 /\ l + k <= w /\ more = (l + k < w)  BY <1>1, <2>1
  <2>2. CASE ~(k > 0 /\ l + k <= w /\ more = (l + k < w))
    <3>1. faults' = faults + 1  BY <1>1, <2>2
    <3>2. faults' # 0  BY <1>2, <3>1
    <3>3. QED  BY <3>1, <3>2
  <2>3. QED  BY <2>1, <2>2
<1>6. HeldUnits(c) /\ Len(c) = l + k
  <2> DEFINE to == l + k
  <2>1. to \in Nat /\ l <= to /\ to <= Bits /\ to - l = k  BY <1>3, <1>4
  <2> HIDE DEF l, to
  <2>2. /\ u \in Seq(BOOLEAN) /\ Len(u) = to - l /\ \A i \in 1..(to - l) : u[i] \in held[l + i - 1]
    BY <1>2, <1>3, <2>1, UnitsHeld DEF to
  <2> HIDE DEF u
  <2>3. /\ c \in Seq(BOOLEAN) /\ Len(c) = l + Len(u)
        /\ \A i \in 1..(l + Len(u)) : c[i] = IF i <= l THEN op.acc[i] ELSE u[i - l]
    BY <1>3, <2>2, ConcatProperties DEF l
  <2>4. Len(u) = k  BY <2>1, <2>2
  <2> HIDE DEF c
  <2>5. ASSUME NEW i \in 1..(l + k) PROVE c[i] \in held[i - 1]
    <3>1. CASE i <= l
      <4>1. i \in 1..Len(op.acc)  BY <1>3, <3>1 DEF l
      <4>2. op.acc[i] \in held[i - 1]  BY <1>2, <4>1 DEF ReadIs, HeldUnits
      <4>3. c[i] = op.acc[i]  BY <2>3, <2>4, <3>1
      <4>4. QED  BY <4>2, <4>3
    <3>2. CASE ~(i <= l)
      <4>1. i - l \in 1..k /\ l + (i - l) - 1 = i - 1  BY <1>3, <3>2
      <4>2. c[i] = u[i - l]  BY <2>3, <2>4, <3>2
      <4>3. u[i - l] \in held[l + (i - l) - 1]  BY <2>1, <2>2, <4>1
      <4>4. QED  BY <4>1, <4>2, <4>3
    <3>3. QED  BY <3>1, <3>2
  <2>6. Len(c) = l + k /\ Len(c) <= Bits  BY <2>1, <2>3, <2>4 DEF to
  <2>7. QED  BY <2>3, <2>5, <2>6 DEF HeldUnits
<1>7. \/ Tag!Poison /\ UNCHANGED <<observed, bad>>
      \/ op' = [op EXCEPT !.acc = c, !.code = device.storage] /\ UNCHANGED <<observed, bad, res>>
      \/ ~more /\ Tag!Arrived(device.storage, c)
  BY <1>1 DEF Tag!Fragment
<1> HIDE DEF c, u
<1>8. CASE Tag!Poison /\ UNCHANGED <<observed, bad>>
  <2>1. op' = [kind |-> "none"] /\ res' = [quality |-> "error"]  BY <1>8 DEF Tag!Poison, Tag!NoOp
  <2>2. op'.kind \notin {"read", "write"} /\ res'.quality \notin {"good", "written"}  BY <2>1
  <2>3. held' \in [Places -> SUBSET BOOLEAN]  BY <1>1, <1>2 DEF TagTypes
  <2>4. QED  BY <1>1, <1>5, <1>8, <2>2, <2>3, Ended
<1>9. CASE op' = [op EXCEPT !.acc = c, !.code = device.storage] /\ UNCHANGED <<observed, bad, res>>
  <2>1. c \in Seq(BOOLEAN) /\ device.storage \in Storages  BY <1>2, <1>6 DEF HeldUnits, TagTypes, DeviceType
  <2>2. op' \in ReadType /\ op'.acc = c /\ op'.array = op.array /\ op'.n = op.n /\ op'.asked = op.asked
    BY <1>2, <1>9, <2>1 DEF ReadIs, ReadType
  <2>3. HeldUnits(op.acc)'  BY <1>1, <1>6, <2>2 DEF HeldUnits
  <2>4. QED  BY <1>1, <1>5, <1>9, <2>2, <2>3, Reading
<1>10. CASE ~more /\ Tag!Arrived(device.storage, c)
  <2>1. faults' = 0 => Len(c) = w  BY <1>3, <1>5, <1>6, <1>10
  <2>2. QED  BY <1>1, <1>5, <1>6, <1>10, <2>1, ArrivedStep
<1>11. QED  BY <1>7, <1>8, <1>9, <1>10

\* A controller that answers the counts answers every one that is asked of it.
LEMMA AnswersAll ==
    ASSUME ReadIs, Tag!CountsAnswered, device.storage \in Storages
    PROVE  Tag!Answers(op.asked)
<1> DEFINE n == op.n
           p == Tag!packed_dword_count(n)
           w == Tag!Words(n)
<1>1. n \in Nat \ {0} /\ W \in Nat /\ W > 0 /\ Bits \in Nat /\ n \in Counts
  <2>1. n \in Counts  BY DEF ReadIs, ReadType
  <2> HIDE DEF n
  <2>2. QED  BY <2>1, TagSizes
<1>2. p \in Nat \ {0} /\ p <= n /\ p * W \in Nat /\ p * W <= n * W  BY <1>1, PackedCount
<1>3. op.asked = n \/ op.asked = p  BY DEF ReadIs
<1>4. Tag!Answers(n) /\ (device.storage = "DWORD" => Tag!Words(p) = p)  BY <1>1 DEF Tag!CountsAnswered
<1>5. w = n \/ w = p  BY DEF Tag!Words
<1> HIDE DEF n, p, w
<1>6. Tag!Answers(p)
  <2>1. CASE device.storage = "DWORD"
    <3>1. Tag!Wanted(n) = w * W /\ Tag!Wanted(p) = p * W  BY <1>4, <2>1 DEF Tag!Wanted, w
    <3>2. w * W <= Bits  BY <1>4, <3>1 DEF Tag!Answers
    <3>3. CASE w = p  BY <3>1, <3>2, <3>3 DEF Tag!Answers
    <3>4. CASE w = n
      <4> DEFINE x == n * W
                 y == p * W
      <4>1. x \in Nat /\ y \in Nat /\ y <= x /\ x <= Bits /\ Tag!Wanted(p) = y
        BY <1>1, <1>2, <3>1, <3>2, <3>4
      <4> HIDE DEF x, y
      <4>2. QED  BY <1>1, <4>1 DEF Tag!Answers
    <3>5. QED  BY <1>5, <3>3, <3>4
  <2>2. CASE device.storage # "DWORD"
    <3>1. Tag!Wanted(n) = n /\ Tag!Wanted(p) = p  BY <2>2 DEF Tag!Wanted
    <3>2. QED  BY <1>1, <1>2, <1>4, <3>1 DEF Tag!Answers
  <2>3. QED  BY <2>1, <2>2
<1>7. QED  BY <1>3, <1>4, <1>6

\* A per-tag error or a time-out: a bad reading.
LEMMA RefusedStep ==
    ASSUME TagInv, Tag!ReadRefused
    PROVE  TagInv'
<1>1. /\ op.kind = "read" /\ op' = [kind |-> "none"] /\ res' = [quality |-> "bad"]
      /\ UNCHANGED <<device, observed, held>>
      /\ IF ~op.fragment /\ ~Tag!Answers(op.asked) THEN faults' = faults ELSE faults' = faults + 1
      /\ \/ bad' = bad \/ bad' = bad + 1 \/ bad' = 0
  BY DEF Tag!ReadRefused, Tag!Finish, Tag!Row, Tag!Bad, Tag!NoOp, Tag!NoFault, Tag!Fault, Tag!Stays
<1>2. TagTypes /\ ReadIs /\ device.storage \in Storages  BY <1>1 DEF TagInv, TagTypes, DeviceType
<1>3. faults \in Nat /\ bad \in Nat  BY <1>2 DEF TagTypes
<1>4. bad' \in Nat /\ faults' \in Nat  BY <1>1, <1>3
<1>5. TagTypes'  BY <1>1, <1>2, <1>4 DEF TagTypes
<1>6. op'.kind = "none" /\ res'.quality = "bad"  BY <1>1
<1>7. GoodShape' /\ Tag!GoodIsWhole' /\ Tag!WrittenIsApplied'
  BY <1>6 DEF GoodShape, Tag!GoodIsWhole, Tag!WrittenIsApplied
<1>8. ~(Tag!CountsAnswered' /\ faults' = 0)
  <2> SUFFICES ASSUME Tag!CountsAnswered', faults' = 0 PROVE FALSE  OBVIOUS
  <2>1. Tag!CountsAnswered  BY <1>1, SameAnswers
  <2>2. Tag!Answers(op.asked)  BY <1>2, <2>1, AnswersAll
  <2>3. faults' = faults + 1  BY <1>1, <2>2
  <2>4. QED  BY <1>3, <2>3
<1>9. Converging'  BY <1>8 DEF Converging
<1>10. QED  BY <1>5, <1>6, <1>7, <1>9 DEF TagInv

\* write_tag: a request is applied or answered with another status.
LEMMA WriteReplyStep ==
    ASSUME TagInv, NEW answer \in {"ok", "partial", "refused"}, Tag!WriteReply(answer)
    PROVE  TagInv'
<1> DEFINE end == Tag!ChunkEnd(op)
           range == op.sent..(end - 1)
<1>1. op.kind = "write" /\ UNCHANGED <<observed, bad, held>> /\ (faults' = faults \/ faults' = faults + 1)
  BY DEF Tag!WriteReply, Tag!NoFault, Tag!Fault
<1>2. TagWriteIs /\ TagTypes  BY <1>1 DEF TagInv
<1>3. /\ op \in WriteType /\ op.sent \in Nat /\ op.n \in Nat /\ op.sent <= op.n /\ op.applied = 0..(op.sent - 1)
  <2>1. op \in WriteType /\ op.sent <= op.n /\ op.applied = 0..(op.sent - 1)  BY <1>2 DEF TagWriteIs
  <2>2. op.sent \in Nat /\ op.n \in Counts  BY <2>1 DEF WriteType
  <2>3. QED  BY <2>1, <2>2, TagSizes
<1>4. end \in Nat /\ op.sent <= end /\ end <= op.n
  <2> DEFINE s == op.sent
             n == op.n
  <2>1. end = (IF Tag!Fragments(n) /\ s + Chunk < n THEN s + Chunk ELSE n)  BY DEF Tag!ChunkEnd
  <2>2. s \in Nat /\ n \in Nat /\ s <= n /\ Chunk \in Nat  BY <1>3, TagSizes
  <2> HIDE DEF s, n, end
  <2>3. end = n \/ (s + Chunk < n /\ end = s + Chunk)  BY <2>1
  <2>4. QED  BY <2>2, <2>3 DEF s, n
<1>5. CASE answer # "ok"
  <2>1. op' = [kind |-> "none"] /\ res' = [quality |-> "rejected"] /\ device' = device
    BY <1>5 DEF Tag!WriteReply, Tag!Success, Tag!Finish, Tag!NoOp
  <2>2. op'.kind \notin {"read", "write"} /\ res'.quality \notin {"good", "written"}  BY <2>1
  <2>3. held' \in [Places -> SUBSET BOOLEAN]  BY <1>1, <1>2 DEF TagTypes
  <2>4. QED  BY <1>1, <2>1, <2>2, <2>3, Ended
<1>6. CASE answer = "ok"
  <2> DEFINE ap == op.applied \cup range
             bs == [i \in DOMAIN device.bits |-> IF i \in range THEN op.value ELSE device.bits[i]]
  <2>1. /\ device' = [device EXCEPT !.bits = bs]
        /\ \/ op' = [op EXCEPT !.sent = end, !.applied = ap] /\ UNCHANGED res
           \/ /\ ~(end < op.n) /\ op' = [kind |-> "none"]
              /\ res' = [quality |-> "written", n |-> op.n,
                         applied |-> [op EXCEPT !.sent = end, !.applied = ap].applied]
    BY <1>6 DEF Tag!WriteReply, Tag!Success, Tag!Finish, Tag!NoOp
  <2>2. ap = 0..(end - 1) /\ ap \in SUBSET Nat
    <3> HIDE DEF end
    <3>1. QED  BY <1>3, <1>4
  <2>3. bs \in [Places -> BOOLEAN]
    <3>1. device.bits \in [Places -> BOOLEAN] /\ op.value \in BOOLEAN
      BY <1>2, <1>3 DEF TagTypes, DeviceType, WriteType
    <3>2. QED  BY <3>1
  <2> HIDE DEF ap, bs, end
  <2>4. device' \in DeviceType /\ device'.storage = device.storage /\ device'.denom = device.denom
    BY <1>2, <2>1, <2>3 DEF TagTypes, DeviceType
  <2>5. TagTypes'
    <3>1. faults' \in Nat  BY <1>1, <1>2 DEF TagTypes
    <3>2. QED  BY <1>1, <1>2, <2>4, <3>1 DEF TagTypes
  <2>6. CASE op' = [op EXCEPT !.sent = end, !.applied = ap] /\ UNCHANGED res
    <3>1. op' \in WriteType /\ op'.sent = end /\ op'.applied = ap /\ op'.n = op.n
      BY <1>3, <1>4, <2>2, <2>6 DEF WriteType
    <3>2. op'.sent <= op'.n /\ op'.applied = 0..(op'.sent - 1)  BY <1>4, <2>2, <3>1
    <3>3. GoodShape' /\ Tag!GoodIsWhole' /\ Tag!WrittenIsApplied'
      BY <1>1, <2>6 DEF TagInv, GoodShape, HeldUnits, Tag!GoodIsWhole, Tag!WrittenIsApplied
    <3>4. QED  BY <1>1, <2>4, <2>5, <3>1, <3>2, <3>3, Writing
  <2>7. CASE /\ ~(end < op.n) /\ op' = [kind |-> "none"]
             /\ res' = [quality |-> "written", n |-> op.n,
                        applied |-> [op EXCEPT !.sent = end, !.applied = ap].applied]
    <3>1. [op EXCEPT !.sent = end, !.applied = ap].applied = ap  BY <1>3 DEF WriteType
    <3>2. res'.quality = "written" /\ res'.n = op.n /\ res'.applied = ap /\ op'.kind = "none"  BY <2>7, <3>1
    <3>3. end = op.n  BY <1>3, <1>4, <2>7
    <3>4. GoodShape' /\ Tag!GoodIsWhole' /\ Tag!WrittenIsApplied'
      BY <2>2, <3>2, <3>3 DEF GoodShape, Tag!GoodIsWhole, Tag!WrittenIsApplied
    <3>5. (faults' = 0 => faults = 0) /\ (Tag!CountsAnswered' => Tag!CountsAnswered)
      BY <1>1, <1>2, <2>4, SameAnswers DEF TagTypes
    <3>6. Converging'  BY <1>1, <2>4, <3>2, <3>5 DEF TagInv, Converging
    <3>7. QED  BY <2>5, <3>2, <3>4, <3>6 DEF TagInv
  <2>8. QED  BY <2>1, <2>6, <2>7
<1>7. QED  BY <1>5, <1>6

\* The controller runs, and is reprogrammed.
LEMMA ControllerSteps ==
    ASSUME TagInv, (\E i \in Places : Tag!Toggle(i)) \/ Tag!Reprogram
    PROVE  TagInv'
<1>1. TagTypes  BY DEF TagInv
<1>2. ASSUME NEW j \in Places, Tag!Toggle(j) PROVE TagInv'
  <2> DEFINE bs == [device.bits EXCEPT ![j] = ~@]
             hs == held[j] \cup {bs[j]}
  <2>1. /\ device' = [device EXCEPT !.bits = bs] /\ held' = [held EXCEPT ![j] = hs]
        /\ UNCHANGED <<observed, op, res, bad, faults>>
    BY <1>1, <1>2 DEF Tag!Toggle, TagTypes
  <2>2. bs \in [Places -> BOOLEAN] /\ \A i \in Places : i # j => bs[i] = device.bits[i]
    BY <1>1 DEF TagTypes, DeviceType
  <2>3. hs \in SUBSET BOOLEAN /\ held[j] \subseteq hs /\ bs[j] \in hs
    <3>1. bs[j] \in BOOLEAN /\ held[j] \in SUBSET BOOLEAN  BY <1>1, <2>2 DEF TagTypes
    <3> HIDE DEF bs
    <3>2. QED  BY <3>1
  <2> HIDE DEF bs, hs
  <2>4. /\ device' \in DeviceType /\ device'.storage = device.storage /\ device'.denom = device.denom /\ device'.bits = bs
    BY <1>1, <2>1, <2>2 DEF TagTypes, DeviceType
  <2>5. /\ held' \in [Places -> SUBSET BOOLEAN] /\ held'[j] = hs /\ (\A i \in Places : i # j => held'[i] = held[i])
        /\ (\A i \in Places : held[i] \subseteq held'[i])
    BY <1>1, <2>1, <2>3 DEF TagTypes
  <2>6. TagTypes'  BY <1>1, <2>1, <2>4, <2>5 DEF TagTypes
  <2>7. ASSUME NEW q \in Seq(BOOLEAN), HeldUnits(q), NEW i \in 1..Len(q) PROVE q[i] \in held'[i - 1]
    <3>1. Len(q) \in Nat /\ Len(q) <= Bits /\ q[i] \in held[i - 1] /\ Bits \in Nat
      BY <2>7, LenProperties, TagSizes DEF HeldUnits
    <3>2. i - 1 \in Places  BY <3>1 DEF Places
    <3>3. QED  BY <2>5, <3>1, <3>2
  <2>8. ReadIs => ReadIs'
    <3> SUFFICES ASSUME ReadIs PROVE ReadIs'  OBVIOUS
    <3>1. op.acc \in Seq(BOOLEAN) /\ HeldUnits(op.acc)  BY DEF ReadIs, HeldUnits
    <3>2. HeldUnits(op.acc)'  BY <2>1, <2>7, <3>1 DEF HeldUnits
    <3>3. ASSUME NEW i \in Places PROVE device'.bits[i] \in held'[i]
      <4>1. CASE i = j  BY <2>3, <2>4, <2>5, <4>1
      <4>2. CASE i # j
        <5>1. device.bits[i] \in held[i]  BY DEF ReadIs
        <5>2. QED  BY <2>2, <2>4, <2>5, <4>2, <5>1
      <4>3. QED  BY <4>1, <4>2
    <3>4. QED  BY <2>1, <3>2, <3>3 DEF ReadIs, Tag!packed_dword_count
  <2>9. GoodShape' /\ Tag!GoodIsWhole'
    <3> SUFFICES ASSUME res.quality = "good" PROVE HeldUnits(res.value)' /\ Tag!GoodIsWhole'
      BY <2>1 DEF GoodShape, Tag!GoodIsWhole
    <3>1. res.value \in Seq(BOOLEAN) /\ HeldUnits(res.value) /\ Tag!GoodIsWhole
      BY DEF TagInv, GoodShape, HeldUnits
    <3>2. \A i \in 1..Len(res.value) : res.value[i] \in held'[i - 1]  BY <2>7, <3>1
    <3>3. HeldUnits(res.value)'  BY <2>1, <3>1, <3>2 DEF HeldUnits
    <3>4. Tag!GoodIsWhole'  BY <2>1, <3>1, <3>2 DEF Tag!GoodIsWhole
    <3>5. QED  BY <3>3, <3>4
  <2>10. Tag!WrittenIsApplied' /\ (TagWriteIs => TagWriteIs')
    BY <2>1 DEF TagInv, Tag!WrittenIsApplied, TagWriteIs
  <2>11. Converging'
    <3>1. Tag!CountsAnswered' => Tag!CountsAnswered  BY <2>4, SameAnswers
    <3>2. Tag!packed_dword_count(op.n)' = Tag!packed_dword_count(op.n)  BY <2>1 DEF Tag!packed_dword_count
    <3>3. QED  BY <2>1, <2>4, <3>1, <3>2 DEF TagInv, Converging
  <2>12. QED  BY <2>1, <2>6, <2>8, <2>9, <2>10, <2>11 DEF TagInv
<1>3. CASE Tag!Reprogram
  <2> DEFINE st == IF device.storage = "BOOL" THEN "DWORD" ELSE "BOOL"
  <2>1. device' = [device EXCEPT !.storage = st] /\ bad' = 0 /\ UNCHANGED <<observed, op, res, held, faults>>
    BY <1>1, <1>3 DEF Tag!Reprogram, TagTypes, DeviceType
  <2>2. st \in Storages  BY DEF Storages
  <2> HIDE DEF st
  <2>3. device' \in DeviceType /\ device'.bits = device.bits  BY <1>1, <2>1, <2>2 DEF TagTypes, DeviceType
  <2>4. TagTypes'  BY <1>1, <2>1, <2>3 DEF TagTypes
  <2>5. (ReadIs => ReadIs') /\ (TagWriteIs => TagWriteIs')
    BY <2>1, <2>3 DEF ReadIs, HeldUnits, TagWriteIs, Tag!packed_dword_count
  <2>6. GoodShape' /\ Tag!GoodIsWhole' /\ Tag!WrittenIsApplied'
    BY <2>1 DEF TagInv, GoodShape, HeldUnits, Tag!GoodIsWhole, Tag!WrittenIsApplied
  <2>7. Converging'  BY <2>1 DEF Converging
  <2>8. QED  BY <2>1, <2>4, <2>5, <2>6, <2>7 DEF TagInv
<1>4. QED  BY <1>2, <1>3

\* A session starts with nothing read and nothing asked.
LEMMA TagStart ==
    ASSUME Tag!Init
    PROVE  TagInv
<1> DEFINE bs == [i \in Places |-> i % 2 = 0]
<1>1. /\ device \in [storage : {"BOOL", "DWORD"}, denom : {"bools", "words"}, bits : {bs},
                     symbols : {Symbols, {}, Symbols \ {0}}, startOnly : BOOLEAN]
      /\ op = [kind |-> "none"] /\ res = [quality |-> "none"] /\ bad = 0 /\ faults = 0
      /\ held = [i \in Places |-> {}]
  BY DEF Tag!Init, Tag!NoOp, Places
<1>2. bs \in [Places -> BOOLEAN]  OBVIOUS
<1> HIDE DEF bs
<1>3. device \in DeviceType  BY <1>1, <1>2 DEF DeviceType, Storages
<1>4. held \in [Places -> SUBSET BOOLEAN]  BY <1>1
<1>5. TagTypes  BY <1>1, <1>3, <1>4 DEF TagTypes
<1>6. op.kind = "none" /\ res.quality = "none"  BY <1>1
<1>7. GoodShape /\ Tag!GoodIsWhole /\ Tag!WrittenIsApplied
  BY <1>6 DEF GoodShape, Tag!GoodIsWhole, Tag!WrittenIsApplied
<1>8. Converging  BY <1>1 DEF Converging
<1>9. QED  BY <1>5, <1>6, <1>7, <1>8 DEF TagInv

\* Every step of the tag session keeps its invariant.
LEMMA TagStep ==
    ASSUME TagInv, [Tag!Next]_(Tag!vars)
    PROVE  TagInv'
<1>1. CASE UNCHANGED Tag!vars
  <2>1. UNCHANGED <<device, observed, op, res, bad, held, faults>>  BY <1>1 DEF Tag!vars
  <2>2. TagTypes' /\ (ReadIs => ReadIs') /\ (TagWriteIs => TagWriteIs')
    BY <2>1 DEF TagInv, TagTypes, ReadIs, HeldUnits, TagWriteIs, Tag!packed_dword_count
  <2>3. GoodShape' /\ Tag!GoodIsWhole' /\ Tag!WrittenIsApplied'
    BY <2>1 DEF TagInv, GoodShape, HeldUnits, Tag!GoodIsWhole, Tag!WrittenIsApplied
  <2>4. Converging'  BY <2>1, SameAnswers DEF TagInv, Converging, Tag!packed_dword_count
  <2>5. QED  BY <2>1, <2>2, <2>3, <2>4 DEF TagInv
<1>2. CASE Tag!Next
  <2>1. ASSUME NEW n \in Counts,
               \/ \E array \in BOOLEAN : Tag!Read(array, n)
               \/ \E v \in BOOLEAN : Tag!Write(n, v)
               \/ Tag!WriteRefused(n)
        PROVE  TagInv'
    BY <2>1, TagReadStep, BeginSteps
  <2>2. CASE Tag!ReadReply \/ Tag!ReadReplyOdd  BY <2>2, ReplySteps
  <2>3. CASE Tag!ReadPartial \/ Tag!ReadFragment \/ Tag!ReadRefused  BY <2>3, PartialStep, FragmentStep, RefusedStep
  <2>4. CASE \E s \in {"ok", "partial", "refused"} : Tag!WriteReply(s)  BY <2>4, WriteReplyStep
  <2>5. CASE Tag!LinkFails \/ Tag!WriteTimesOut \/ Tag!BrowseReply \/ Tag!BrowseReplyOdd \/ Tag!BrowseReplyEmpty
               \/ Tag!BrowseRefused
    BY <2>5, EndSteps
  <2>6. CASE \E m \in 1..2 : Tag!Browse(m)  BY <2>6, BeginSteps
  <2>7. CASE (\E i \in Places : Tag!Toggle(i)) \/ Tag!Reprogram  BY <2>7, ControllerSteps
  <2>8. QED  BY <1>2, <2>1, <2>2, <2>3, <2>4, <2>5, <2>6, <2>7 DEF Tag!Next, Places
<1>3. QED  BY <1>1, <1>2

-----------------------------------------------------------------------------
(* A walk over the tag list *)

Increasing(q) == \A i, j \in 1..Len(q) : i < j => q[i] < q[j]

\* What the walk has so far is the list up to its cursor, in order unless the
\* device broke the rules, and a request under way resumes at the cursor.
ListIs ==
    /\ listing \in [cursor : Nat, got : Seq(Symbols), done : BOOLEAN, short : BOOLEAN]
    /\ \A k \in 1..Len(listing.got) : listing.got[k] \in device.symbols
    /\ \A i \in device.symbols : (listing.done /\ ~listing.short) \/ i < listing.cursor => In(i, listing.got)
    /\ faults = 0 => /\ Increasing(listing.got)
                     /\ ~listing.done => \A k \in 1..Len(listing.got) : listing.got[k] < listing.cursor
    /\ op.kind = "browse" => op.start = listing.cursor /\ op.max \in Nat \ {0} /\ ~listing.done

\* The ordering guard compares neighbours, and orders the whole page.
LEMMA NeighboursSuffice ==
    ASSUME NEW q \in Seq(Nat), Tag!Ascending(q)
    PROVE  Increasing(q)
<1> SUFFICES ASSUME NEW i \in 1..Len(q), NEW j \in 1..Len(q), i < j, ~(q[i] < q[j]) PROVE FALSE
  BY DEF Increasing
<1> DEFINE B == {k \in 1..Len(q) : i < k /\ ~(q[i] < q[k])}
<1>0. Len(q) \in Nat /\ \A k \in 1..Len(q) : q[k] \in Nat  BY LenProperties
<1>1. B \in SUBSET Nat /\ B # {}
  <2>1. j \in B  OBVIOUS
  <2>2. \A k \in 1..Len(q) : k \in Nat  BY ONLY <1>0
  <2>3. B \subseteq 1..Len(q)  OBVIOUS
  <2> HIDE DEF B
  <2>4. QED  BY ONLY <2>1, <2>2, <2>3
<1> HIDE DEF B
<1>2. PICK k \in B : \A m \in B : k <= m  BY ONLY <1>1, LeastMember
<1>3. k \in 1..Len(q) /\ i < k /\ ~(q[i] < q[k])  BY DEF B
<1>4. k - 1 \in 1..(Len(q) - 1) /\ k - 1 \in 1..Len(q) /\ (k - 1) + 1 = k  BY <1>0, <1>3
<1>5. q[k - 1] < q[k]  BY <1>4 DEF Tag!Ascending
<1>6. k - 1 \notin B  BY <1>0, <1>2, <1>3
<1>7. i = k - 1 \/ q[i] < q[k - 1]  BY <1>0, <1>3, <1>4, <1>6 DEF B
<1>8. QED  BY <1>0, <1>3, <1>4, <1>5, <1>7

\* The members of a page are strictly ascending symbols.
LEMMA PageShape ==
    ASSUME NEW g \in Tag!Pages
    PROVE  g \in Seq(Symbols) /\ g \in Seq(Nat) /\ Tag!Ascending(g) /\ Increasing(g)
<1>1. PICK m \in Nat : g \in [1..m -> Symbols]  BY DEF Tag!Pages, Tag!BoundedSeq, Tag!SeqOf
<1>2. g \in Seq(Symbols)  BY <1>1
<1>3. g \in [1..m -> Nat]  BY <1>1, TagSizes
<1>4. g \in Seq(Nat)  BY <1>3
<1>5. Tag!Ascending(g)  BY DEF Tag!Pages
<1>6. QED  BY <1>2, <1>4, <1>5, NeighboursSuffice

\* The members of a sequence, in either notation.
LEMMA Members ==
    ASSUME NEW S, NEW q \in Seq(S)
    PROVE  \A i : i \in Tag!ToSet(q) <=> In(i, q)
<1>1. DOMAIN q = 1..Len(q)  BY LenProperties
<1>2. QED  BY <1>1 DEF Tag!ToSet, In

\* A page written backwards passes the ordering guard only when that changes nothing.
LEMMA BackwardsIsRefused ==
    ASSUME NEW g \in Tag!Pages, Tag!Ascending(Tag!Reverse(g))
    PROVE  Tag!Reverse(g) = g
<1> DEFINE r == Tag!Reverse(g)
<1>1. g \in Seq(Nat) /\ Increasing(g)  BY PageShape
<1>2. Len(g) \in Nat /\ DOMAIN g = 1..Len(g) /\ \A i \in 1..Len(g) : g[i] \in Nat  BY <1>1, LenProperties
<1>3. r = [i \in 1..Len(g) |-> g[(Len(g) - i) + 1]]  BY DEF Tag!Reverse
<1>4. Len(r) = Len(g)
  <2>1. \A i \in 1..Len(g) : g[(Len(g) - i) + 1] \in Nat  BY <1>2
  <2>2. r \in [1..Len(g) -> Nat]  BY <1>3, <2>1
  <2>3. QED  BY <1>2, <2>2, LenProperties
<1>5. CASE Len(g) > 1
  <2>1. 1 \in 1..(Len(r) - 1) /\ 1 \in 1..Len(g) /\ 2 \in 1..Len(g)  BY <1>2, <1>4, <1>5
  <2>2. r[1] < r[1 + 1]  BY <2>1 DEF Tag!Ascending
  <2>3. r[1] = g[Len(g)] /\ r[2] = g[Len(g) - 1]  BY <1>2, <1>3, <2>1
  <2>4. g[Len(g) - 1] < g[Len(g)]  BY <1>1, <1>2, <1>5 DEF Increasing
  <2>5. QED  BY <1>2, <1>5, <2>2, <2>3, <2>4
<1>6. CASE Len(g) <= 1
  <2>1. \A i \in 1..Len(g) : r[i] = g[i]  BY <1>2, <1>3, <1>6
  <2>2. g = [i \in 1..Len(g) |-> g[i]] /\ r = [i \in 1..Len(g) |-> r[i]]  BY <1>1, <1>2, <1>3
  <2>3. QED  BY <2>1, <2>2
<1>7. QED  BY <1>2, <1>5, <1>6

\* The last instance id ends the instance space.
LEMMA TopIsLast == Tag!Top \in Symbols /\ \A i \in Symbols : i <= Tag!Top
BY TagSizes DEF Tag!Top

\* What a page lists from `from` on, before it is cut.
ListsFrom(g, more, S, from) ==
    /\ \A k \in 1..Len(g) : g[k] \in S
    /\ \A i \in S : i >= from /\ ~In(i, g) => more /\ g # <<>> /\ \A k \in 1..Len(g) : g[k] < i

\* A page and its cut: whatever the page size, the records returned are those up
\* to the resume point, and without one those up to the end.
LEMMA CutIsExact ==
    ASSUME NEW S \in SUBSET Symbols, NEW g \in Tag!Pages, NEW more \in BOOLEAN, NEW from \in Nat,
           NEW max \in Nat \ {0}, ListsFrom(g, more, S, from)
    PROVE  LET cut == Tag!Cut(g, max)
               cursor == Tag!CutCursor(g, more, max)
           IN  /\ cut \in Seq(Symbols) /\ Increasing(cut)
               /\ \A k \in 1..Len(cut) : In(cut[k], g)
               /\ cursor = Tag!NoCursor \/ (cursor \in Nat /\ cut # <<>> /\ \A k \in 1..Len(cut) : cut[k] < cursor)
               /\ \A i \in S : i >= from /\ (cursor = Tag!NoCursor \/ i < cursor) => In(i, cut)
<1> DEFINE cut == Tag!Cut(g, max)
           cursor == Tag!CutCursor(g, more, max)
           n == IF Len(g) > max THEN max ELSE Len(g)
<1>1. /\ g \in Seq(Symbols) /\ g \in Seq(Nat) /\ Increasing(g)  BY PageShape
<1>2. /\ Len(g) \in Nat /\ (g = <<>> <=> Len(g) = 0)
      /\ \A i \in 1..Len(g) : g[i] \in Symbols /\ g[i] \in Nat
  BY <1>1, LenProperties, EmptySeq
<1>3. n \in Nat /\ n <= Len(g) /\ (n = 0 <=> Len(g) = 0)  BY <1>2
<1>4. cut \in Seq(Symbols) /\ Len(cut) = n /\ \A k \in 1..n : cut[k] = g[k]
  <2>1. CASE Len(g) > max
    <3>1. cut = SubSeq(g, 1, max) /\ n = max  BY <2>1 DEF Tag!Cut
    <3>2. \A i \in 1..max : g[i] \in Symbols  BY <1>2, <2>1
    <3>3. /\ SubSeq(g, 1, max) \in Seq(Symbols)
          /\ Len(SubSeq(g, 1, max)) = IF 1 <= max THEN max - 1 + 1 ELSE 0
          /\ \A i \in 1..(max - 1 + 1) : SubSeq(g, 1, max)[i] = g[1 + i - 1]
      BY <3>2, SubSeqProperties
    <3>4. QED  BY <3>1, <3>3
  <2>2. CASE ~(Len(g) > max)  BY <1>1, <2>2 DEF Tag!Cut
  <2>3. QED  BY <2>1, <2>2
<1>5. /\ cursor = -1 \/ (n > 0 /\ cursor = g[n] + 1)
      /\ cursor = -1 => (n = Len(g) /\ (~more \/ n = 0)) \/ (n > 0 /\ g[n] = Tag!Top)
  <2>1. CASE Len(g) > max
    <3>1. cursor = IF g[max] = Tag!Top THEN -1 ELSE g[max] + 1  BY <1>2, <2>1 DEF Tag!CutCursor, Tag!NoCursor
    <3>2. n = max /\ n > 0 /\ g[n] \in Nat  BY <1>2, <1>3, <2>1
    <3> HIDE DEF cursor, n
    <3>3. QED  BY <3>1, <3>2
  <2>2. CASE ~(Len(g) > max)
    <3>1. cursor = IF ~more \/ g = <<>> \/ g[Len(g)] = Tag!Top THEN -1 ELSE g[Len(g)] + 1
      BY <1>2, <2>2 DEF Tag!CutCursor, Tag!Resume, Tag!NoCursor, Tag!Last
    <3>2. n = Len(g) /\ (g = <<>> <=> n = 0) /\ n \in Nat /\ (n > 0 => g[n] \in Nat)  BY <1>2, <2>2
    <3> HIDE DEF cursor, n
    <3>3. cursor = IF ~more \/ n = 0 \/ g[n] = Tag!Top THEN -1 ELSE g[n] + 1  BY ONLY <3>1, <3>2
    <3>4. QED  BY ONLY <3>2, <3>3
  <2>3. QED  BY <2>1, <2>2
<1> HIDE DEF cut, cursor, n
<1>6. Increasing(cut)
  <2> SUFFICES ASSUME NEW i \in 1..Len(cut), NEW j \in 1..Len(cut), i < j PROVE cut[i] < cut[j]  BY DEF Increasing
  <2>1. i \in 1..n /\ j \in 1..n /\ i \in 1..Len(g) /\ j \in 1..Len(g)  BY <1>2, <1>3, <1>4
  <2>2. cut[i] = g[i] /\ cut[j] = g[j] /\ g[i] < g[j]  BY <1>1, <1>4, <2>1 DEF Increasing
  <2>3. QED  BY ONLY <2>2
<1>7. \A k \in 1..Len(cut) : In(cut[k], g)  BY <1>2, <1>3, <1>4 DEF In
<1>8. n > 0 => /\ g[n] \in Nat /\ g[n] \in Symbols
               /\ \A k \in 1..n : g[k] <= g[n]
               /\ \A k \in 1..Len(g) : k > n => g[n] < g[k]
  BY <1>1, <1>2, <1>3 DEF Increasing
<1>9. cursor = -1 \/ (cursor \in Nat /\ cut # <<>> /\ \A k \in 1..Len(cut) : cut[k] < cursor)
  <2> SUFFICES ASSUME n > 0, cursor = g[n] + 1
               PROVE  cursor \in Nat /\ cut # <<>> /\ \A k \in 1..Len(cut) : cut[k] < cursor
    BY <1>5
  <2>1. cut # <<>>  BY <1>4, EmptySeq
  <2>2. ASSUME NEW k \in 1..Len(cut) PROVE cut[k] < cursor
    <3>1. k \in 1..Len(g) /\ cut[k] = g[k] /\ g[k] <= g[n] /\ g[k] \in Nat  BY <1>2, <1>3, <1>4, <1>8
    <3>2. QED  BY <1>8, <3>1
  <2>3. QED  BY <1>8, <2>1, <2>2
<1>10. ASSUME NEW i \in S, i >= from, cursor = -1 \/ i < cursor PROVE In(i, cut)
  <2>1. i \in Symbols /\ i \in Nat /\ i <= Tag!Top  BY TagSizes, TopIsLast
  <2>2. CASE n > 0 /\ i <= g[n]
    <3>1. In(i, g)  BY <1>2, <1>3, <1>8, <1>10, <2>1, <2>2 DEF ListsFrom
    <3>2. PICK k \in 1..Len(g) : g[k] = i  BY <3>1 DEF In
    <3>3. k \in 1..n  BY <1>2, <1>3, <1>8, <2>2, <3>2
    <3>4. QED  BY <1>4, <3>2, <3>3 DEF In
  <2>3. CASE cursor = -1 /\ n = Len(g) /\ (~more \/ n = 0)
    <3>1. In(i, g)  BY <1>2, <1>10, <2>3 DEF ListsFrom
    <3>2. QED  BY <1>4, <2>3, <3>1 DEF In
  <2>4. QED  BY <1>5, <1>8, <1>10, <2>1, <2>2, <2>3
<1>11. QED  BY <1>4, <1>6, <1>7, <1>9, <1>10 DEF cut, cursor, Tag!NoCursor

\* A page is taken: the walk has its cut, and goes on at the resume point or is done.
LEMMA PageTaken ==
    ASSUME TagTypes, ListIs, op.kind = "browse", device' = device, NEW g \in Tag!Pages, NEW more \in BOOLEAN,
           NEW from \in Nat, from <= op.start, ListsFrom(g, more, device.symbols, from), Tag!Page(g, more),
           (faults' = faults /\ \A k \in 1..Len(g) : g[k] >= op.start) \/ faults' = faults + 1
    PROVE  ListIs'
<1> DEFINE cut == Tag!Cut(g, op.max)
           cursor == Tag!CutCursor(g, more, op.max)
           q == listing.got
<1>1. /\ device.symbols \in SUBSET Symbols /\ faults \in Nat
      /\ q \in Seq(Symbols) /\ listing.cursor \in Nat /\ op.start = listing.cursor
      /\ op.max \in Nat \ {0} /\ ~listing.done
  BY DEF TagTypes, DeviceType, ListIs
<1>2. op'.kind = "none"  BY DEF Tag!Page, Tag!Finish, Tag!NoOp
<1>3. CASE UNCHANGED listing
  <2>1. faults' = 0 => faults = 0  BY <1>1
  <2>2. QED  BY <1>2, <1>3, <2>1 DEF ListIs
<1>4. CASE listing' = [listing EXCEPT !.got = q \o cut, !.done = cursor = Tag!NoCursor,
                                      !.cursor = IF cursor = Tag!NoCursor THEN listing.cursor ELSE cursor]
  <2>1. /\ cut \in Seq(Symbols) /\ Increasing(cut)
        /\ \A k \in 1..Len(cut) : In(cut[k], g)
        /\ cursor = -1 \/ (cursor \in Nat /\ cut # <<>> /\ \A k \in 1..Len(cut) : cut[k] < cursor)
        /\ \A i \in device.symbols : i >= from /\ (cursor = -1 \/ i < cursor) => In(i, cut)
    BY <1>1, CutIsExact DEF Tag!NoCursor
  <2> DEFINE d == cursor = -1
             c == IF d THEN listing.cursor ELSE cursor
             r == q \o cut
  <2>2. listing' = [listing EXCEPT !.got = r, !.done = d, !.cursor = c]  BY <1>4 DEF Tag!NoCursor
  <2>3. c \in Nat /\ d \in BOOLEAN  BY <1>1, <2>1
  <2>4. /\ r \in Seq(Symbols) /\ Len(r) = Len(q) + Len(cut) /\ Len(q) \in Nat /\ Len(cut) \in Nat
        /\ \A k \in 1..Len(q) : r[k] = q[k]
        /\ \A k \in (Len(q) + 1)..Len(r) : r[k] = cut[k - Len(q)]
    <3> HIDE DEF q, cut
    <3>1. /\ r \in Seq(Symbols) /\ Len(r) = Len(q) + Len(cut)
          /\ \A k \in 1..(Len(q) + Len(cut)) : r[k] = IF k <= Len(q) THEN q[k] ELSE cut[k - Len(q)]
      BY <1>1, <2>1, ConcatProperties
    <3>2. Len(q) \in Nat /\ Len(cut) \in Nat  BY <1>1, <2>1, LenProperties
    <3> HIDE DEF r
    <3>3. QED  BY <3>1, <3>2
  <2>5. \A k \in 1..Len(q) : q[k] \in device.symbols /\ q[k] \in Nat /\ q[k] \in Symbols  BY <1>1, TagSizes DEF ListIs
  <2>6. \A k \in 1..Len(cut) : cut[k] \in device.symbols /\ cut[k] \in Nat
    BY <1>1, <2>1, TagSizes DEF In, ListsFrom
  <2>7. faults' = 0 => /\ Increasing(q) /\ (\A k \in 1..Len(q) : q[k] < op.start)
                       /\ \A k \in 1..Len(cut) : cut[k] >= op.start
    <3>1. faults' = 0 => faults = 0 /\ \A k \in 1..Len(g) : g[k] >= op.start  BY <1>1
    <3>2. QED  BY <1>1, <2>1, <3>1 DEF ListIs, In
  <2>8. cut # <<>> => Len(cut) > 0  BY <2>1, <2>4, EmptySeq
  <2>9. \A i \in device.symbols : i < listing.cursor => In(i, q)  BY DEF ListIs
  <2>10. /\ listing' \in [cursor : Nat, got : Seq(Symbols), done : BOOLEAN, short : BOOLEAN]
         /\ listing'.got = r /\ listing'.done = d /\ listing'.cursor = c
    <3> HIDE DEF r, d, c
    <3>1. listing \in [cursor : Nat, got : Seq(Symbols), done : BOOLEAN, short : BOOLEAN]  BY DEF ListIs
    <3>2. QED  BY <2>2, <2>3, <2>4, <3>1
  <2> HIDE DEF cut, cursor, q, r
  <2>11. ASSUME NEW k \in 1..Len(r) PROVE r[k] \in device.symbols
    <3>1. CASE k <= Len(q)  BY <2>4, <2>5, <3>1
    <3>2. CASE k > Len(q)
      <4>1. k - Len(q) \in 1..Len(cut) /\ k \in (Len(q) + 1)..Len(r)  BY <2>4, <3>2
      <4>2. QED  BY <2>4, <2>6, <4>1
    <3>3. QED  BY <2>4, <3>1, <3>2
  <2>12. ASSUME NEW i \in device.symbols, d \/ i < c PROVE In(i, r)
    <3>1. i \in Nat  BY <1>1, TagSizes
    <3>2. CASE i < listing.cursor
      <4>1. PICK k \in 1..Len(q) : q[k] = i  BY <2>9, <3>2 DEF In
      <4>2. k \in 1..Len(r)  BY <2>4
      <4>3. QED  BY <2>4, <4>1, <4>2 DEF In
    <3>3. CASE ~(i < listing.cursor)
      <4>1. i >= from /\ (cursor = -1 \/ i < cursor)  BY <1>1, <2>12, <3>1, <3>3
      <4>2. PICK k \in 1..Len(cut) : cut[k] = i  BY <2>1, <4>1 DEF In
      <4>3. Len(q) + k \in 1..Len(r) /\ Len(q) + k \in (Len(q) + 1)..Len(r) /\ (Len(q) + k) - Len(q) = k  BY <2>4
      <4>4. r[Len(q) + k] = i  BY <2>4, <4>2, <4>3
      <4>5. QED  BY <4>3, <4>4 DEF In
    <3>4. QED  BY <3>2, <3>3
  <2>13. ASSUME faults' = 0 PROVE Increasing(r)
    <3> SUFFICES ASSUME NEW i \in 1..Len(r), NEW j \in 1..Len(r), i < j PROVE r[i] < r[j]  BY DEF Increasing
    <3>1. CASE j <= Len(q)
      <4>1. i \in 1..Len(q) /\ j \in 1..Len(q)  BY <2>4, <3>1
      <4>2. QED  BY <2>4, <2>7, <2>13, <4>1 DEF Increasing
    <3>2. CASE i <= Len(q) /\ j > Len(q)
      <4>1. i \in 1..Len(q) /\ j \in (Len(q) + 1)..Len(r) /\ j - Len(q) \in 1..Len(cut)  BY <2>4, <3>2
      <4>2. q[i] < op.start /\ cut[j - Len(q)] >= op.start /\ q[i] \in Nat /\ cut[j - Len(q)] \in Nat /\ op.start \in Nat
        BY <1>1, <2>5, <2>6, <2>7, <2>13, <4>1
      <4>3. r[i] = q[i] /\ r[j] = cut[j - Len(q)]  BY <2>4, <4>1
      <4>4. QED  BY <4>2, <4>3
    <3>3. CASE i > Len(q)
      <4>1. /\ i \in (Len(q) + 1)..Len(r) /\ i - Len(q) \in 1..Len(cut)
            /\ j \in (Len(q) + 1)..Len(r) /\ j - Len(q) \in 1..Len(cut) /\ i - Len(q) < j - Len(q)
        BY <2>4, <3>3
      <4>2. r[i] = cut[i - Len(q)] /\ r[j] = cut[j - Len(q)]  BY <2>4, <4>1
      <4>3. QED  BY <2>1, <4>1, <4>2 DEF Increasing
    <3>4. QED  BY <2>4, <3>1, <3>2, <3>3
  <2>14. ASSUME faults' = 0, ~d, NEW k \in 1..Len(r) PROVE r[k] < c
    <3>1. /\ cursor \in Nat /\ c = cursor /\ 1 \in 1..Len(cut) /\ cut[1] < cursor /\ cut[1] >= op.start
          /\ \A m \in 1..Len(cut) : cut[m] < cursor
      BY <2>1, <2>4, <2>7, <2>8, <2>14
    <3>2. CASE k <= Len(q)
      <4>1. k \in 1..Len(q) /\ r[k] = q[k] /\ q[k] < op.start /\ q[k] \in Nat /\ op.start \in Nat /\ cut[1] \in Nat
        BY <1>1, <2>4, <2>5, <2>6, <2>7, <2>14, <3>1, <3>2
      <4>2. QED  BY <3>1, <4>1
    <3>3. CASE k > Len(q)
      <4>1. k - Len(q) \in 1..Len(cut) /\ k \in (Len(q) + 1)..Len(r)  BY <2>4, <3>3
      <4>2. QED  BY <2>4, <3>1, <4>1
    <3>4. QED  BY <2>4, <3>2, <3>3
  <2> HIDE DEF d, c
  <2>15. QED  BY <1>2, <2>10, <2>11, <2>12, <2>13, <2>14 DEF ListIs
<1>5. QED  BY <1>3, <1>4 DEF Tag!Page

\* A step that leaves the listing and the symbols alone, and asks for no page.
LEMMA ListElsewhere ==
    ASSUME TagTypes, ListIs, listing' = listing, device'.symbols = device.symbols,
           op'.kind # "browse" \/ op' = op, faults' = faults \/ faults' = faults + 1
    PROVE  ListIs'
<1>1. faults' = 0 => faults = 0  BY DEF TagTypes
<1>2. QED  BY <1>1 DEF ListIs

\* The caller asks for the next page.
LEMMA PageAsked ==
    ASSUME ListIs, NEW m \in 1..2, Tag!Browse(m)
    PROVE  ListIs'
<1>1. /\ op' = [kind |-> "browse", array |-> FALSE, start |-> listing.cursor, max |-> m] /\ ~listing.done
      /\ UNCHANGED <<device, listing, faults>>
  BY DEF Tag!Browse, Tag!Issue
<1>2. op'.start = listing.cursor /\ op'.max = m /\ m \in Nat \ {0}  BY <1>1
<1>3. QED  BY <1>1, <1>2 DEF ListIs

\* A page of a device that keeps the rules lists what is there from the cursor on.
LEMMA PageComplies ==
    ASSUME TagTypes, ListIs, Tag!BrowseReply
    PROVE  ListIs'
<1>1. op.kind = "browse" /\ device' = device /\ faults' = faults  BY DEF Tag!BrowseReply, Tag!NoFault
<1>2. PICK g \in Tag!Pages, more \in BOOLEAN : Tag!Complies(g, more) /\ Tag!Page(g, more)  BY DEF Tag!BrowseReply
<1>3. g \in Seq(Symbols)  BY PageShape
<1>4. op.start \in Nat /\ device.symbols \in SUBSET Nat  BY <1>1, TagSizes DEF ListIs, TagTypes, DeviceType
<1> DEFINE rest == {i \in device.symbols : i >= op.start}
           T == Tag!ToSet(g)
<1>5. /\ T \subseteq rest /\ (g = <<>> => rest = {}) /\ (\A i \in rest \ T, j \in T : j < i) /\ more = (T # rest)
  BY <1>2 DEF Tag!Complies
<1>6. \A i : i \in T <=> In(i, g)  BY <1>3, Members
<1> HIDE DEF T
<1>7. \A k \in 1..Len(g) : g[k] \in T  BY <1>6 DEF In
<1>8. ListsFrom(g, more, device.symbols, op.start)
  <2>1. \A k \in 1..Len(g) : g[k] \in device.symbols  BY <1>5, <1>7
  <2>2. ASSUME NEW i \in device.symbols, i >= op.start, ~In(i, g)
        PROVE  more /\ g # <<>> /\ \A k \in 1..Len(g) : g[k] < i
    <3>1. i \in rest \ T  BY <1>6, <2>2
    <3>2. more /\ g # <<>>  BY <1>5, <3>1
    <3>3. QED  BY <1>5, <1>7, <3>1, <3>2
  <2>3. QED  BY <2>1, <2>2 DEF ListsFrom
<1>9. \A k \in 1..Len(g) : g[k] >= op.start  BY <1>5, <1>7
<1>10. op.start <= op.start  BY <1>4
<1>11. QED  BY <1>1, <1>2, <1>4, <1>8, <1>9, <1>10, PageTaken

\* A page of one that starts over may repeat records and skips none; backwards it is refused.
LEMMA PageStartsOver ==
    ASSUME TagTypes, ListIs, Tag!BrowseReplyOdd
    PROVE  ListIs'
<1>1. op.kind = "browse" /\ device' = device /\ faults' = faults + 1  BY DEF Tag!BrowseReplyOdd, Tag!Fault
<1>2. PICK g \in Tag!Pages : /\ Tag!ToSet(g) = device.symbols /\ device.symbols # {}
                             /\ Tag!Page(g, TRUE) \/ Tag!Page(Tag!Reverse(g), TRUE)
  BY DEF Tag!BrowseReplyOdd
<1>3. g \in Seq(Symbols)  BY PageShape
<1>4. op.start \in Nat /\ 0 <= op.start  BY <1>1 DEF ListIs
<1>5. \A i : i \in device.symbols <=> In(i, g)  BY <1>2, <1>3, Members
<1>6. ListsFrom(g, TRUE, device.symbols, 0)  BY <1>5 DEF ListsFrom, In
<1>7. CASE Tag!Page(g, TRUE)
  BY <1>1, <1>4, <1>6, <1>7, PageTaken
<1>8. CASE Tag!Page(Tag!Reverse(g), TRUE) /\ Tag!Ascending(Tag!Reverse(g))
  <2>1. Tag!Page(g, TRUE)  BY <1>8, BackwardsIsRefused
  <2>2. QED  BY <1>7, <2>1
<1>9. CASE Tag!Page(Tag!Reverse(g), TRUE) /\ ~Tag!Ascending(Tag!Reverse(g))
  <2>1. listing' = listing /\ op'.kind # "browse"  BY <1>9 DEF Tag!Page, Tag!Finish, Tag!NoOp
  <2>2. QED  BY <1>1, <2>1, ListElsewhere
<1>10. QED  BY <1>2, <1>7, <1>8, <1>9

\* An empty page that says more follow ends the walk as it is.
LEMMA PageIsEmpty ==
    ASSUME TagTypes, ListIs, Tag!BrowseReplyEmpty
    PROVE  ListIs'
<1>1. /\ op.kind = "browse" /\ device' = device /\ faults' = faults + 1 /\ op'.kind = "none"
      /\ listing' = [listing EXCEPT !.done = TRUE, !.short = TRUE]
  BY DEF Tag!BrowseReplyEmpty, Tag!Fault, Tag!Finish, Tag!NoOp
<1>2. listing \in [cursor : Nat, got : Seq(Symbols), done : BOOLEAN, short : BOOLEAN]  BY DEF ListIs
<1>3. /\ listing' \in [cursor : Nat, got : Seq(Symbols), done : BOOLEAN, short : BOOLEAN]
      /\ listing'.got = listing.got /\ listing'.cursor = listing.cursor /\ listing'.done /\ listing'.short
  BY <1>1, <1>2
<1>4. faults' # 0  BY <1>1 DEF TagTypes
<1>5. QED  BY <1>1, <1>3, <1>4 DEF ListIs

\* Reads, writes and what the controller does leave the walk alone.
LEMMA NotAPage ==
    ASSUME TagInv, ListIs,
           \/ \E n \in Counts : \/ \E array \in BOOLEAN : Tag!Read(array, n)
                                \/ \E v \in BOOLEAN : Tag!Write(n, v)
                                \/ Tag!WriteRefused(n)
           \/ Tag!ReadReply \/ Tag!ReadReplyOdd \/ Tag!ReadPartial \/ Tag!ReadFragment \/ Tag!ReadRefused
           \/ Tag!LinkFails \/ (\E s \in {"ok", "partial", "refused"} : Tag!WriteReply(s)) \/ Tag!WriteTimesOut
           \/ Tag!BrowseRefused \/ (\E i \in Places : Tag!Toggle(i)) \/ Tag!Reprogram
    PROVE  ListIs'
<1>0. TagTypes /\ device \in DeviceType /\ (op.kind = "read" => op \in ReadType) /\ (op.kind = "write" => op \in WriteType)
  BY DEF TagInv, TagTypes, ReadIs, TagWriteIs
<1>1. ASSUME NEW o, o.kind # "browse", Tag!Issue(o) PROVE ListIs'
  BY <1>1, <1>0, ListElsewhere DEF Tag!Issue
<1>2. ASSUME NEW n \in Counts, \E array \in BOOLEAN : Tag!Read(array, n) PROVE ListIs'
  <2>1. PICK array \in BOOLEAN : Tag!Read(array, n)  BY <1>2
  <2> DEFINE o == [kind |-> "read", array |-> array, n |-> n, fragment |-> FALSE, code |-> Tag!NoType, acc |-> <<>>,
                   asked |-> IF Tag!reads_packed(array) THEN Tag!packed_dword_count(n) ELSE n]
  <2>2. Tag!Issue(o)  BY <2>1 DEF Tag!Read
  <2>3. o.kind # "browse"  OBVIOUS
  <2> HIDE DEF o
  <2>4. QED  BY <1>1, <2>2, <2>3
<1>3. ASSUME NEW n \in Counts, \E v \in BOOLEAN : Tag!Write(n, v) PROVE ListIs'
  <2>1. PICK v \in BOOLEAN : Tag!Write(n, v)  BY <1>3
  <2> DEFINE o == [kind |-> "write", array |-> TRUE, n |-> n, value |-> v, sent |-> 0, applied |-> {}]
  <2>2. Tag!Issue(o)  BY <2>1 DEF Tag!Write
  <2>3. o.kind # "browse"  OBVIOUS
  <2> HIDE DEF o
  <2>4. QED  BY <1>1, <2>2, <2>3
<1>4. ASSUME NEW n \in Counts, Tag!WriteRefused(n) PROVE ListIs'
  BY <1>4, <1>0, ListElsewhere DEF Tag!WriteRefused
<1>5. ASSUME NEW ty, NEW us, Tag!Arrived(ty, us) PROVE op'.kind # "browse"
  BY <1>5 DEF Tag!Arrived, Tag!Poison, Tag!Finish, Tag!NoOp
<1>6. CASE Tag!ReadReply
  <2>1. op'.kind # "browse" /\ UNCHANGED <<device, listing, faults>>
    BY <1>5, <1>6 DEF Tag!ReadReply, Tag!Stays, Tag!NoFault
  <2>2. QED  BY <2>1, <1>0, ListElsewhere
<1>7. CASE Tag!ReadReplyOdd
  <2>1. op'.kind # "browse" /\ UNCHANGED <<device, listing>> /\ faults' = faults + 1
    BY <1>5, <1>7 DEF Tag!ReadReplyOdd, Tag!Stays, Tag!Fault
  <2>2. QED  BY <2>1, <1>0, ListElsewhere
<1>8. CASE Tag!ReadPartial
  <2>1. op.kind = "read" /\ op' = [op EXCEPT !.fragment = TRUE] /\ UNCHANGED <<device, listing, faults>>
    BY <1>8 DEF Tag!ReadPartial, Tag!Stays, Tag!NoFault
  <2>2. op'.kind # "browse"  BY <2>1
  <2>3. QED  BY <2>1, <2>2, <1>0, ListElsewhere
<1>9. CASE Tag!ReadFragment
  <2>1. PICK k \in 0..Bits, more \in BOOLEAN : Tag!Fragment(k, more)  BY <1>9 DEF Tag!ReadFragment
  <2>2. op.kind = "read" /\ UNCHANGED <<device, listing>> /\ (faults' = faults \/ faults' = faults + 1)
    BY <1>9 DEF Tag!ReadFragment, Tag!Stays, Tag!NoFault, Tag!Fault
  <2>3. op'.kind # "browse"
    <3> DEFINE acc == op.acc \o Tag!Units(Len(op.acc), Len(op.acc) + k)
    <3>1. \/ op' = [kind |-> "none"]
          \/ op' = [op EXCEPT !.acc = acc, !.code = device.storage]
          \/ Tag!Arrived(device.storage, acc)
      BY <2>1 DEF Tag!Fragment, Tag!Poison, Tag!NoOp
    <3> HIDE DEF acc
    <3>2. CASE op' = [op EXCEPT !.acc = acc, !.code = device.storage]
      BY <1>0, <2>2, <3>2 DEF ReadType
    <3>3. QED  BY <1>5, <3>1, <3>2
  <2>4. QED  BY <2>2, <2>3, <1>0, ListElsewhere
<1>10. CASE Tag!ReadRefused
  <2>1. op'.kind # "browse" /\ UNCHANGED <<device, listing>> /\ (faults' = faults \/ faults' = faults + 1)
    BY <1>10 DEF Tag!ReadRefused, Tag!Stays, Tag!NoFault, Tag!Fault, Tag!Finish, Tag!NoOp
  <2>2. QED  BY <2>1, <1>0, ListElsewhere
<1>11. CASE Tag!LinkFails \/ Tag!WriteTimesOut
  <2>1. op'.kind # "browse" /\ UNCHANGED <<device, listing>> /\ faults' = faults + 1
    BY <1>11 DEF Tag!LinkFails, Tag!WriteTimesOut, Tag!Fault, Tag!Poison, Tag!Finish, Tag!NoOp
  <2>2. QED  BY <2>1, <1>0, ListElsewhere
<1>12. CASE Tag!BrowseRefused
  <2>1. op' = [kind |-> "none"] /\ UNCHANGED <<device, listing, faults>>
    BY <1>12 DEF Tag!BrowseRefused, Tag!NoFault, Tag!Finish, Tag!NoOp
  <2>2. QED  BY <2>1, <1>0, ListElsewhere
<1>13. ASSUME NEW s, Tag!WriteReply(s) PROVE ListIs'
  <2>1. op.kind = "write" /\ listing' = listing /\ (faults' = faults \/ faults' = faults + 1)
    BY <1>13 DEF Tag!WriteReply, Tag!NoFault, Tag!Fault
  <2>2. device'.symbols = device.symbols  BY <1>0, <1>13 DEF Tag!WriteReply, DeviceType
  <2>3. op'.kind # "browse"
    <3> DEFINE end == Tag!ChunkEnd(op)
               ap == IF s = "ok" THEN op.applied \cup (op.sent..(end - 1)) ELSE op.applied
    <3>1. op' = [kind |-> "none"] \/ op' = [op EXCEPT !.sent = end, !.applied = ap]
      BY <1>13 DEF Tag!WriteReply, Tag!Finish, Tag!NoOp
    <3> HIDE DEF end, ap
    <3>2. [op EXCEPT !.sent = end, !.applied = ap].kind = op.kind  BY <1>0, <2>1 DEF WriteType
    <3>3. CASE op' = [op EXCEPT !.sent = end, !.applied = ap]
      <4>1. op'.kind = [op EXCEPT !.sent = end, !.applied = ap].kind  BY ONLY <3>3
      <4>2. QED  BY ONLY <2>1, <3>2, <4>1
    <3>4. CASE op' = [kind |-> "none"]  BY ONLY <3>4
    <3>5. QED  BY <3>1, <3>3, <3>4
  <2>4. QED  BY <2>1, <2>2, <2>3, <1>0, ListElsewhere
<1>14. ASSUME NEW i \in Places, Tag!Toggle(i) PROVE ListIs'
  <2>1. device'.symbols = device.symbols  BY <1>0, <1>14 DEF Tag!Toggle, DeviceType
  <2>2. QED  BY <1>14, <2>1, <1>0, ListElsewhere DEF Tag!Toggle
<1>15. CASE Tag!Reprogram
  <2>1. device'.symbols = device.symbols  BY <1>0, <1>15 DEF Tag!Reprogram, DeviceType
  <2>2. QED  BY <1>15, <2>1, <1>0, ListElsewhere DEF Tag!Reprogram
<1>16. QED
  BY <1>2, <1>3, <1>4, <1>6, <1>7, <1>8, <1>9, <1>10, <1>11, <1>12, <1>13, <1>14, <1>15

\* A walk starts at the first instance with nothing.
LEMMA ListStart ==
    ASSUME Tag!Init
    PROVE  ListIs
<1>1. /\ device.symbols \in SUBSET Symbols /\ op.kind = "none"
      /\ listing = [cursor |-> 0, got |-> <<>>, done |-> FALSE, short |-> FALSE]
  BY DEF Tag!Init, Tag!NoOp
<1>2. Len(<<>>) = 0 /\ <<>> \in Seq(Symbols)  OBVIOUS
<1>3. \A i \in device.symbols : ~(i < 0)
  <2>1. device.symbols \in SUBSET Nat  BY <1>1, TagSizes
  <2>2. QED  BY <2>1
<1>4. QED  BY <1>1, <1>2, <1>3 DEF ListIs, Increasing, In

\* Every step of the tag session keeps the walk's invariant.
LEMMA ListStep ==
    ASSUME TagInv, ListIs, [Tag!Next]_(Tag!vars)
    PROVE  ListIs'
<1>0. TagTypes  BY DEF TagInv
<1>1. CASE UNCHANGED Tag!vars  BY <1>0, <1>1, ListElsewhere DEF Tag!vars
<1>2. CASE Tag!Next  BY <1>0, <1>2, NotAPage, PageAsked, PageComplies, PageStartsOver, PageIsEmpty DEF Tag!Next, Places
<1>3. QED  BY <1>1, <1>2

\* A walk that is done met every symbol.
LEMMA ListExact ==
    ASSUME ListIs
    PROVE  Tag!WalkExact
<1> SUFFICES ASSUME listing.done
             PROVE  /\ Tag!ToSet(listing.got) \subseteq device.symbols
                    /\ ~listing.short => Tag!ToSet(listing.got) = device.symbols
                    /\ faults = 0 => Tag!Ascending(listing.got)
  BY DEF Tag!WalkExact
<1>1. listing.got \in Seq(Symbols)  BY DEF ListIs
<1>2. \A i : i \in Tag!ToSet(listing.got) <=> In(i, listing.got)  BY <1>1, Members
<1>3. (\A i : In(i, listing.got) => i \in device.symbols) /\ (~listing.short => \A i \in device.symbols : In(i, listing.got))
  BY DEF ListIs, In
<1>4. ASSUME faults = 0, NEW i \in 1..(Len(listing.got) - 1) PROVE listing.got[i] < listing.got[i + 1]
  <2>1. Increasing(listing.got) /\ Len(listing.got) \in Nat  BY <1>1, <1>4, LenProperties DEF ListIs
  <2>2. i \in 1..Len(listing.got) /\ i + 1 \in 1..Len(listing.got) /\ i < i + 1  BY <2>1
  <2>3. QED  BY <2>1, <2>2 DEF Increasing
<1>5. QED  BY <1>2, <1>3, <1>4 DEF Tag!Ascending

-----------------------------------------------------------------------------
(* The adapter's services *)

AdapterInv ==
    /\ part = "cert" => CertInv
    /\ part = "command" => CommandInv
    /\ part = "metrics" => MetricInv
    /\ part = "poll" => TagInv /\ ListIs

\* A step is one of the part that runs.
LEMMA PartSteps ==
    ASSUME [AllNext]_all
    PROVE  /\ part' = part
           /\ part = "cert" => [Cert!Next]_(Cert!vars)
           /\ part = "command" => [Command!Next]_(Command!vars)
           /\ part = "metrics" => [Metric!Next]_(Metric!vars)
           /\ part = "poll" => [Tag!Next]_(Tag!vars)
BY DEF AllNext, all, certVars, cmdVars, metricVars, pollVars, Cert!vars, Cert!driver, Command!vars, Metric!vars, Tag!vars

\* The inductive invariants of the parts hold of every behaviour.
THEOREM AdapterInvariance == AllSpec => []AdapterInv
<1>1. ASSUME AllInit PROVE AdapterInv
  BY <1>1, CertInit, CommandStart, MetricStart, TagStart, ListStart DEF AllInit, AdapterInv
<1>2. ASSUME AdapterInv, [AllNext]_all PROVE AdapterInv'
  <2>1. /\ part' = part /\ (part = "cert" => [Cert!Next]_(Cert!vars))
        /\ (part = "command" => [Command!Next]_(Command!vars))
        /\ (part = "metrics" => [Metric!Next]_(Metric!vars))
        /\ (part = "poll" => [Tag!Next]_(Tag!vars))
    BY <1>2, PartSteps
  <2>2. part = "cert" => CertInv'  BY <1>2, <2>1, CertStep DEF AdapterInv
  <2>3. part = "metrics" => MetricInv'  BY <1>2, <2>1, MetricStep DEF AdapterInv
  <2>4. part = "command" => CommandInv'  BY <1>2, <2>1, CommandStep DEF AdapterInv
  <2>5. part = "poll" => TagInv' /\ ListIs'  BY <1>2, <2>1, TagStep, ListStep DEF AdapterInv
  <2>6. QED  BY <2>1, <2>2, <2>3, <2>4, <2>5 DEF AdapterInv
<1>3. QED  BY <1>1, <1>2, PTL DEF AllSpec

\* No session outlives the material that was observed to have changed, and the
\* operator is told once of every expiry state (tls.rs, run_cert_lifecycle).
THEOREM RotationsAreApplied == AllSpec => []RotationIsApplied
<1>1. AdapterInv => RotationIsApplied  BY DEF AdapterInv, CertInv, ExpiryTold, Due, RotationIsApplied, Cert!ExpiryToldOnce
<1>2. QED  BY <1>1, AdapterInvariance, PTL

\* Whatever is recorded while an emission is under way, every count is in one
\* place: emitted, in an interval whose emission failed, drained or open; and
\* across reconnects the totals say what reached the task (metrics.rs; a frame
\* the queue evicted counts as a gap, as one the network lost does).
THEOREM EveryCountOnce == AllSpec => []CountsAddUp
<1>1. AdapterInv => CountsAddUp  BY MetricsExact DEF AdapterInv, CountsAddUp
<1>2. QED  BY <1>1, AdapterInvariance, PTL

\* However a configuration change stops, restarts and replaces instances while
\* a command runs: a task performs only writes its own generation permits, what
\* sb/write reports of the entries it handled is what landed, what a batch cut
\* short had written is in its audit, and a walk that one generation served is
\* complete and names nothing twice (commands.rs).
THEOREM CommandsAreTruthful == AllSpec => []CommandsTruthful
<1>1. AdapterInv => CommandsTruthful  BY CommandsExact DEF AdapterInv, CommandsTruthful
<1>2. QED  BY <1>1, AdapterInvariance, PTL

\* Whatever the controller stores, counts, cuts or changes between two requests,
\* a GOOD reading has the configured shape and values the tag had meanwhile, a
\* write reported done was applied to its last element, and a change of
\* representation costs a controller that answers the counts asked of it
\* (CountsAnswered) one reading at most (eip/session.rs, logix.rs).
THEOREM SessionsAreExact == AllSpec => []SessionExact
<1>1. AdapterInv => SessionExact
  <2>1. TagInv => Tag!OneSampleAtMost  BY DEF TagInv, Converging, Tag!OneSampleAtMost
  <2>2. QED  BY <2>1 DEF AdapterInv, TagInv, SessionExact
<1>2. QED  BY <1>1, AdapterInvariance, PTL

\* With pages cut to any size, at any last instance id, a finished walk over the
\* tag list has met every symbol, in order and once; a device that starts over
\* may repeat symbols and still hides none; only an empty page that says more
\* follow ends it early (logix.rs list_tags, session.rs paginate_browse).
THEOREM ListingsAreExact == AllSpec => []ListingExact
<1>1. AdapterInv => ListingExact  BY ListExact DEF AdapterInv, ListingExact
<1>2. QED  BY <1>1, AdapterInvariance, PTL
=============================================================================
