--------------------------- MODULE QueueTheorems ---------------------------
(***************************************************************************)
(* What the operations of a bounded channel do to its content: the send,   *)
(* the receive, and the eviction of one element; and which sample of a     *)
(* batch is its last GOOD one.                                             *)
(***************************************************************************)
EXTENDS Integers, SequencesExt, Batches, SequenceTheorems, WellFoundedInduction, TLAPS

In(x, q) == \E i \in 1..Len(q) : q[i] = x

\* What appending does to what is queued (mpsc send).
LEMMA AppendIn ==
    ASSUME NEW S, NEW q \in Seq(S), NEW x \in S
    PROVE  /\ Append(q, x) \in Seq(S) /\ Len(Append(q, x)) = Len(q) + 1 /\ Len(q) \in Nat
           /\ \A i \in 1..Len(q) : Append(q, x)[i] = q[i]
           /\ Append(q, x)[Len(q) + 1] = x
           /\ \A y : In(y, Append(q, x)) <=> In(y, q) \/ y = x
<1>1. /\ Append(q, x) \in Seq(S) /\ Len(Append(q, x)) = Len(q) + 1 /\ Len(q) \in Nat
      /\ \A i \in 1..Len(q) : Append(q, x)[i] = q[i]
      /\ Append(q, x)[Len(q) + 1] = x
  BY AppendProperties, LenProperties
<1>2. QED  BY <1>1 DEF In

\* What taking the head does to what is queued (mpsc recv).
LEMMA TailIn ==
    ASSUME NEW S, NEW q \in Seq(S), q # <<>>
    PROVE  /\ Tail(q) \in Seq(S) /\ Len(Tail(q)) = Len(q) - 1 /\ Len(q) \in Nat \ {0}
           /\ \A i \in 1..Len(Tail(q)) : Tail(q)[i] = q[i + 1] /\ i + 1 \in 1..Len(q)
           /\ q[1] = Head(q)
           /\ \A y : In(y, Tail(q)) => In(y, q)
           /\ \A y : In(y, q) => In(y, Tail(q)) \/ y = Head(q)
<1>1. /\ Tail(q) \in Seq(S) /\ Len(Tail(q)) = Len(q) - 1 /\ Len(q) \in Nat
      /\ \A i \in 1..Len(Tail(q)) : Tail(q)[i] = q[i + 1]
  BY HeadTailProperties, LenProperties
<1>2. Len(q) # 0 /\ q[1] = Head(q)  BY EmptySeq
<1>3. \A i \in 1..Len(Tail(q)) : i + 1 \in 1..Len(q)  BY <1>1
<1>4. ASSUME NEW y, In(y, Tail(q)) PROVE In(y, q)
  BY <1>1, <1>3, <1>4 DEF In
<1>5. ASSUME NEW y, In(y, q) PROVE In(y, Tail(q)) \/ y = Head(q)
  <2>1. PICK i \in 1..Len(q) : q[i] = y  BY <1>5 DEF In
  <2>2. CASE i = 1  BY <1>2, <2>1, <2>2
  <2>3. CASE i # 1
    <3>1. i - 1 \in 1..Len(Tail(q)) /\ Tail(q)[i - 1] = y  BY <1>1, <2>1, <2>3
    <3>2. QED  BY <3>1 DEF In
  <2>4. QED  BY <2>2, <2>3
<1>6. QED  BY <1>1, <1>2, <1>3, <1>4, <1>5

\* Removing the k-th element closes the gap; removing none leaves all.
LEMMA RemoveAtShape ==
    ASSUME NEW S, NEW q \in Seq(S), NEW k \in 0..Len(q)
    PROVE  /\ RemoveAt(q, k) \in Seq(S)
           /\ Len(RemoveAt(q, k)) = IF k = 0 THEN Len(q) ELSE Len(q) - 1
           /\ \A i \in 1..Len(RemoveAt(q, k)) :
                  RemoveAt(q, k)[i] = IF k = 0 \/ i < k THEN q[i] ELSE q[i + 1]
<1> DEFINE a == SubSeq(q, 1, k - 1)
           z == SubSeq(q, k + 1, Len(q))
<1>1. Len(q) \in Nat /\ \A i \in 1..Len(q) : q[i] \in S
  BY LenProperties, ElementOfSeq
<1>2. /\ a \in Seq(S) /\ Len(a) = IF 1 <= k - 1 THEN k - 1 ELSE 0
      /\ \A i \in 1..(k - 1) : a[i] = q[i]
  <2>1. \A i \in 1..(k - 1) : q[i] \in S  BY <1>1
  <2>2. /\ a \in Seq(S) /\ Len(a) = IF 1 <= k - 1 THEN (k - 1) - 1 + 1 ELSE 0
        /\ \A i \in 1..((k - 1) - 1 + 1) : a[i] = q[1 + i - 1]
    BY <2>1, SubSeqProperties
  <2>3. QED  BY <2>2
<1>3. /\ z \in Seq(S) /\ Len(z) = Len(q) - k
      /\ \A i \in 1..(Len(q) - k) : z[i] = q[k + i]
  <2>1. \A i \in (k + 1)..Len(q) : q[i] \in S  BY <1>1
  <2>2. /\ z \in Seq(S) /\ Len(z) = IF k + 1 <= Len(q) THEN Len(q) - (k + 1) + 1 ELSE 0
        /\ \A i \in 1..(Len(q) - (k + 1) + 1) : z[i] = q[(k + 1) + i - 1]
    BY <1>1, <2>1, SubSeqProperties
  <2>3. QED  BY <1>1, <2>2
<1> HIDE DEF a, z
<1>4. /\ a \o z \in Seq(S) /\ Len(a \o z) = Len(a) + Len(z)
      /\ \A i \in 1..(Len(a) + Len(z)) : (a \o z)[i] = IF i <= Len(a) THEN a[i] ELSE z[i - Len(a)]
  BY <1>2, <1>3, ConcatProperties
<1>5. RemoveAt(q, k) = a \o z  BY DEF RemoveAt, a, z
<1>6. Len(a) = (IF k = 0 THEN 0 ELSE k - 1) /\ Len(z) = Len(q) - k  BY <1>1, <1>2, <1>3
<1>7. Len(a \o z) = IF k = 0 THEN Len(q) ELSE Len(q) - 1  BY <1>1, <1>4, <1>6
<1>8. ASSUME NEW i \in 1..Len(a \o z)
      PROVE  (a \o z)[i] = IF k = 0 \/ i < k THEN q[i] ELSE q[i + 1]
  <2>1. (a \o z)[i] = IF i <= Len(a) THEN a[i] ELSE z[i - Len(a)]  BY <1>4
  <2>2. CASE k = 0
    <3>1. Len(a) = 0 /\ i - Len(a) = i /\ i \in 1..(Len(q) - k) /\ k + i = i  BY <1>1, <1>6, <1>7, <2>2
    <3>2. QED  BY <1>3, <2>1, <2>2, <3>1
  <2>3. CASE k # 0 /\ i < k
    <3>1. i <= Len(a) /\ i \in 1..(k - 1)  BY <1>1, <1>6, <1>7, <2>3
    <3>2. QED  BY <1>2, <2>1, <2>3, <3>1
  <2>4. CASE k # 0 /\ ~(i < k)
    <3>1. /\ ~(i <= Len(a)) /\ i - Len(a) \in 1..(Len(q) - k) /\ k + (i - Len(a)) = i + 1
      BY <1>1, <1>6, <1>7, <2>4
    <3>2. QED  BY <1>3, <2>1, <2>4, <3>1
  <2>5. QED  BY <2>2, <2>3, <2>4
<1>9. QED  BY <1>4, <1>5, <1>7, <1>8

\* Removing an element keeps every other one.
LEMMA RemoveKeeps ==
    ASSUME NEW S, NEW q \in Seq(S), NEW k \in 0..Len(q)
    PROVE  /\ RemoveAt(q, k) \in Seq(S)
           /\ \A i \in 1..Len(q) : i # k => In(q[i], RemoveAt(q, k))
<1> DEFINE r == RemoveAt(q, k)
<1>1. /\ r \in Seq(S) /\ Len(r) = IF k = 0 THEN Len(q) ELSE Len(q) - 1
      /\ \A i \in 1..Len(r) : r[i] = IF k = 0 \/ i < k THEN q[i] ELSE q[i + 1]
  BY RemoveAtShape
<1>2. Len(q) \in Nat  BY LenProperties
<1> HIDE DEF r
<1>3. ASSUME NEW i \in 1..Len(q), i # k PROVE In(q[i], r)
  <2>1. CASE k = 0 \/ i < k
    <3>1. i \in 1..Len(r) /\ r[i] = q[i]  BY <1>1, <1>2, <1>3, <2>1
    <3>2. QED  BY <3>1 DEF In
  <2>2. CASE k # 0 /\ i > k
    <3>1. i - 1 \in 1..Len(r) /\ ~(i - 1 < k) /\ (i - 1) + 1 = i  BY <1>1, <1>2, <2>2
    <3>2. r[i - 1] = q[i]  BY <1>1, <2>2, <3>1
    <3>3. QED  BY <3>1, <3>2 DEF In
  <2>3. QED  BY <1>3, <2>1, <2>2
<1>4. QED  BY <1>1, <1>3 DEF r

\* Every set of natural numbers that is not empty has a least member.
LEMMA LeastMember ==
    ASSUME NEW T \in SUBSET Nat, T # {}
    PROVE  \E x \in T : \A y \in T : x <= y
<1>1. PICK x \in T : \A y \in T : ~(<<y, x>> \in OpToRel(<, Nat))
  BY NatLessThanWellFounded, WFMin
<1>2. ASSUME NEW y \in T PROVE x <= y
  <2>1. ~(y < x)  BY <1>1 DEF OpToRel
  <2>2. QED  BY <2>1
<1>3. QED  BY <1>2

\* What is sent when at most one sample and one event are joined.
LEMMA SmallTuples ==
    ASSUME NEW x, NEW y
    PROVE  /\ <<x>> \o <<>> = <<x>> /\ <<>> \o <<x>> = <<x>> /\ <<x>> \o <<y>> = <<x, y>>
           /\ Last(<<x>>) = x /\ Last(<<x, y>>) = y
<1>1. <<x>> \in Seq({x, y}) /\ <<y>> \in Seq({x, y})  OBVIOUS
<1>2. <<x>> \o <<>> = <<x>> /\ <<>> \o <<x>> = <<x>>  BY <1>1, ConcatEmptySeq
<1>3. Append(<<x>>, y) = <<x>> \o <<y>>  BY <1>1, AppendIsConcat
<1>4. Append(<<x>>, y) = <<x, y>>
  <2> DEFINE q == Append(<<x>>, y)
             r == <<x, y>>
  <2>1. Len(<<x>>) = 1 /\ <<x>>[1] = x  OBVIOUS
  <2>2. q \in Seq({x, y}) /\ Len(q) = 2 /\ q[1] = x /\ q[2] = y
    BY <1>1, <2>1, AppendProperties
  <2>3. r \in Seq({x, y}) /\ Len(r) = 2 /\ r[1] = x /\ r[2] = y  OBVIOUS
  <2> HIDE DEF q, r
  <2>4. q = r  BY <2>2, <2>3, SeqEqual
  <2>5. QED  BY <2>4 DEF q, r
<1>5. Last(<<x>>) = x /\ Last(<<x, y>>) = y  BY DEF Last
<1>6. QED  BY <1>2, <1>3, <1>4, <1>5

\* The GOOD samples of a batch have a last one, whose value LastGood is.
LEMMA LastGoodIs ==
    ASSUME NEW S, NEW q \in Seq(S), Goods(q) # {}
    PROVE  \E m \in Goods(q) : /\ \A j \in Goods(q) : j <= m
                               /\ \A e : LastGood(q, e) = q[m].value
<1>1. Len(q) \in Nat /\ Goods(q) \subseteq 1..Len(q)  BY LenProperties DEF Goods
<1> DEFINE T == {Len(q) - i : i \in Goods(q)}
<1>2. T \in SUBSET Nat /\ T # {}  BY <1>1
<1> HIDE DEF T
<1>3. PICK x \in T : \A y \in T : x <= y  BY <1>2, LeastMember
<1>4. PICK m \in Goods(q) : x = Len(q) - m  BY <1>3 DEF T
<1>5. ASSUME NEW j \in Goods(q) PROVE j <= m
  <2>1. Len(q) - j \in T  BY DEF T
  <2>2. x <= Len(q) - j  BY <1>3, <2>1
  <2>3. QED  BY <1>1, <1>4, <2>2
<1> DEFINE c == CHOOSE i \in Goods(q) : \A j \in Goods(q) : j <= i
<1>6. c \in Goods(q) /\ \A j \in Goods(q) : j <= c  BY <1>5
<1>7. c = m  BY <1>1, <1>5, <1>6
<1>8. \A e : LastGood(q, e) = q[m].value  BY <1>7 DEF LastGood
<1>9. QED  BY <1>5, <1>8

\* An empty batch, and a batch of one.
LEMMA LastGoodSmall ==
    ASSUME NEW e, NEW x
    PROVE  /\ Goods(<<>>) = {} /\ LastGood(<<>>, e) = e
           /\ x.quality = "GOOD" => LastGood(<<x>>, e) = x.value /\ Goods(<<x>>) # {}
           /\ x.quality # "GOOD" => LastGood(<<x>>, e) = e /\ Goods(<<x>>) = {}
<1>1. Len(<<>>) = 0 /\ Len(<<x>>) = 1 /\ <<x>>[1] = x  OBVIOUS
<1>2. Goods(<<>>) = {}  BY <1>1 DEF Goods
<1>3. Goods(<<x>>) = IF x.quality = "GOOD" THEN {1} ELSE {}  BY <1>1 DEF Goods
<1>4. x.quality = "GOOD" => LastGood(<<x>>, e) = x.value
  <2> SUFFICES ASSUME x.quality = "GOOD" PROVE LastGood(<<x>>, e) = x.value  OBVIOUS
  <2> DEFINE c == CHOOSE i \in Goods(<<x>>) : \A j \in Goods(<<x>>) : j <= i
  <2>1. Goods(<<x>>) = {1}  BY <1>3
  <2>2. c = 1  BY <2>1
  <2>3. QED  BY <1>1, <2>1, <2>2 DEF LastGood
<1>5. QED  BY <1>2, <1>3, <1>4 DEF LastGood

\* Buffering a sample (Batcher::add): a GOOD one is the batch's last.
LEMMA LastGoodAppend ==
    ASSUME NEW S, NEW q \in Seq(S), NEW x \in S, NEW e
    PROVE  /\ x.quality = "GOOD" =>
                 /\ Goods(Append(q, x)) = Goods(q) \cup {Len(q) + 1}
                 /\ LastGood(Append(q, x), e) = x.value
           /\ x.quality # "GOOD" =>
                 /\ Goods(Append(q, x)) = Goods(q)
                 /\ LastGood(Append(q, x), e) = LastGood(q, e)
<1> DEFINE a == Append(q, x)
<1>1. /\ Len(a) = Len(q) + 1 /\ Len(q) \in Nat /\ a[Len(q) + 1] = x
      /\ \A i \in 1..Len(q) : a[i] = q[i]
  BY AppendIn
<1> HIDE DEF a
<1>2. x.quality = "GOOD" => Goods(a) = Goods(q) \cup {Len(q) + 1}  BY <1>1 DEF Goods
<1>3. x.quality # "GOOD" => Goods(a) = Goods(q)  BY <1>1 DEF Goods
<1>4. Goods(q) \subseteq 1..Len(q)  BY DEF Goods
<1>5. ASSUME x.quality = "GOOD" PROVE LastGood(a, e) = x.value
  <2> DEFINE c == CHOOSE i \in Goods(a) : \A j \in Goods(a) : j <= i
  <2>1. Len(q) + 1 \in Goods(a) /\ \A j \in Goods(a) : j <= Len(q) + 1  BY <1>1, <1>2, <1>4, <1>5
  <2>2. c \in Goods(a) /\ \A j \in Goods(a) : j <= c  BY <2>1
  <2>3. c = Len(q) + 1  BY <1>1, <1>2, <1>4, <1>5, <2>1, <2>2
  <2>4. QED  BY <1>1, <2>1, <2>3 DEF LastGood
<1>6. ASSUME x.quality # "GOOD" PROVE LastGood(a, e) = LastGood(q, e)
  <2>1. CASE Goods(q) = {}  BY <1>3, <1>6, <2>1 DEF LastGood
  <2>2. CASE Goods(q) # {}
    <3> DEFINE c == CHOOSE i \in Goods(q) : \A j \in Goods(q) : j <= i
    <3>1. PICK m \in Goods(q) : \A j \in Goods(q) : j <= m  BY <2>2, LastGoodIs
    <3>2. c \in Goods(q)  BY <3>1
    <3>3. a[c] = q[c]  BY <1>1, <1>4, <3>2
    <3>4. LastGood(q, e) = q[c].value  BY <2>2 DEF LastGood
    <3> DEFINE d == CHOOSE i \in Goods(a) : \A j \in Goods(a) : j <= i
    <3>5. LastGood(a, e) = a[d].value  BY <1>3, <1>6, <2>2 DEF LastGood
    <3>6. d = c  BY <1>3, <1>6
    <3>7. QED  BY <3>3, <3>4, <3>5, <3>6
  <2>3. QED  BY <2>1, <2>2
<1>7. QED  BY <1>2, <1>3, <1>5, <1>6 DEF a
=============================================================================
