----------------------------- MODULE RtpProofs -----------------------------
(***************************************************************************)
(* Proofs about both ends of RTP, RtpReception and RtpPacker, for every    *)
(* number of packets and all sizes.                                        *)
(***************************************************************************)
EXTENDS RtpReception, RtpPacker, SequenceTheorems, WellFoundedInduction, TLAPS

-----------------------------------------------------------------------------
(* Sequence numbers.                                                       *)

\* The numbers are counted modulo an even number; the packets that can meet in the
\* receiver lie less than half of it apart.
LEMMA Numbers ==
  /\ Modulus \in Nat /\ Half \in Nat /\ Modulus = 2 * Half /\ Reach \in Nat /\ Reach < Half
  /\ Modulus > 0 /\ First \in Nat /\ First < Modulus
  /\ MaxPackets \in Nat /\ fThresholdTime \in Nat
<1>1. /\ Modulus \in Nat /\ Reach \in Nat /\ 2 * Reach < Modulus /\ Modulus % 2 = 0
      /\ First \in 0 .. Modulus - 1 /\ MaxPackets \in Nat /\ fThresholdTime \in Nat
  BY ReceptionAssumption
<1>2. Half \in Nat /\ Modulus = 2 * Half
  BY <1>1 DEF Half
<1> QED BY <1>1, <1>2

\* Division with remainder.
LEMMA Division ==
  ASSUME NEW a \in Int, NEW m \in Int, m > 0
  PROVE  a % m \in Int /\ 0 <= a % m /\ a % m < m /\ a \div m \in Int /\ a % m = a - m * (a \div m)
<1>1. a % m = a - m * (a \div m)
  OBVIOUS
<1>2. a % m \in Int /\ 0 <= a % m /\ a % m < m
  OBVIOUS
<1> QED BY <1>1, <1>2

\* A remainder is what is left of whole turns.
LEMMA Remainder ==
  ASSUME NEW a \in Int
  PROVE  /\ a % Modulus \in Nat /\ a % Modulus < Modulus
         /\ \E q \in Int : a % Modulus = a - Modulus * q
<1>1. Modulus \in Int /\ Modulus > 0
  BY Numbers
<1> QED BY <1>1, Division

\* A multiple of Modulus that lies between -2 and 2 times Modulus.
LEMMA SmallMultiple ==
  ASSUME NEW k \in Int, NEW x \in Int, x = Modulus * k, -2 * Modulus < x, x < 2 * Modulus
  PROVE  x \in {-Modulus, 0, Modulus}
<1>1. Modulus \in Nat /\ Modulus > 0
  BY Numbers
<1>2. k < 2
  <2> SUFFICES ASSUME k >= 2 PROVE FALSE
    OBVIOUS
  <2>1. Modulus * k >= Modulus * 2
    BY <1>1
  <2> QED BY <1>1, <2>1
<1>3. k > -2
  <2> SUFFICES ASSUME k <= -2 PROVE FALSE
    OBVIOUS
  <2>1. Modulus * k <= Modulus * (-2)
    BY <1>1
  <2> QED BY <1>1, <2>1
<1>4. k = -1 \/ k = 0 \/ k = 1
  BY <1>2, <1>3
<1> QED BY <1>1, <1>4

\* s is r and d more, reduced to a remainder again.
Shifted(r, s, d) ==
  /\ r \in Nat /\ r < Modulus /\ s \in Nat /\ s < Modulus
  /\ s = r + d - Modulus \/ s = r + d \/ s = r + d + Modulus

\* Two remainders differ by what the numbers differ by, or by Modulus more or less.
LEMMA RemaindersDiffer ==
  ASSUME NEW a \in Int, NEW d \in Int, -Modulus < d, d < Modulus
  PROVE  Shifted(a % Modulus, (a + d) % Modulus, d)
<1>0. PICK b : b = a + d
  OBVIOUS
<1>1. PICK ra : ra = a % Modulus
  OBVIOUS
<1>2. PICK rb : rb = b % Modulus
  OBVIOUS
<1>3. ra \in Nat /\ ra < Modulus /\ rb \in Nat /\ rb < Modulus
  BY <1>0, <1>1, <1>2, Remainder
<1>4. PICK qa \in Int : ra = a - Modulus * qa
  BY <1>1, Remainder
<1>5. PICK qb \in Int : rb = b - Modulus * qb
  BY <1>0, <1>2, Remainder
<1>6. Modulus \in Nat
  BY Numbers
<1>7. PICK x : x = Modulus * (qb - qa)
  OBVIOUS
<1>8. x \in Int /\ x = d - (rb - ra) /\ qb - qa \in Int
  BY <1>0, <1>3, <1>4, <1>5, <1>6, <1>7
<1>9. x \in {-Modulus, 0, Modulus}
  <2>1. -2 * Modulus < x /\ x < 2 * Modulus
    BY <1>3, <1>6, <1>8
  <2> QED BY <1>7, <1>8, <2>1, SmallMultiple
<1>10. Shifted(ra, rb, d)
  BY <1>3, <1>6, <1>8, <1>9 DEF Shifted
<1> QED BY <1>0, <1>1, <1>2, <1>10

\* The remainder of a number with a known remainder a little further on.
LEMMA SameRemainder ==
  ASSUME NEW a \in Int, NEW b \in Int, NEW d \in Int, a % Modulus = b % Modulus,
         -Modulus < d, d < Modulus
  PROVE  (a + d) % Modulus = (b + d) % Modulus
<1>1. Shifted(a % Modulus, (a + d) % Modulus, d) /\ Shifted(b % Modulus, (b + d) % Modulus, d)
  BY RemaindersDiffer
<1>2. Modulus \in Nat
  BY Numbers
<1> QED BY <1>1, <1>2 DEF Shifted

\* A whole turn does not change the remainder.
LEMMA WholeTurn ==
  ASSUME NEW a \in Nat, a < Modulus
  PROVE  (Modulus + a) % Modulus = a
<1>1. Modulus \in Nat /\ Modulus > 0
  BY Numbers
<1>2. PICK r : r = (Modulus + a) % Modulus
  OBVIOUS
<1>3. r \in Nat /\ r < Modulus
  BY <1>1, <1>2, Remainder
<1>4. PICK q \in Int : r = (Modulus + a) - Modulus * q
  BY <1>1, <1>2, Remainder
<1>5. Modulus * (1 - q) = Modulus - Modulus * q
  BY <1>1
<1>6. PICK x : x = Modulus * (1 - q)
  OBVIOUS
<1>7. x \in Int /\ x = r - a /\ 1 - q \in Int
  BY <1>1, <1>3, <1>4, <1>5, <1>6
<1>8. x \in {-Modulus, 0, Modulus}
  <2>1. -2 * Modulus < x /\ x < 2 * Modulus
    BY <1>1, <1>3, <1>7
  <2> QED BY <1>6, <1>7, <2>1, SmallMultiple
<1> QED BY <1>1, <1>2, <1>3, <1>7, <1>8

\* What 16 bits tell of packets m and n that lie less than Half apart: which is the
\* same, which is newer, and by how much.
NumbersTell(m, n) ==
  /\ Seq16(m) \in Nat /\ Seq16(m) < Modulus /\ Seq16(n) \in Nat /\ Seq16(n) < Modulus
  /\ Seq16(m) = Seq16(n) <=> m = n
  /\ seqNumLT(Seq16(m), Seq16(n)) <=> m < n
  /\ seqNumLT(Seq16(n), Seq16(m)) <=> n < m
  /\ m < n => Seq16(n) - Seq16(m) = n - m - (IF Seq16(n) < Seq16(m) THEN Modulus ELSE 0)
  /\ n <= m => Seq16(n) - Seq16(m) = n - m + (IF Seq16(n) - Seq16(m) >= Half THEN Modulus ELSE 0)

\* Less than half a turn apart, seqNumLT and equality of the numbers tell what was sent first.
LEMMA NearNumbers ==
  ASSUME NEW m \in Int, NEW n \in Int, n - m < Half, m - n < Half
  PROVE  NumbersTell(m, n)
<1> DEFINE a == Seq16(m)
           b == Seq16(n)
<1>1. /\ Modulus \in Nat /\ Half \in Nat /\ Modulus = 2 * Half /\ First \in Int /\ Modulus > 0
  BY Numbers
<1>2. Shifted(a, b, n - m)
  <2>1. First + m \in Int /\ n - m \in Int /\ (First + m) + (n - m) = First + n
    BY <1>1
  <2>2. -Modulus < n - m /\ n - m < Modulus
    BY <1>1
  <2> QED BY <2>1, <2>2, RemaindersDiffer DEF Seq16
<1> HIDE DEF a, b
<1>4. a = b <=> m = n
  BY <1>1, <1>2 DEF Shifted
<1>5. seqNumLT(a, b) <=> m < n
  BY <1>1, <1>2 DEF seqNumLT, Shifted
<1>6. seqNumLT(b, a) <=> n < m
  BY <1>1, <1>2 DEF seqNumLT, Shifted
<1>8. m < n => b - a = n - m - (IF b < a THEN Modulus ELSE 0)
  BY <1>1, <1>2 DEF Shifted
<1>7. n <= m => b - a = n - m + (IF b - a >= Half THEN Modulus ELSE 0)
  BY <1>1, <1>2 DEF Shifted
<1> QED BY <1>2, <1>4, <1>5, <1>6, <1>7, <1>8 DEF NumbersTell, Shifted, a, b

\* The number after that of packet n is that of the next packet.
LEMMA NextNumber ==
  ASSUME NEW n \in Int
  PROVE  (Seq16(n) + 1) % Modulus = Seq16(n + 1)
<1>1. /\ Modulus \in Nat /\ Modulus > 1 /\ First \in Nat /\ First + n \in Int
  BY Numbers
<1>2. PICK s : s = Seq16(n)
  OBVIOUS
<1>3. s \in Nat /\ s < Modulus
  BY <1>1, <1>2, Remainder DEF Seq16
<1>4. s % Modulus = (First + n) % Modulus
  <2>1. s % Modulus = s
    BY <1>1, <1>3
  <2> QED BY <1>2, <2>1 DEF Seq16
<1>5. (s + 1) % Modulus = ((First + n) + 1) % Modulus
  <2>1. s \in Int /\ 1 \in Int /\ -Modulus < 1 /\ 1 < Modulus
    BY <1>1, <1>3
  <2> QED BY <1>1, <1>4, <2>1, SameRemainder
<1>6. (First + n) + 1 = First + (n + 1)
  BY <1>1
<1> QED BY <1>2, <1>5, <1>6 DEF Seq16

-----------------------------------------------------------------------------
(* Sets and sequences.                                                     *)

\* A set of natural numbers that is not empty has a smallest one.
LEMMA SmallestNumber ==
  ASSUME NEW N \in SUBSET Nat, N # {}
  PROVE  \E n \in N : \A m \in N : n <= m
  <1>1. PICK n \in N : \A m \in N : <<m, n>> \notin OpToRel(<, Nat)
    BY WFMin, NatLessThanWellFounded
  <1>2. ASSUME NEW m \in N PROVE n <= m
    <2>1. m \in Nat /\ n \in Nat
      OBVIOUS
    <2>2. ~(m < n)
      BY <1>1, <2>1 DEF OpToRel
    <2>3. QED BY <2>1, <2>2
  <1>3. QED BY <1>2

\* The least element of a set of packets, and the greater and the lesser of two.
LEMMA MinIsLeast ==
  ASSUME NEW N \in SUBSET Nat, N # {}
  PROVE  Min(N) \in N /\ \A m \in N : Min(N) <= m
<1>1. \E n \in N : \A m \in N : n <= m
  BY SmallestNumber
<1> QED BY <1>1 DEF Min

LEMMA MaxOfTwo ==
  ASSUME NEW a \in Int, NEW b \in Int
  PROVE  Max({a, b}) = IF a >= b THEN a ELSE b
<1> DEFINE x == IF a >= b THEN a ELSE b
<1>1. x \in {a, b} /\ \A y \in {a, b} : x >= y
  OBVIOUS
<1>2. \A z \in {a, b} : (\A y \in {a, b} : z >= y) => z = x
  OBVIOUS
<1> HIDE DEF x
<1>3. Max({a, b}) = x
  BY <1>1, <1>2 DEF Max
<1> QED BY <1>3 DEF x

LEMMA MinOfTwo ==
  ASSUME NEW a \in Int, NEW b \in Int
  PROVE  Min({a, b}) = IF a <= b THEN a ELSE b
<1> DEFINE x == IF a <= b THEN a ELSE b
<1>1. x \in {a, b} /\ \A y \in {a, b} : x <= y
  OBVIOUS
<1>2. \A z \in {a, b} : (\A y \in {a, b} : z <= y) => z = x
  OBVIOUS
<1> HIDE DEF x
<1>3. Min({a, b}) = x
  BY <1>1, <1>2 DEF Min
<1> QED BY <1>3 DEF x

\* A sequence over a set is one over any larger set.
LEMMA SeqOfMore ==
  ASSUME NEW S, NEW T, S \subseteq T, NEW s \in Seq(S)
  PROVE  s \in Seq(T)
<1>1. s \in [1 .. Len(s) -> S] /\ Len(s) \in Nat
  OBVIOUS
<1>2. s \in [1 .. Len(s) -> T]
  BY <1>1
<1> QED BY <1>1, <1>2, SeqDef

\* Putting e into a list at place p moves the entries from p on by one.
LEMMA EntryInserted ==
  ASSUME NEW S, NEW h \in Seq(S), NEW p \in 1 .. Len(h) + 1, NEW e \in S
  PROVE  LET r == InsertAt(h, p, e)
         IN /\ r \in Seq(S) /\ Len(r) = Len(h) + 1
            /\ \A i \in 1 .. Len(h) + 1 :
                 r[i] = IF i < p THEN h[i] ELSE IF i = p THEN e ELSE h[i - 1]
  <1> DEFINE a == SubSeq(h, 1, p - 1)
             b == SubSeq(h, p, Len(h))
             c == a \o <<e>>
  <1>1. p \in 1 .. Len(h) + 1 /\ Len(h) \in Nat
    BY LenProperties
  <1>2. a \in Seq(S) /\ Len(a) = p - 1 /\ \A i \in 1 .. p - 1 : a[i] = h[i]
    BY <1>1, ElementOfSeq, SubSeqProperties
  <1>3. b \in Seq(S) /\ Len(b) = Len(h) - p + 1 /\ \A i \in 1 .. Len(h) - p + 1 : b[i] = h[p + i - 1]
    BY <1>1, ElementOfSeq, SubSeqProperties
  <1> HIDE DEF a, b
  <1>4. <<e>> \in Seq(S) /\ Len(<<e>>) = 1 /\ <<e>>[1] = e
    OBVIOUS
  <1>5. c \in Seq(S) /\ Len(c) = p /\ \A i \in 1 .. p : c[i] = IF i < p THEN h[i] ELSE e
    <2>1. c \in Seq(S) /\ Len(c) = p
      <3>1. c \in Seq(S) /\ Len(c) = Len(a) + Len(<<e>>)
        BY <1>2, <1>4, ConcatProperties
      <3>2. QED BY <1>1, <1>2, <1>4, <3>1
    <2>2. ASSUME NEW i \in 1 .. p PROVE c[i] = IF i < p THEN h[i] ELSE e
      <3>1. c[i] = IF i <= Len(a) THEN a[i] ELSE <<e>>[i - Len(a)]
        <4>1. i \in 1 .. Len(a) + Len(<<e>>)
          BY <1>1, <1>2, <1>4
        <4>2. QED BY <1>2, <1>4, <4>1, ConcatProperties
      <3>2. CASE i < p
        BY <1>1, <1>2, <3>1, <3>2
      <3>3. CASE i = p
        <4>1. i - Len(a) = 1 /\ ~(i <= Len(a))
          BY <1>1, <1>2, <3>3
        <4>2. QED BY <1>4, <3>1, <3>3, <4>1
      <3>4. i < p \/ i = p
        BY <1>1
      <3> HIDE DEF c
      <3>5. QED BY <3>2, <3>3, <3>4
    <2>3. QED BY <2>1, <2>2
  <1> HIDE DEF c
  <1>6. c \o b \in Seq(S) /\ Len(c \o b) = Len(h) + 1
    <2>1. c \o b \in Seq(S) /\ Len(c \o b) = Len(c) + Len(b)
      BY <1>3, <1>5, ConcatProperties
    <2>2. QED BY <1>1, <1>3, <1>5, <2>1
  <1>7. ASSUME NEW i \in 1 .. Len(h) + 1
        PROVE  (c \o b)[i] = IF i < p THEN h[i] ELSE IF i = p THEN e ELSE h[i - 1]
    <2>1. CASE i <= p
      <3>1. (c \o b)[i] = c[i]
        BY <1>1, <1>3, <1>5, <2>1, ConcatProperties
      <3>2. QED BY <1>1, <1>5, <2>1, <3>1
    <2>2. CASE ~(i <= p)
      <3>1. (c \o b)[i] = b[i - p]
        BY <1>1, <1>3, <1>5, <2>2, ConcatProperties
      <3>2. i - p \in 1 .. Len(h) - p + 1 /\ p + (i - p) - 1 = i - 1
        BY <1>1, <2>2
      <3>3. QED BY <1>1, <1>3, <2>2, <3>1, <3>2
    <2>3. QED BY <2>1, <2>2
  <1>8. InsertAt(h, p, e) = c \o b
    BY DEF InsertAt, a, b, c
  <1>9. QED BY <1>6, <1>7, <1>8

\* InsertAt into an empty sequence.
LEMMA OnlyEntry ==
  ASSUME NEW S, NEW h \in Seq(S), NEW e \in S
  PROVE  Len(h) = 0 =>
           InsertAt(h, 1, e) \in Seq(S) /\ Len(InsertAt(h, 1, e)) = 1 /\ InsertAt(h, 1, e)[1] = e
<1> SUFFICES ASSUME Len(h) = 0, NEW r, r = InsertAt(h, 1, e)
             PROVE  r \in Seq(S) /\ Len(r) = 1 /\ r[1] = e
  OBVIOUS
<1>1. PICK a, c, b : a = SubSeq(h, 1, 0) /\ c = <<e>> /\ b = SubSeq(h, 1, Len(h))
  OBVIOUS
<1>2. a \in Seq(S) /\ Len(a) = 0 /\ b \in Seq(S) /\ Len(b) = 0
  BY <1>1
<1>3. c \in Seq(S) /\ Len(c) = 1 /\ c[1] = e
  BY <1>1
<1>4. 1 - 1 = 0
  OBVIOUS
<1>5. r = a \o c \o b
  BY <1>1, <1>4 DEF InsertAt
<1>6. a \o c \in Seq(S) /\ Len(a \o c) = 1 /\ (a \o c)[1] = e
  BY <1>2, <1>3, ConcatProperties
<1>7. PICK d : d = a \o c
  OBVIOUS
<1>8. d \o b \in Seq(S) /\ Len(d \o b) = 1 /\ (d \o b)[1] = e
  BY <1>2, <1>6, <1>7, ConcatProperties
<1> QED BY <1>5, <1>7, <1>8

-----------------------------------------------------------------------------
(* The reordering buffer.                                                  *)

\* A packet that waits.
Entry == [no : Packets, age : 0 .. fThresholdTime + 1, first : BOOLEAN, uses : {0, 1}]

\* The same when packets of another SSRC are among them.
AnyEntry == [no : Packets \cup Other, age : 0 .. fThresholdTime + 1, first : BOOLEAN, uses : {0, 1}]

NetTypes == sent \in Seq(Kinds) /\ Len(sent) <= MaxPackets

\* What is known of the buffer whatever comes in.
MixTypes ==
  /\ NetTypes
  /\ queue \in Seq(AnyEntry) /\ seen \in BOOLEAN /\ expected \in Nat /\ expected < Modulus
  /\ due \in Nat /\ other \in BOOLEAN /\ mixed \in BOOLEAN /\ changes \in 0 .. MaxChanges
  /\ queue # <<>> => seen
  /\ other /\ ~mixed => ~seen

\* The order of the packets in q, none before d.
InOrder(q, d) ==
  /\ \A i \in DOMAIN q : d <= q[i].no
  /\ \A i, j \in DOMAIN q : i < j => q[i].no < q[j].no

\* With no packets of another SSRC: those that the buffer has to tell apart are not
\* far behind the last one sent.
BufferInv ==
  /\ NetTypes
  /\ queue \in Seq(Entry) /\ seen \in BOOLEAN /\ expected \in Nat /\ expected < Modulus
  /\ due \in Nat /\ due <= Len(sent) + 1
  /\ queue # <<>> => seen
  /\ seen => due >= 1 /\ Len(sent) - due < Reach /\ expected = Seq16(due)
  /\ InOrder(queue, due)

\* What is known of the places in the buffer.
LEMMA QueueFacts ==
  ASSUME BufferInv
  PROVE  /\ Len(sent) \in Nat /\ Len(queue) \in Nat /\ DOMAIN queue = 1 .. Len(queue)
         /\ \A i \in 1 .. Len(queue) :
              /\ queue[i] \in Entry /\ queue[i].no \in 1 .. Len(sent) /\ due <= queue[i].no
              /\ \A j \in 1 .. Len(queue) : i < j => queue[i].no < queue[j].no
<1>1. /\ Len(sent) \in Nat /\ Len(queue) \in Nat /\ DOMAIN queue = 1 .. Len(queue)
  BY DEF BufferInv, NetTypes
<1>2. \A i \in 1 .. Len(queue) : queue[i] \in Entry
  BY <1>1 DEF BufferInv
<1>3. \A e \in Entry : e.no \in 1 .. Len(sent)
  BY DEF Entry, Packets
<1> QED BY <1>1, <1>2, <1>3 DEF BufferInv, InOrder

\* All numbers are remainders.
LEMMA SeqTyped ==
  ASSUME NEW n \in Int
  PROVE  Seq16(n) \in Nat /\ Seq16(n) < Modulus
<1>1. First + n \in Int
  BY Numbers
<1> QED BY <1>1, Remainder DEF Seq16

\* A used-up packet leaves: the next one is expected.
LEMMA ReleaseKeeps ==
  ASSUME BufferInv, queue # <<>>, ReleaseHead, UNCHANGED sent
  PROVE  BufferInv'
<1>1. /\ Len(sent) \in Nat /\ Len(queue) \in Nat /\ DOMAIN queue = 1 .. Len(queue)
      /\ \A i \in 1 .. Len(queue) :
              /\ queue[i] \in Entry /\ queue[i].no \in 1 .. Len(sent) /\ due <= queue[i].no
              /\ \A j \in 1 .. Len(queue) : i < j => queue[i].no < queue[j].no
  BY QueueFacts
<1>2. Len(queue) # 0 /\ 1 \in 1 .. Len(queue)
  BY <1>1 DEF BufferInv
<1>3. PICK h : h = queue[1].no
  OBVIOUS
<1>4. h \in 1 .. Len(sent) /\ due <= h
  BY <1>1, <1>2, <1>3
<1>5. queue' = Tail(queue) /\ seen' = seen /\ sent' = sent /\ due' = h + 1 /\ expected' = (Seq16(h) + 1) % Modulus
  BY <1>3 DEF ReleaseHead
<1>6. expected' = Seq16(h + 1) /\ expected' \in Nat /\ expected' < Modulus
  BY <1>1, <1>4, <1>5, NextNumber, SeqTyped
<1>7. /\ Tail(queue) \in Seq(Entry) /\ Len(Tail(queue)) = Len(queue) - 1
      /\ \A i \in 1 .. Len(queue) - 1 : Tail(queue)[i] = queue[i + 1]
  BY <1>1, <1>2, HeadTailProperties DEF BufferInv
<1>8. DOMAIN queue' = 1 .. Len(queue) - 1
  BY <1>5, <1>7
<1>9. InOrder(queue', due')
  <2>1. ASSUME NEW i \in 1 .. Len(queue) - 1 PROVE due' <= queue'[i].no
    <3>1. i + 1 \in 1 .. Len(queue) /\ 1 < i + 1
      BY <1>1, <1>2
    <3>2. h < queue[i + 1].no /\ queue[i + 1].no \in Nat /\ h \in Nat
      BY <1>1, <1>2, <1>3, <1>4, <3>1
    <3> QED BY <1>5, <1>7, <3>2
  <2>2. ASSUME NEW i \in 1 .. Len(queue) - 1, NEW j \in 1 .. Len(queue) - 1, i < j
        PROVE  queue'[i].no < queue'[j].no
    <3>1. i + 1 \in 1 .. Len(queue) /\ j + 1 \in 1 .. Len(queue) /\ i + 1 < j + 1
      BY <1>1, <2>2
    <3> QED BY <1>1, <1>5, <1>7, <3>1
  <2> QED BY <1>8, <2>1, <2>2 DEF InOrder
<1>10. Entry' = Entry /\ NetTypes' = NetTypes
  BY <1>5 DEF Entry, Packets, NetTypes
<1>11. seen => due' >= 1 /\ Len(sent) - due' < Reach /\ due' <= Len(sent) + 1 /\ due' \in Nat
  BY <1>1, <1>4, <1>5, Numbers DEF BufferInv
<1>12. seen
  BY DEF BufferInv
<1> QED BY <1>5, <1>6, <1>7, <1>9, <1>10, <1>11, <1>12 DEF BufferInv

\* The first unit of a STAP-A is used: nothing before its packet is expected.
LEMMA GiveUpKeeps ==
  ASSUME BufferInv, queue # <<>>, queue' = [queue EXCEPT ![1].uses = 1], GiveUpEarlier,
         UNCHANGED <<seen, sent>>
  PROVE  BufferInv'
<1>1. /\ Len(sent) \in Nat /\ Len(queue) \in Nat /\ DOMAIN queue = 1 .. Len(queue)
      /\ \A i \in 1 .. Len(queue) :
              /\ queue[i] \in Entry /\ queue[i].no \in 1 .. Len(sent) /\ due <= queue[i].no
              /\ \A j \in 1 .. Len(queue) : i < j => queue[i].no < queue[j].no
  BY QueueFacts
<1>2. Len(queue) # 0 /\ 1 \in 1 .. Len(queue)
  BY <1>1 DEF BufferInv
<1>3. PICK h : h = queue[1].no
  OBVIOUS
<1>4. h \in 1 .. Len(sent) /\ due <= h
  BY <1>1, <1>2, <1>3
<1>5. seen' = seen /\ sent' = sent /\ due' = h /\ expected' = Seq16(h)
  BY <1>3 DEF GiveUpEarlier
<1>6. expected' \in Nat /\ expected' < Modulus
  BY <1>4, <1>5, SeqTyped
<1>7. /\ queue' \in Seq(Entry) /\ Len(queue') = Len(queue) /\ DOMAIN queue' = 1 .. Len(queue)
      /\ \A i \in 1 .. Len(queue) : queue'[i].no = queue[i].no
  <2>1. [queue[1] EXCEPT !.uses = 1] \in Entry /\ [queue[1] EXCEPT !.uses = 1].no = queue[1].no
    BY <1>1, <1>2 DEF Entry
  <2>2. queue' = [queue EXCEPT ![1] = [queue[1] EXCEPT !.uses = 1]]
    OBVIOUS
  <2>3. queue' \in Seq(Entry) /\ Len(queue') = Len(queue)
    BY <1>1, <1>2, <2>1, <2>2, ExceptSeq DEF BufferInv
  <2>4. \A i \in 1 .. Len(queue) : queue'[i] = IF i = 1 THEN [queue[1] EXCEPT !.uses = 1] ELSE queue[i]
    BY <1>1, <2>2
  <2> QED BY <1>1, <2>1, <2>3, <2>4
<1>8. InOrder(queue', due')
  <2>1. ASSUME NEW i \in 1 .. Len(queue) PROVE due' <= queue'[i].no
    <3>1. i = 1 \/ 1 < i
      BY <1>1
    <3>2. h <= queue[i].no
      BY <1>1, <1>2, <1>3, <1>4, <3>1
    <3> QED BY <1>5, <1>7, <3>2
  <2> QED BY <1>1, <1>7, <2>1 DEF InOrder
<1>9. Entry' = Entry /\ NetTypes' = NetTypes
  BY <1>5 DEF Entry, Packets, NetTypes
<1>10. seen => due' >= 1 /\ Len(sent) - due' < Reach /\ due' <= Len(sent) + 1 /\ due' \in Nat
  BY <1>1, <1>4, <1>5, Numbers DEF BufferInv
<1>11. seen
  BY DEF BufferInv
<1> QED BY <1>5, <1>6, <1>7, <1>8, <1>9, <1>10, <1>11 DEF BufferInv

\* Where a packet that is not there yet belongs.
LEMMA PlaceOf ==
  ASSUME BufferInv, NEW n \in 1 .. Len(sent), \A i \in 1 .. Len(queue) : NumbersTell(n, queue[i].no),
         ~Duplicate(Seq16(n)), NEW p, p = Place(Seq16(n))
  PROVE  /\ p \in 1 .. Len(queue) + 1
         /\ \A i \in 1 .. Len(queue) : IF i < p THEN queue[i].no < n ELSE n < queue[i].no
<1>1. /\ Len(sent) \in Nat /\ Len(queue) \in Nat /\ DOMAIN queue = 1 .. Len(queue)
      /\ \A i \in 1 .. Len(queue) :
              /\ queue[i] \in Entry /\ queue[i].no \in 1 .. Len(sent) /\ due <= queue[i].no
              /\ \A j \in 1 .. Len(queue) : i < j => queue[i].no < queue[j].no
  BY QueueFacts
<1> DEFINE stops == {i \in 1 .. Len(queue) : n <= queue[i].no}
<1>2. ASSUME NEW i \in 1 .. Len(queue)
      PROVE  /\ Seq16(n) = Seq16(queue[i].no) <=> n = queue[i].no
             /\ seqNumLT(Seq16(n), Seq16(queue[i].no)) <=> n < queue[i].no
             /\ seqNumLT(Seq16(queue[i].no), Seq16(n)) <=> queue[i].no < n
  <2>1. NumbersTell(n, queue[i].no) /\ queue[i].no \in Int /\ n \in Int
    BY <1>1
  <2> QED BY <2>1 DEF NumbersTell
<1>3. /\ stops = {} => p = Len(queue) + 1
      /\ stops # {} => p = IF queue[Len(queue)].no < n THEN Len(queue) + 1 ELSE Min(stops)
  <2>1. {i \in DOMAIN queue : Seq16(n) = Seq16(queue[i].no) \/ seqNumLT(Seq16(n), Seq16(queue[i].no))} = stops
    BY <1>1, <1>2
  <2>2. stops # {} => Len(queue) \in 1 .. Len(queue)
    BY <1>1
  <2>3. stops # {} => (seqNumLT(Seq16(queue[Len(queue)].no), Seq16(n)) <=> queue[Len(queue)].no < n)
    BY <1>2, <2>2
  <2> HIDE DEF stops
  <2> QED BY <1>1, <2>1, <2>3 DEF Place
<1>4. CASE stops = {}
  <2>1. \A i \in 1 .. Len(queue) : queue[i].no < n
    BY <1>1, <1>4
  <2> QED BY <1>1, <1>3, <1>4, <2>1
<1>5. CASE stops # {} /\ queue[Len(queue)].no < n
  <2>1. Len(queue) \in 1 .. Len(queue)
    BY <1>1, <1>5
  <2>2. \A i \in 1 .. Len(queue) : queue[i].no < n
    BY <1>1, <1>5, <2>1
  <2> QED BY <1>1, <1>3, <1>5, <2>2
<1>6. CASE stops # {} /\ ~(queue[Len(queue)].no < n)
  <2>1. stops \in SUBSET Nat
    BY <1>1
  <2>2. p \in stops /\ \A m \in stops : p <= m
    <3> HIDE DEF stops
    <3> QED BY <1>3, <1>6, <2>1, MinIsLeast
  <2>3. p \in 1 .. Len(queue) /\ n < queue[p].no
    <3>1. p \in 1 .. Len(queue) /\ n <= queue[p].no
      BY <2>2
    <3>2. Seq16(queue[p].no) # Seq16(n)
      BY <1>1, <3>1 DEF Duplicate
    <3> QED BY <1>1, <1>2, <3>1, <3>2
  <2>4. ASSUME NEW i \in 1 .. Len(queue)
        PROVE  IF i < p THEN queue[i].no < n ELSE n < queue[i].no
    <3>1. CASE i < p
      <4>1. i \notin stops
        BY <1>1, <2>2, <2>3, <3>1
      <4> QED BY <1>1, <3>1, <4>1
    <3>2. CASE i = p
      BY <1>1, <2>3, <3>2
    <3>3. CASE p < i
      BY <1>1, <2>3, <3>3
    <3> QED BY <1>1, <2>3, <3>1, <3>2, <3>3
  <2> QED BY <1>1, <2>3, <2>4
<1> QED BY <1>4, <1>5, <1>6

\* What a packet is stored as.
Stored(n) == [no |-> n, age |-> 0, first |-> ~seen, uses |-> 0]

\* Packet n is put at place p, where all before it are older and all behind newer.
StoredAt(n, p) ==
  /\ \A i \in 1 .. Len(queue) : IF i < p THEN queue[i].no < n ELSE n < queue[i].no
  /\ queue' \in Seq(Entry) /\ Len(queue') = Len(queue) + 1
  /\ \A i \in 1 .. Len(queue) + 1 :
       queue'[i] = IF i < p THEN queue[i] ELSE IF i = p THEN Stored(n) ELSE queue[i - 1]

\* A packet that arrives is put where it belongs, or is there already, or comes too
\* late; d is the packet that is expected then.
StoreMeans(n, d) ==
  /\ d \in Nat /\ 1 <= d /\ d <= Len(sent) + 1 /\ Len(sent) - d < Reach
  /\ d = (IF seen THEN due ELSE n)
  /\ seen' = TRUE /\ due' = d /\ expected' = Seq16(d)
  /\ \A i \in 1 .. Len(queue) : d <= queue[i].no
  /\ \/ seen /\ queue' = queue
     \/ d <= n /\ \E p \in 1 .. Len(queue) + 1 : StoredAt(n, p)

\* What storePacket does, in terms of the packets as they were sent.
LEMMA StoreFacts ==
  ASSUME BufferInv, NEW n \in Packets, Len(sent) - n < Reach, storePacket(n), Knows(n) = seen
  PROVE  \E d : StoreMeans(n, d)
<1>1. /\ Len(sent) \in Nat /\ Len(queue) \in Nat /\ DOMAIN queue = 1 .. Len(queue)
      /\ \A i \in 1 .. Len(queue) :
              /\ queue[i] \in Entry /\ queue[i].no \in 1 .. Len(sent) /\ due <= queue[i].no
              /\ \A j \in 1 .. Len(queue) : i < j => queue[i].no < queue[j].no
  BY QueueFacts
<1>2. n \in 1 .. Len(sent) /\ n \in Nat /\ n >= 1 /\ n <= Len(sent) /\ Reach \in Nat /\ Half \in Nat /\ Reach < Half
  BY <1>1, Numbers DEF Packets
<1>3. PICK d : d = IF seen THEN due ELSE n
  OBVIOUS
<1>4. PICK s : s = Seq16(n)
  OBVIOUS
<1>5. PICK e : e = Stored(n)
  OBVIOUS
<1>6. /\ seen' = TRUE /\ due' = d /\ expected' = Seq16(d)
      /\ queue' = IF seqNumLT(s, Seq16(d)) \/ Duplicate(s) THEN queue ELSE InsertAt(queue, Place(s), e)
  <2>1. /\ seen' = TRUE /\ due' = (IF Knows(n) THEN due ELSE n)
        /\ expected' = (IF Knows(n) THEN expected ELSE Seq16(n))
        /\ queue' = IF seqNumLT(Seq16(n), expected') \/ Duplicate(Seq16(n)) THEN queue
                    ELSE InsertAt(queue, Place(Seq16(n)), [no |-> n, age |-> 0, first |-> ~Knows(n), uses |-> 0])
    BY DEF storePacket, Marked
  <2>2. seen => expected = Seq16(due)
    BY DEF BufferInv
  <2>3. expected' = Seq16(d)
    BY <1>3, <2>1, <2>2
  <2> QED BY <1>3, <1>4, <1>5, <2>1, <2>3 DEF Stored
<1>7. d \in Nat /\ 1 <= d /\ d <= Len(sent) + 1 /\ Len(sent) - d < Reach /\ n - d < Half /\ d - n < Half
  BY <1>1, <1>2, <1>3 DEF BufferInv
<1>8. NumbersTell(n, d)
  BY <1>2, <1>7, NearNumbers
<1>9. ASSUME NEW i \in 1 .. Len(queue) PROVE NumbersTell(n, queue[i].no) /\ d <= queue[i].no
  <2>1. seen /\ d = due
    BY <1>1, <1>3 DEF BufferInv
  <2>2. queue[i].no \in Nat /\ queue[i].no <= Len(sent) /\ d <= queue[i].no
    BY <1>1, <2>1
  <2>3. n - queue[i].no < Half /\ queue[i].no - n < Half
    BY <1>1, <1>2, <1>7, <2>2
  <2> QED BY <1>2, <2>2, <2>3, NearNumbers
<1>10. e \in Entry
  BY <1>5, Numbers DEF Entry, BufferInv, Stored
<1>11. (seen /\ queue' = queue) \/ (d <= n /\ \E p \in 1 .. Len(queue) + 1 : StoredAt(n, p))
  <2>1. CASE seqNumLT(s, Seq16(d)) \/ Duplicate(s)
    <3>1. queue' = queue
      BY <1>6, <2>1
    <3>2. CASE seen
      BY <3>1, <3>2
    <3>3. CASE ~seen
      <4>1. d = n /\ queue = <<>>
        BY <1>3, <3>3 DEF BufferInv
      <4>2. ~seqNumLT(s, Seq16(d))
        BY <1>2, <1>4, <1>8, <4>1 DEF NumbersTell
      <4>3. ~Duplicate(s)
        BY <4>1 DEF Duplicate
      <4> QED BY <2>1, <4>2, <4>3
    <3> QED BY <3>2, <3>3
  <2>2. CASE ~(seqNumLT(s, Seq16(d)) \/ Duplicate(s))
    <3>1. PICK p : p = Place(s)
      OBVIOUS
    <3>2. queue' = InsertAt(queue, p, e)
      BY <1>6, <2>2, <3>1
    <3>3. /\ p \in 1 .. Len(queue) + 1
          /\ \A i \in 1 .. Len(queue) : IF i < p THEN queue[i].no < n ELSE n < queue[i].no
      <4>1. ~Duplicate(Seq16(n)) /\ p = Place(Seq16(n))
        BY <1>4, <2>2, <3>1
      <4> QED BY <1>2, <1>9, <4>1, PlaceOf
    <3>4. /\ queue' \in Seq(Entry) /\ Len(queue') = Len(queue) + 1
          /\ \A i \in 1 .. Len(queue) + 1 :
               queue'[i] = IF i < p THEN queue[i] ELSE IF i = p THEN e ELSE queue[i - 1]
      BY <1>10, <3>2, <3>3, EntryInserted DEF BufferInv
    <3>5. d <= n
      BY <1>2, <1>4, <1>7, <1>8, <2>2 DEF NumbersTell
    <3>6. StoredAt(n, p)
      BY <1>5, <3>3, <3>4 DEF StoredAt
    <3> QED BY <3>3, <3>5, <3>6
  <2> QED BY <2>1, <2>2
<1>12. StoreMeans(n, d)
  BY <1>3, <1>6, <1>7, <1>9, <1>11 DEF StoreMeans
<1> QED BY <1>12

\* storePacket keeps the buffer in order.
LEMMA StoreKeeps ==
  ASSUME BufferInv, NEW n \in Packets, Len(sent) - n < Reach, storePacket(n), Knows(n) = seen,
         UNCHANGED sent
  PROVE  BufferInv'
<1>1. /\ Len(sent) \in Nat /\ Len(queue) \in Nat /\ DOMAIN queue = 1 .. Len(queue)
      /\ \A i \in 1 .. Len(queue) :
              /\ queue[i] \in Entry /\ queue[i].no \in 1 .. Len(sent) /\ due <= queue[i].no
              /\ \A j \in 1 .. Len(queue) : i < j => queue[i].no < queue[j].no
  BY QueueFacts
<1>2. PICK d : StoreMeans(n, d)
  BY StoreFacts
<1>3. /\ d \in Nat /\ 1 <= d /\ d <= Len(sent) + 1 /\ Len(sent) - d < Reach
      /\ seen' = TRUE /\ due' = d /\ expected' = Seq16(d) /\ sent' = sent
      /\ \A i \in 1 .. Len(queue) : d <= queue[i].no
      /\ n \in Nat
  BY <1>2 DEF StoreMeans, Packets
<1>4. expected' \in Nat /\ expected' < Modulus
  BY <1>3, SeqTyped
<1>5. Entry' = Entry /\ NetTypes' = NetTypes
  BY <1>3 DEF Entry, Packets, NetTypes
<1>6. queue' \in Seq(Entry) /\ InOrder(queue', d)
  <2>1. CASE queue' = queue
    <3>1. InOrder(queue, d)
      BY <1>1, <1>3 DEF InOrder
    <3> QED BY <2>1, <3>1 DEF BufferInv
  <2>2. ASSUME d <= n, NEW p \in 1 .. Len(queue) + 1, StoredAt(n, p)
        PROVE  queue' \in Seq(Entry) /\ InOrder(queue', d)
    <3>1. /\ queue' \in Seq(Entry) /\ Len(queue') = Len(queue) + 1 /\ DOMAIN queue' = 1 .. Len(queue) + 1
          /\ \A i \in 1 .. Len(queue) : IF i < p THEN queue[i].no < n ELSE n < queue[i].no
      BY <2>2 DEF StoredAt
    <3>2. ASSUME NEW i \in 1 .. Len(queue) + 1
          PROVE  /\ i < p => i \in 1 .. Len(queue) /\ queue'[i].no = queue[i].no
                 /\ i = p => queue'[i].no = n
                 /\ i > p => i - 1 \in 1 .. Len(queue) /\ queue'[i].no = queue[i - 1].no
      BY <1>1, <2>2 DEF StoredAt, Stored
    <3>3. ASSUME NEW i \in 1 .. Len(queue) + 1 PROVE d <= queue'[i].no
      <4>1. i < p \/ i = p \/ i > p
        BY <1>1
      <4> QED BY <1>3, <2>2, <3>2, <4>1
    <3>4. ASSUME NEW i \in 1 .. Len(queue) + 1, NEW j \in 1 .. Len(queue) + 1, i < j
          PROVE  queue'[i].no < queue'[j].no
      <4>1. CASE j < p
        <5>1. i < p
          BY <1>1, <3>4, <4>1
        <5> QED BY <1>1, <3>2, <3>4, <4>1, <5>1
      <4>2. CASE j = p
        <5>1. i < p /\ i \in 1 .. Len(queue)
          BY <1>1, <3>4, <4>2
        <5>2. queue[i].no < n
          BY <3>1, <5>1
        <5> QED BY <3>2, <4>2, <5>1, <5>2
      <4>3. CASE j > p /\ i = p
        <5>1. j - 1 \in 1 .. Len(queue) /\ ~(j - 1 < p)
          BY <1>1, <4>3
        <5>2. n < queue[j - 1].no
          BY <3>1, <5>1
        <5> QED BY <3>2, <4>3, <5>2
      <4>4. CASE j > p /\ i < p
        <5>1. j - 1 \in 1 .. Len(queue) /\ i \in 1 .. Len(queue) /\ i < j - 1
          BY <1>1, <4>4
        <5> QED BY <1>1, <3>2, <4>4, <5>1
      <4>5. CASE j > p /\ i > p
        <5>1. j - 1 \in 1 .. Len(queue) /\ i - 1 \in 1 .. Len(queue) /\ i - 1 < j - 1
          BY <1>1, <3>4, <4>5
        <5> QED BY <1>1, <3>2, <4>5, <5>1
      <4> QED BY <1>1, <4>1, <4>2, <4>3, <4>4, <4>5
    <3> QED BY <3>1, <3>3, <3>4 DEF InOrder
  <2> QED BY <1>2, <2>1, <2>2 DEF StoreMeans
<1> QED BY <1>3, <1>4, <1>5, <1>6 DEF BufferInv

\* Time passes for the packets that wait.
LEMMA OlderEntries ==
  ASSUME NEW N, queue \in Seq([no : N, age : 0 .. fThresholdTime + 1, first : BOOLEAN, uses : {0, 1}]),
         queue' = [i \in DOMAIN queue |->
                     [queue[i] EXCEPT !.age = IF @ <= fThresholdTime THEN @ + 1 ELSE @]]
  PROVE  /\ queue' \in Seq([no : N, age : 0 .. fThresholdTime + 1, first : BOOLEAN, uses : {0, 1}])
         /\ Len(queue') = Len(queue) /\ (queue' = <<>> <=> queue = <<>>)
         /\ \A i \in 1 .. Len(queue) :
              queue'[i].no = queue[i].no /\ queue'[i].first = queue[i].first /\ queue'[i].uses = queue[i].uses
<1> DEFINE E == [no : N, age : 0 .. fThresholdTime + 1, first : BOOLEAN, uses : {0, 1}]
<1>0. queue \in Seq(E)
  OBVIOUS
<1>1. Len(queue) \in Nat /\ DOMAIN queue = 1 .. Len(queue) /\ \A i \in 1 .. Len(queue) : queue[i] \in E
  <2> HIDE DEF E
  <2> QED BY <1>0
<1>2. ASSUME NEW i \in 1 .. Len(queue)
      PROVE  /\ queue'[i] \in E /\ queue'[i].no = queue[i].no
             /\ queue'[i].first = queue[i].first /\ queue'[i].uses = queue[i].uses
  <2>1. /\ queue[i] = [no |-> queue[i].no, age |-> queue[i].age, first |-> queue[i].first, uses |-> queue[i].uses]
        /\ queue[i].no \in N /\ queue[i].age \in 0 .. fThresholdTime + 1
        /\ queue[i].first \in BOOLEAN /\ queue[i].uses \in {0, 1}
    BY <1>1
  <2>2. queue'[i] = [queue[i] EXCEPT !.age = IF queue[i].age <= fThresholdTime THEN queue[i].age + 1
                                             ELSE queue[i].age]
    BY <1>1
  <2>3. (IF queue[i].age <= fThresholdTime THEN queue[i].age + 1 ELSE queue[i].age) \in 0 .. fThresholdTime + 1
    BY <2>1, Numbers
  <2>4. PICK r, a : r = queue[i] /\ a = IF queue[i].age <= fThresholdTime THEN queue[i].age + 1 ELSE queue[i].age
    OBVIOUS
  <2>5. /\ r = [no |-> r.no, age |-> r.age, first |-> r.first, uses |-> r.uses]
        /\ r.no \in N /\ r.first \in BOOLEAN /\ r.uses \in {0, 1} /\ a \in 0 .. fThresholdTime + 1
    BY <2>1, <2>3, <2>4
  <2>6. queue'[i] = [r EXCEPT !.age = a]
    BY <2>2, <2>4
  <2>7. [r EXCEPT !.age = a] = [no |-> r.no, age |-> a, first |-> r.first, uses |-> r.uses]
    BY <2>5
  <2>8. queue'[i] = [no |-> r.no, age |-> a, first |-> r.first, uses |-> r.uses]
    BY <2>6, <2>7
  <2> QED BY <2>4, <2>5, <2>8
<1>3. queue' \in [1 .. Len(queue) -> E]
  BY <1>1, <1>2
<1> HIDE DEF E
<1>4. queue' \in Seq(E) /\ DOMAIN queue' = 1 .. Len(queue)
  BY <1>1, <1>3, SeqDef
<1>5. Len(queue') = Len(queue)
  BY <1>1, <1>4
<1>6. queue' = <<>> <=> queue = <<>>
  BY <1>1, <1>4
<1> QED BY <1>2, <1>4, <1>5, <1>6 DEF E

\* The order does not depend on the ages.
LEMMA TickKeeps ==
  ASSUME BufferInv, UNCHANGED <<sent, seen, expected, due>>,
         queue' = [i \in DOMAIN queue |->
                     [queue[i] EXCEPT !.age = IF @ <= fThresholdTime THEN @ + 1 ELSE @]]
  PROVE  BufferInv'
<1>1. /\ Len(queue) \in Nat /\ DOMAIN queue = 1 .. Len(queue)
      /\ \A i \in 1 .. Len(queue) : due <= queue[i].no
      /\ \A i, j \in 1 .. Len(queue) : i < j => queue[i].no < queue[j].no
  BY QueueFacts
<1>2. /\ queue' \in Seq(Entry) /\ Len(queue') = Len(queue) /\ (queue' = <<>> <=> queue = <<>>)
      /\ \A i \in 1 .. Len(queue) : queue'[i].no = queue[i].no
  BY OlderEntries DEF Entry, BufferInv
<1>3. DOMAIN queue' = 1 .. Len(queue)
  BY <1>1, <1>2
<1>4. InOrder(queue', due)
  BY <1>1, <1>2, <1>3 DEF InOrder
<1>5. Entry' = Entry /\ NetTypes' = NetTypes
  BY DEF Entry, Packets, NetTypes
<1> QED BY <1>2, <1>4, <1>5 DEF BufferInv

-----------------------------------------------------------------------------
(* The count of sequence numbers.                                          *)

\* The extended numbers count on from the packet noted first; the one with the
\* lowest number is less than Reach before it, so that the count stays positive.
Counted ==
  /\ highest >= Modulus /\ highest % Modulus = Seq16(top)
  /\ base >= Modulus - Reach /\ highest - base = top - lowest

CountInv ==
  /\ NetTypes
  /\ top \in Nat /\ top <= Len(sent) /\ lowest \in Nat /\ lowest <= top
  /\ base \in Nat /\ highest \in Nat
  /\ top # 0 => Len(sent) - top < Reach /\ lowest # 0 /\ Counted

\* What is noted of a packet: by how much it is newer or older than the newest.
LEMMA NoteKeeps ==
  ASSUME CountInv, NEW n \in Packets, InReach(n), noteIncomingPacket(n), UNCHANGED sent
  PROVE  CountInv'
<1>1. /\ Modulus \in Nat /\ Half \in Nat /\ Modulus = 2 * Half /\ Reach \in Nat /\ Reach < Half
      /\ Len(sent) \in Nat /\ NetTypes' /\ sent' = sent
  BY Numbers DEF CountInv, NetTypes
<1>2. n \in Nat /\ n >= 1 /\ n <= Len(sent) /\ Len(sent) - n < Reach /\ (top # 0 => top - n < Reach)
  BY <1>1 DEF Packets, InReach
<1>3. PICK s : s = Seq16(n)
  OBVIOUS
<1>4. s \in Nat /\ s < Modulus
  BY <1>2, <1>3, SeqTyped
<1>5. /\ top \in Nat /\ top <= Len(sent) /\ lowest \in Nat /\ lowest <= top
      /\ base \in Nat /\ highest \in Nat
  BY DEF CountInv
<1>6. /\ top' = IF top >= n THEN top ELSE n
      /\ lowest' = IF top = 0 THEN n ELSE IF lowest <= n THEN lowest ELSE n
  BY <1>2, <1>5, MaxOfTwo, MinOfTwo DEF noteIncomingPacket, NoteNumber
<1>7. CASE top = 0
  <2>1. base' = Modulus + s /\ highest' = Modulus + s
    BY <1>3, <1>7 DEF noteIncomingPacket
  <2>2. (Modulus + s) % Modulus = s
    BY <1>4, WholeTurn
  <2>3. top' = n /\ lowest' = n
    BY <1>2, <1>5, <1>6, <1>7
  <2>4. Counted'
    <3>1. highest' >= Modulus /\ base' >= Modulus - Reach /\ highest' - base' = top' - lowest'
      BY <1>1, <1>2, <1>4, <2>1, <2>3
    <3>2. highest' % Modulus = Seq16(top')
      BY <1>3, <2>1, <2>2, <2>3
    <3> QED BY <3>1, <3>2 DEF Counted
  <2> QED BY <1>1, <1>2, <1>4, <2>1, <2>3, <2>4 DEF CountInv
<1>8. CASE top # 0
  <2>1. /\ highest >= Modulus /\ highest % Modulus = Seq16(top)
        /\ base >= Modulus - Reach /\ highest - base = top - lowest
        /\ Len(sent) - top < Reach /\ lowest # 0
    BY <1>8 DEF CountInv, Counted
  <2>2. PICK o : o = Seq16(top)
    OBVIOUS
  <2>3. NumbersTell(top, n)
    <3>1. n - top < Half /\ top - n < Half
      BY <1>1, <1>2, <1>5, <1>8, <2>1
    <3> QED BY <1>2, <1>5, <3>1, NearNumbers
  <2>4. /\ o \in Nat /\ o < Modulus /\ (seqNumLT(o, s) <=> top < n)
        /\ top < n => s - o = n - top - (IF s < o THEN Modulus ELSE 0)
        /\ n <= top => s - o = n - top + (IF s - o >= Half THEN Modulus ELSE 0)
    BY <1>3, <2>2, <2>3 DEF NumbersTell
  <2>5. CASE top < n
    <3>1. highest' = Max({highest, (IF s < o THEN highest - o + Modulus ELSE highest - o) + s}) /\ base' = base
      BY <1>3, <1>8, <2>1, <2>2, <2>4, <2>5 DEF noteIncomingPacket
    <3>2. (IF s < o THEN highest - o + Modulus ELSE highest - o) + s = highest + (n - top)
      BY <1>1, <1>2, <1>4, <1>5, <2>4, <2>5
    <3>3. highest' = highest + (n - top)
      <4>1. highest + (n - top) \in Int /\ highest \in Int /\ ~(highest >= highest + (n - top))
        BY <1>2, <1>5, <2>5
      <4> QED BY <3>1, <3>2, <4>1, MaxOfTwo
    <3>4. top' = n /\ lowest' = lowest
      BY <1>2, <1>5, <1>6, <1>8, <2>5
    <3>5. highest' % Modulus = Seq16(n)
      <4>1. First + top \in Int /\ (First + top) + (n - top) = First + n /\ n - top \in Int
        BY <1>2, <1>5, Numbers
      <4>2. -Modulus < n - top /\ n - top < Modulus
        BY <1>1, <1>2, <1>5, <1>8, <2>1
      <4>3. highest % Modulus = (First + top) % Modulus
        BY <2>1 DEF Seq16
      <4>4. (highest + (n - top)) % Modulus = ((First + top) + (n - top)) % Modulus
        BY <1>5, <4>1, <4>2, <4>3, SameRemainder
      <4> QED BY <3>3, <4>1, <4>4 DEF Seq16
    <3>6. Counted'
      BY <1>1, <1>2, <1>5, <2>1, <2>5, <3>1, <3>3, <3>4, <3>5 DEF Counted
    <3> QED BY <1>1, <1>2, <1>5, <2>1, <2>5, <3>1, <3>3, <3>4, <3>6 DEF CountInv
  <2>6. CASE n <= top
    <3>1. /\ highest' = highest
          /\ base' = Min({base, (IF s - o >= Half THEN highest - o - Modulus ELSE highest - o) + s})
      <4>1. ~(top < n)
        BY <1>2, <1>5, <2>6
      <4>2. ~seqNumLT(o, s) /\ highest % Modulus = o
        BY <2>1, <2>2, <2>4, <4>1
      <4> QED BY <1>3, <1>8, <4>2 DEF noteIncomingPacket
    <3>2. (IF s - o >= Half THEN highest - o - Modulus ELSE highest - o) + s = highest + (n - top)
      BY <1>1, <1>2, <1>4, <1>5, <2>4, <2>6
    <3>3. base' = IF base <= highest + (n - top) THEN base ELSE highest + (n - top)
      <4>1. highest + (n - top) \in Int /\ base \in Int
        BY <1>2, <1>5
      <4> QED BY <3>1, <3>2, <4>1, MinOfTwo
    <3>4. top' = top /\ lowest' = IF lowest <= n THEN lowest ELSE n
      BY <1>2, <1>5, <1>6, <1>8, <2>6
    <3>5. highest' % Modulus = Seq16(top')
      BY <2>1, <3>1, <3>4
    <3>6. Counted'
      BY <1>1, <1>2, <1>5, <1>8, <2>1, <2>6, <3>1, <3>3, <3>4, <3>5 DEF Counted
    <3>7. base' \in Nat
      BY <1>1, <1>2, <1>5, <1>8, <2>1, <2>6, <3>3
    <3> QED BY <1>1, <1>2, <1>5, <2>1, <2>6, <3>1, <3>4, <3>6, <3>7 DEF CountInv
  <2> QED BY <1>2, <1>5, <2>5, <2>6
<1> QED BY <1>7, <1>8

\* A sender who is not too far ahead of what the receiver depends on sends a packet.
LEMMA SendMeans ==
  ASSUME NetTypes, CountInv, due \in Nat, NEW kind \in Kinds, Len(sent) < MaxPackets,
         Len(sent) + 1 - Oldest < Reach, sent' = Append(sent, kind)
  PROVE  /\ NetTypes' /\ Len(sent) \in Nat /\ Len(sent') = Len(sent) + 1 /\ sent \in Seq(Kinds)
         /\ Reach \in Nat /\ Oldest \in Int /\ (seen => Oldest <= due) /\ (top # 0 => Oldest <= top)
<1>1. Len(sent) \in Nat /\ sent \in Seq(Kinds) /\ Reach \in Nat /\ MaxPackets \in Nat
  BY Numbers DEF NetTypes
<1>2. NetTypes' /\ Len(sent') = Len(sent) + 1
  BY <1>1 DEF NetTypes
<1>3. Oldest \in Int /\ (seen => Oldest <= due) /\ (top # 0 => Oldest <= top)
  <2> DEFINE N == (IF seen THEN {due} ELSE {}) \cup (IF top = 0 THEN {} ELSE {top}) \cup {Len(sent) + 1}
  <2>1. N \in SUBSET Nat /\ N # {}
    BY <1>1 DEF CountInv
  <2>2. (seen => due \in N) /\ (top # 0 => top \in N)
    OBVIOUS
  <2>3. Oldest = Min(N)
    BY DEF Oldest
  <2> HIDE DEF N
  <2>4. Min(N) \in N /\ \A m \in N : Min(N) <= m
    BY <2>1, MinIsLeast
  <2>5. Oldest \in Nat /\ \A m \in N : Oldest <= m
    BY <2>1, <2>3, <2>4
  <2> QED BY <2>2, <2>5
<1> QED BY <1>1, <1>2, <1>3

LEMMA SendCounts ==
  ASSUME NetTypes, CountInv, due \in Nat, NEW kind \in Kinds, Len(sent) < MaxPackets,
         Len(sent) + 1 - Oldest < Reach, sent' = Append(sent, kind), UNCHANGED statVars
  PROVE  NetTypes' /\ CountInv'
<1>1. /\ NetTypes' /\ Len(sent) \in Nat /\ Len(sent') = Len(sent) + 1
      /\ Reach \in Nat /\ Oldest \in Int /\ (top # 0 => Oldest <= top)
  BY SendMeans
<1>2. base' = base /\ highest' = highest /\ lowest' = lowest /\ top' = top
  BY DEF statVars
<1>3. Counted' = Counted
  BY <1>2 DEF Counted
<1> QED BY <1>1, <1>2, <1>3 DEF CountInv

LEMMA SendKeeps ==
  ASSUME BufferInv, CountInv, NEW kind \in Kinds, Len(sent) < MaxPackets, Len(sent) + 1 - Oldest < Reach,
         sent' = Append(sent, kind), UNCHANGED bufferVars
  PROVE  BufferInv'
<1>1. /\ NetTypes' /\ Len(sent) \in Nat /\ Len(sent') = Len(sent) + 1
      /\ Reach \in Nat /\ Oldest \in Int /\ (seen => Oldest <= due)
  BY SendMeans DEF BufferInv
<1>2. queue' = queue /\ seen' = seen /\ expected' = expected /\ due' = due
  BY DEF bufferVars
<1>3. queue' \in Seq(Entry')
  <2>1. Entry \subseteq Entry'
    BY <1>1 DEF Entry, Packets
  <2>2. queue \in Seq(Entry)
    BY DEF BufferInv
  <2> QED BY <1>2, <2>1, <2>2, SeqOfMore
<1>4. seen => due >= 1 /\ Len(sent') - due < Reach /\ expected = Seq16(due)
  BY <1>1 DEF BufferInv
<1>5. due \in Nat /\ due <= Len(sent') + 1
  BY <1>1 DEF BufferInv
<1>6. InOrder(queue, due) /\ (queue # <<>> => seen) /\ seen \in BOOLEAN /\ expected \in Nat /\ expected < Modulus
  BY DEF BufferInv
<1> QED BY <1>1, <1>2, <1>3, <1>4, <1>5, <1>6 DEF BufferInv

\* What Append makes of a sequence.
LEMMA Appended ==
  ASSUME NEW S, NEW f \in Seq(S), NEW x \in S, NEW g, g = Append(f, x)
  PROVE  /\ g \in Seq(S) /\ g # <<>> /\ Len(f) \in Nat /\ Len(g) = Len(f) + 1
         /\ DOMAIN f = 1 .. Len(f) /\ DOMAIN g = 1 .. Len(f) + 1
         /\ \A i \in 1 .. Len(f) : g[i] = f[i]
         /\ g[Len(f) + 1] = x
<1>1. g \in Seq(S) /\ g # <<>> /\ Len(f) \in Nat /\ Len(g) = Len(f) + 1
  BY AppendProperties
<1>2. DOMAIN f = 1 .. Len(f) /\ DOMAIN g = 1 .. Len(f) + 1
  BY <1>1
<1>3. g[Len(f) + 1] = x
  BY AppendProperties
<1>4. \A i \in 1 .. Len(f) : g[i] = f[i]
  BY AppendProperties
<1> QED BY <1>1, <1>2, <1>3, <1>4

\* What is known of the packets sent so far stays so.
LEMMA SentStays ==
  ASSUME NetTypes, NEW kind \in Kinds, sent' = Append(sent, kind)
  PROVE  /\ Len(sent) \in Nat /\ Packets' = 1 .. Len(sent) + 1 /\ sent'[Len(sent) + 1] = kind
         /\ \A m \in 1 .. Len(sent) : sent'[m] = sent[m]
         /\ \A n \in 1 .. Len(sent) + 1 : BeginsFrame(n)' = BeginsFrame(n)
<1>1. /\ Len(sent) \in Nat /\ Len(sent') = Len(sent) + 1 /\ sent'[Len(sent) + 1] = kind
      /\ \A m \in 1 .. Len(sent) : sent'[m] = sent[m]
  <2>1. PICK s : s = sent'
    OBVIOUS
  <2>2. sent \in Seq(Kinds) /\ s = Append(sent, kind)
    BY <2>1 DEF NetTypes
  <2> QED BY <2>1, <2>2, Appended
<1>2. ASSUME NEW n \in 1 .. Len(sent) + 1 PROVE BeginsFrame(n)' = BeginsFrame(n)
  <2>1. /\ \A m \in 1 .. n - 1 : sent'[m] = sent[m]
        /\ \A m \in 1 .. n - 1 : \A k \in m + 1 .. n - 1 : sent'[k] = sent[k]
    BY <1>1
  <2> QED BY <2>1 DEF BeginsFrame
<1> QED BY <1>1, <1>2 DEF Packets

\* Steps that leave the statistics alone.
LEMMA CountSame ==
  ASSUME CountInv, sent' = sent, UNCHANGED statVars
  PROVE  CountInv'
<1>1. base' = base /\ highest' = highest /\ lowest' = lowest /\ top' = top
  BY DEF statVars
<1> QED BY <1>1 DEF CountInv, Counted, NetTypes

-----------------------------------------------------------------------------
(* Whatever comes in, also from another SSRC.                              *)

\* The numbers of the other SSRC are those of no packet sent.
LEMMA OthersApart ==
  ASSUME NetTypes
  PROVE  /\ Len(sent) \in Nat /\ Packets = 1 .. Len(sent)
         /\ \A n \in Packets \cup Other : n \in Nat /\ n >= 1
         /\ \A n \in Other : n \notin Packets
<1>1. Len(sent) \in Nat /\ Len(sent) <= MaxPackets /\ Packets = 1 .. Len(sent)
  BY DEF NetTypes, Packets
<1>2. \A n \in Other : n \in Nat /\ n > MaxPackets
  BY ReceptionAssumption DEF Other
<1> QED BY <1>1, <1>2, Numbers

\* What is known of the places in the buffer.
LEMMA PlaceFacts ==
  ASSUME MixTypes
  PROVE  /\ Len(queue) \in Nat /\ DOMAIN queue = 1 .. Len(queue)
         /\ \A i \in 1 .. Len(queue) : queue[i] \in AnyEntry /\ queue[i].no \in Nat /\ queue[i].uses \in {0, 1}
         /\ queue # <<>> => 1 \in 1 .. Len(queue) /\ Head(queue) = queue[1] /\ seen
<1>1. Len(queue) \in Nat /\ DOMAIN queue = 1 .. Len(queue) /\ \A i \in 1 .. Len(queue) : queue[i] \in AnyEntry
  BY DEF MixTypes
<1>2. \A e \in AnyEntry : e.no \in Nat /\ e.uses \in {0, 1}
  BY OthersApart DEF AnyEntry, MixTypes
<1>3. queue # <<>> => 1 \in 1 .. Len(queue) /\ Head(queue) = queue[1] /\ seen
  BY <1>1 DEF MixTypes
<1> QED BY <1>1, <1>2, <1>3

\* A used-up packet leaves.
LEMMA ReleaseTypes ==
  ASSUME MixTypes, queue # <<>>, ReleaseHead, UNCHANGED <<sent, other, changes>>
  PROVE  MixTypes' /\ \A i \in 1 .. Len(queue') : i + 1 \in 1 .. Len(queue) /\ queue'[i] = queue[i + 1]
<1>1. Len(queue) \in Nat /\ queue[1].no \in Nat /\ Head(queue) = queue[1] /\ seen
  BY PlaceFacts
<1>2. PICK h : h = queue[1].no
  OBVIOUS
<1>3. /\ queue' = Tail(queue) /\ seen' = seen /\ mixed' = mixed
      /\ due' = h + 1 /\ expected' = (Seq16(h) + 1) % Modulus
  BY <1>1, <1>2 DEF ReleaseHead
<1>4. expected' \in Nat /\ expected' < Modulus /\ due' \in Nat
  <2>1. Seq16(h) \in Nat /\ h \in Nat
    BY <1>1, <1>2, SeqTyped
  <2>2. Seq16(h) + 1 \in Int
    BY <2>1
  <2> QED BY <1>3, <2>1, <2>2, Remainder
<1>5. /\ queue' \in Seq(AnyEntry) /\ Len(queue') = Len(queue) - 1
      /\ \A i \in 1 .. Len(queue) - 1 : queue'[i] = queue[i + 1]
  BY <1>1, <1>3, HeadTailProperties DEF MixTypes
<1>6. AnyEntry' = AnyEntry /\ NetTypes' = NetTypes
  BY DEF AnyEntry, Packets, NetTypes
<1>7. MixTypes'
  BY <1>1, <1>3, <1>4, <1>5, <1>6 DEF MixTypes
<1> QED BY <1>1, <1>5, <1>7

\* A unit of an aggregate is used, and the packet stays.
LEMMA GiveUpTypes ==
  ASSUME MixTypes, queue # <<>>, queue' = [queue EXCEPT ![1].uses = 1], GiveUpEarlier,
         UNCHANGED <<sent, other, changes>>
  PROVE  /\ MixTypes' /\ Len(queue') = Len(queue) /\ queue' # <<>>
         /\ queue'[1].uses = 1 /\ queue'[1].no = queue[1].no
         /\ \A i \in 1 .. Len(queue) : i # 1 => queue'[i] = queue[i]
<1>1. /\ Len(queue) \in Nat /\ DOMAIN queue = 1 .. Len(queue) /\ 1 \in 1 .. Len(queue)
      /\ queue[1] \in AnyEntry /\ queue[1].no \in Nat /\ Head(queue) = queue[1] /\ seen
  BY PlaceFacts
<1>2. PICK e : e = [queue[1] EXCEPT !.uses = 1]
  OBVIOUS
<1>3. e \in AnyEntry /\ e.no = queue[1].no /\ e.uses = 1
  BY <1>1, <1>2 DEF AnyEntry
<1>4. queue' = [queue EXCEPT ![1] = e]
  BY <1>2
<1>5. queue' \in Seq(AnyEntry) /\ Len(queue') = Len(queue)
  BY <1>1, <1>3, <1>4, ExceptSeq DEF MixTypes
<1>6. queue'[1] = e /\ \A i \in 1 .. Len(queue) : i # 1 => queue'[i] = queue[i]
  BY <1>1, <1>4
<1>7. queue' # <<>>
  BY <1>1, <1>5
<1>8. seen' = seen /\ mixed' = mixed /\ due' = queue[1].no /\ expected' = Seq16(queue[1].no)
  BY <1>1 DEF GiveUpEarlier
<1>9. expected' \in Nat /\ expected' < Modulus
  BY <1>1, <1>8, SeqTyped
<1>10. AnyEntry' = AnyEntry /\ NetTypes' = NetTypes
  BY DEF AnyEntry, Packets, NetTypes
<1>11. MixTypes'
  BY <1>1, <1>5, <1>8, <1>9, <1>10 DEF MixTypes
<1> QED BY <1>3, <1>5, <1>6, <1>7, <1>11

\* A packet is stored, or not.
LEMMA StoreTypes ==
  ASSUME MixTypes, NEW n \in Packets \cup Other, storePacket(n), UNCHANGED sent,
         other' \in BOOLEAN, mixed' \in BOOLEAN, changes' \in 0 .. MaxChanges, other' => mixed'
  PROVE  /\ MixTypes' /\ seen' /\ (queue # <<>> => queue' # <<>>)
         /\ \A i \in 1 .. Len(queue') : queue'[i].uses = 0 \/ \E j \in 1 .. Len(queue) : queue'[i] = queue[j]
<1>1. /\ Len(queue) \in Nat /\ DOMAIN queue = 1 .. Len(queue)
      /\ \A i \in 1 .. Len(queue) : queue[i] \in AnyEntry
  BY PlaceFacts
<1>2. n \in Nat
  BY OthersApart DEF MixTypes
<1>3. PICK s : s = Seq16(n)
  OBVIOUS
<1>4. PICK e : e = [no |-> n, age |-> 0, first |-> Marked(n), uses |-> 0]
  OBVIOUS
<1>5. /\ seen' = TRUE /\ expected' = (IF Knows(n) THEN expected ELSE s) /\ due' = (IF Knows(n) THEN due ELSE n)
      /\ queue' = queue \/ queue' = InsertAt(queue, Place(s), e)
  BY <1>3, <1>4 DEF storePacket
<1>6. expected' \in Nat /\ expected' < Modulus /\ due' \in Nat
  BY <1>2, <1>3, <1>5, SeqTyped DEF MixTypes
<1>7. e \in AnyEntry /\ e.uses = 0
  BY <1>4, Numbers DEF AnyEntry, Marked, Knows
<1>8. PICK p : p = Place(s)
  OBVIOUS
<1>9. p \in 1 .. Len(queue) + 1
  <2> DEFINE stops == {i \in DOMAIN queue : s = Seq16(queue[i].no) \/ seqNumLT(s, Seq16(queue[i].no))}
  <2>1. stops \in SUBSET Nat /\ \A i \in stops : i \in 1 .. Len(queue)
    BY <1>1
  <2>2. p = Len(queue) + 1 \/ (stops # {} /\ p = Min(stops))
    BY <1>8 DEF Place
  <2> HIDE DEF stops
  <2>3. p = Len(queue) + 1 \/ p \in stops
    BY <2>1, <2>2, MinIsLeast
  <2>4. p \in stops => p \in 1 .. Len(queue)
    BY <2>1
  <2>5. Len(queue) + 1 \in 1 .. Len(queue) + 1 /\ 1 .. Len(queue) \subseteq 1 .. Len(queue) + 1
    BY <1>1
  <2> QED BY <2>3, <2>4, <2>5
<1>10. /\ queue' \in Seq(AnyEntry) /\ (queue # <<>> => queue' # <<>>)
       /\ \A i \in 1 .. Len(queue') : queue'[i].uses = 0 \/ \E j \in 1 .. Len(queue) : queue'[i] = queue[j]
  <2>1. CASE queue' = queue
    BY <2>1 DEF MixTypes
  <2>2. CASE queue' = InsertAt(queue, p, e)
    <3>1. queue \in Seq(AnyEntry) /\ e \in AnyEntry
      BY <1>7 DEF MixTypes
    <3>2. /\ queue' \in Seq(AnyEntry) /\ Len(queue') = Len(queue) + 1
          /\ \A i \in 1 .. Len(queue) + 1 :
               queue'[i] = IF i < p THEN queue[i] ELSE IF i = p THEN e ELSE queue[i - 1]
      BY <1>9, <2>2, <3>1, EntryInserted
    <3>3. queue' # <<>>
      BY <1>1, <3>2
    <3>4. ASSUME NEW i \in 1 .. Len(queue')
          PROVE  queue'[i].uses = 0 \/ \E j \in 1 .. Len(queue) : queue'[i] = queue[j]
      <4>1. CASE i < p
        <5>1. i \in 1 .. Len(queue) /\ i \in 1 .. Len(queue) + 1
          BY <1>1, <1>9, <3>2, <4>1
        <5> QED BY <3>2, <4>1, <5>1
      <4>2. CASE i = p
        BY <1>7, <1>9, <3>2, <4>2
      <4>3. CASE i > p
        <5>1. i - 1 \in 1 .. Len(queue) /\ i \in 1 .. Len(queue) + 1 /\ ~(i < p) /\ i # p
          BY <1>1, <1>9, <3>2, <4>3
        <5>2. queue'[i] = queue[i - 1]
          BY <3>2, <5>1
        <5> QED BY <5>1, <5>2
      <4>4. i < p \/ i = p \/ i > p
        BY <1>1, <1>9, <3>2
      <4> QED BY <4>1, <4>2, <4>3, <4>4
    <3> QED BY <3>2, <3>3, <3>4
  <2> QED BY <1>5, <1>8, <2>1, <2>2
<1>11. AnyEntry' = AnyEntry /\ NetTypes' = NetTypes
  BY DEF AnyEntry, Packets, NetTypes
<1>12. MixTypes'
  BY <1>5, <1>6, <1>10, <1>11 DEF MixTypes
<1> QED BY <1>5, <1>10, <1>12

-----------------------------------------------------------------------------
(* The frame and who asks for it.                                          *)

\* Who waits for whom, and that a frame to be handed over is not empty.
AskInv ==
  /\ pc \in {"idle", "loop", "after", "client"}
  /\ reading \in BOOLEAN /\ awaiting \in BOOLEAN /\ need \in BOOLEAN /\ task \in BOOLEAN
  /\ begins \in BOOLEAN /\ completes \in BOOLEAN /\ lossInFrame \in BOOLEAN /\ misread \in BOOLEAN
  /\ frame \in Seq(Pieces) /\ truncated \in BOOLEAN /\ upTo \in Pieces \cup {<<0, 0>>}
  /\ need => awaiting
  /\ task \/ pc = "after" => awaiting /\ ~need /\ frame # <<>>

\* The sender begins no aggregate within a unit.
NetInv == \A n \in Packets : sent[n] \in Aggregates => BeginsFrame(n)

\* Which packets can be used in part.
UsesInv == \A i \in 1 .. Len(queue) :
             queue[i].uses = 1 => queue[i].no \in Packets /\ sent[queue[i].no] \in Aggregates

\* The flags of the packet looked at last, and what they say of the frame.
FlagsInv ==
  /\ lossInFrame => ~begins
  /\ ~need => ~lossInFrame
  /\ need /\ frame # <<>> /\ ~lossInFrame => ~completes
  /\ reading /\ ~seen => need
  /\ task => queue # <<>>
  /\ UsesInv

\* What holds whatever comes in.
Always == MixTypes /\ CountInv /\ AskInv /\ NetInv /\ FlagsInv

\* The packet stays in the buffer when its unit u + 1 is used, and nothing of it is.
Remains(n, u) == Kind(n) = "stray" \/ (Kind(n) = "both" /\ u = 0)
Blank(n, u) == Kind(n) = "stray" /\ u = 1

\* Unit u + 1 of packet n, the head, is used.
Used(n, u) ==
  /\ IF Remains(n, u) THEN queue' = [queue EXCEPT ![1].uses = 1] /\ GiveUpEarlier ELSE ReleaseHead
  /\ begins' = BeginsNow(n) /\ completes' = CompletesNow(n) /\ lossInFrame' = FALSE
  /\ misread' = (misread \/ (Kind(n) \in Aggregates /\ ~completes))
  /\ frame' = IF Blank(n, u) THEN Kept(n) ELSE Append(Kept(n), <<n, u + 1>>)
  /\ truncated' = (~Blank(n, u) /\ Len(Kept(n)) >= fMaxSize)
  /\ need' = ~(completes' /\ frame' # <<>>)
  /\ task' = (~need' /\ queue' # <<>>)
  /\ pc' = IF need' THEN "loop" ELSE IF task' THEN "idle" ELSE "after"
  /\ UNCHANGED <<sent, other, changes, awaiting, reading, upTo>> /\ UNCHANGED statVars
  /\ queue # <<>> /\ need /\ pc = "loop" /\ Kind(n) # "refused" /\ ~LossAfter(n)

\* What UsePacket does.
LEMMA UseMeans ==
  ASSUME MixTypes, UsePacket
  PROVE  Used(queue[1].no, queue[1].uses)
<1>1. queue # <<>>
  BY DEF UsePacket, Available
<1>2. Head(queue) = queue[1] /\ queue[1].uses \in {0, 1}
  BY <1>1, PlaceFacts
<1>3. PICK n, u : n = queue[1].no /\ u = queue[1].uses
  OBVIOUS
<1>4. /\ u + 1 = 1 <=> u = 0
      /\ u + 1 = 2 <=> u = 1
  BY <1>2, <1>3
<1>5. Head(queue).no = n /\ Head(queue).uses = u
  BY <1>2, <1>3
<1>6. /\ Remains(n, u) <=> (Kind(n) = "stray" \/ (Kind(n) = "both" /\ u + 1 = 1))
      /\ Blank(n, u) <=> (Kind(n) = "stray" /\ u + 1 = 2)
  BY <1>4 DEF Remains, Blank
<1>7. Used(n, u)
  BY <1>1, <1>5, <1>6 DEF UsePacket, Used, netVars, ssrcVars
<1> QED BY <1>3, <1>7

\* A unit is used.
LEMMA UseAlways ==
  ASSUME Always, UsePacket
  PROVE  Always'
<1>1. PICK n, u : n = queue[1].no /\ u = queue[1].uses
  OBVIOUS
<1>2. Used(n, u)
  BY <1>1, UseMeans DEF Always
<1>3. /\ queue # <<>> /\ UNCHANGED <<sent, other, changes>> /\ UNCHANGED statVars
  BY <1>2 DEF Used
<1>4. queue[1] \in AnyEntry /\ u \in {0, 1} /\ 1 \in 1 .. Len(queue) /\ seen /\ Len(queue) \in Nat
  BY <1>1, <1>3, PlaceFacts DEF Always
<1>5. n \in Packets \cup Other
  BY <1>1, <1>4 DEF AnyEntry
<1>6. Pieces' = Pieces /\ Packets' = Packets /\ NetInv' /\ CountInv'
  <2>1. sent' = sent
    BY <1>3
  <2> QED BY <1>3, <2>1, CountSame DEF Pieces, Packets, NetInv, BeginsFrame, Always
<1>7. MixTypes' /\ UsesInv' /\ seen'
  <2>1. CASE Remains(n, u)
    <3>1. queue' = [queue EXCEPT ![1].uses = 1] /\ GiveUpEarlier
      BY <1>2, <2>1 DEF Used
    <3>2. /\ MixTypes' /\ Len(queue') = Len(queue) /\ queue'[1].no = n
          /\ \A i \in 1 .. Len(queue) : i # 1 => queue'[i] = queue[i]
      BY <1>1, <1>3, <3>1, GiveUpTypes DEF Always
    <3>3. n \in Packets /\ sent[n] \in Aggregates
      BY <2>1 DEF Remains, Kind, Aggregates
    <3>4. UsesInv'
      BY <1>3, <1>6, <3>2, <3>3 DEF UsesInv, Always, FlagsInv
    <3>5. seen'
      BY <1>4, <3>1 DEF GiveUpEarlier
    <3> QED BY <3>2, <3>4, <3>5
  <2>2. CASE ~Remains(n, u)
    <3>1. ReleaseHead
      BY <1>2, <2>2 DEF Used
    <3>2. MixTypes' /\ \A i \in 1 .. Len(queue') : i + 1 \in 1 .. Len(queue) /\ queue'[i] = queue[i + 1]
      BY <1>3, <3>1, ReleaseTypes DEF Always
    <3>3. UsesInv'
      BY <1>3, <1>6, <3>2 DEF UsesInv, Always, FlagsInv
    <3>4. seen'
      BY <1>4, <3>1 DEF ReleaseHead
    <3> QED BY <3>2, <3>3, <3>4
  <2> QED BY <2>1, <2>2
<1>8. PICK k, x : k = Kept(n) /\ x = <<n, u + 1>>
  OBVIOUS
<1>9. k \in Seq(Pieces) /\ x \in Pieces
  <2>1. frame \in Seq(Pieces) /\ <<>> \in Seq(Pieces)
    BY DEF Always, AskInv
  <2> QED BY <1>4, <1>5, <1>8, <2>1 DEF Kept, Pieces
<1>10. /\ begins' = BeginsNow(n) /\ completes' = CompletesNow(n) /\ ~lossInFrame' /\ misread' \in BOOLEAN
       /\ frame' = (IF Blank(n, u) THEN k ELSE Append(k, x)) /\ truncated' \in BOOLEAN
       /\ need' = ~(completes' /\ frame' # <<>>) /\ task' = (~need' /\ queue' # <<>>)
       /\ pc' = (IF need' THEN "loop" ELSE IF task' THEN "idle" ELSE "after")
       /\ awaiting' = awaiting /\ reading' = reading /\ upTo' = upTo /\ lossInFrame' = FALSE /\ need
  BY <1>2, <1>8 DEF Used, Always, AskInv
<1>11. frame' \in Seq(Pieces)
  BY <1>9, <1>10, AppendProperties
<1>12. completes' \in BOOLEAN /\ begins' \in BOOLEAN
  BY <1>10 DEF CompletesNow, BeginsNow, BeginsFrame, Always, AskInv
<1>13. AskInv'
  <2>1. /\ pc' \in {"idle", "loop", "after", "client"}
        /\ reading' \in BOOLEAN /\ awaiting' \in BOOLEAN /\ need' \in BOOLEAN /\ task' \in BOOLEAN
        /\ begins' \in BOOLEAN /\ completes' \in BOOLEAN /\ lossInFrame' \in BOOLEAN /\ misread' \in BOOLEAN
    BY <1>10, <1>12 DEF Always, AskInv
  <2>2. frame' \in Seq(Pieces') /\ upTo' \in Pieces' \cup {<<0, 0>>} /\ truncated' \in BOOLEAN
    BY <1>6, <1>10, <1>11 DEF Always, AskInv
  <2>3. awaiting'
    BY <1>10 DEF Always, AskInv
  <2>4. task' \/ pc' = "after" => ~need' /\ frame' # <<>>
    BY <1>10
  <2> QED BY <2>1, <2>2, <2>3, <2>4 DEF AskInv
<1>14. FlagsInv'
  BY <1>7, <1>10, <1>12 DEF FlagsInv
<1> QED BY <1>6, <1>7, <1>13, <1>14 DEF Always

\* A packet that is dropped.
LEMMA DropAlways ==
  ASSUME Always, RefusePacket \/ RejectPacket
  PROVE  Always'
<1>1. /\ queue # <<>> /\ ReleaseHead /\ sent' = sent /\ UNCHANGED <<other, changes>> /\ UNCHANGED statVars
      /\ UNCHANGED <<frame, truncated>> /\ UNCHANGED askVars /\ pc' = pc /\ pc = "loop" /\ need
  BY DEF RefusePacket, RejectPacket, Available, netVars, ssrcVars
<1>2. MixTypes' /\ \A i \in 1 .. Len(queue') : i + 1 \in 1 .. Len(queue) /\ queue'[i] = queue[i + 1]
  BY <1>1, ReleaseTypes DEF Always
<1>3. Pieces' = Pieces /\ Packets' = Packets /\ NetInv' /\ CountInv'
  BY <1>1, CountSame DEF Pieces, Packets, NetInv, BeginsFrame, Always
<1>4. /\ begins' \in BOOLEAN /\ completes' \in BOOLEAN /\ lossInFrame' \in BOOLEAN /\ misread' \in BOOLEAN
  BY DEF RefusePacket, RejectPacket, BeginsNow, CompletesNow, BeginsFrame, Always, AskInv
<1>5. AskInv'
  BY <1>1, <1>3, <1>4 DEF Always, AskInv, askVars
<1>6. UsesInv'
  BY <1>1, <1>2, <1>3 DEF Always, FlagsInv, UsesInv
<1>7. seen' /\ need' /\ ~task'
  <2>1. seen /\ ~task
    BY <1>1, PlaceFacts DEF Always, AskInv
  <2> QED BY <1>1, <2>1 DEF ReleaseHead, askVars
<1>8. (lossInFrame' => ~begins') /\ (frame' # <<>> /\ ~lossInFrame' => ~completes')
  <2>1. CASE RefusePacket
    BY <1>1, <2>1 DEF RefusePacket, Always, FlagsInv
  <2>2. CASE RejectPacket
    BY <1>4, <2>2 DEF RejectPacket, LossAfter
  <2> QED BY <2>1, <2>2
<1>9. FlagsInv'
  BY <1>6, <1>7, <1>8 DEF FlagsInv
<1> QED BY <1>2, <1>3, <1>5, <1>9 DEF Always

\* Steps that change no more of the buffer than the ages.
LEMMA QueueSame ==
  ASSUME Always, sent' = sent, UNCHANGED bufferVars, UNCHANGED ssrcVars, UNCHANGED statVars
  PROVE  MixTypes' /\ UsesInv' /\ Pieces' = Pieces /\ NetInv' /\ CountInv' /\ queue' = queue /\ seen' = seen
<1>1. queue' = queue /\ seen' = seen /\ expected' = expected /\ due' = due /\ mixed' = mixed
      /\ other' = other /\ changes' = changes
  BY DEF bufferVars, ssrcVars
<1>2. MixTypes'
  BY <1>1 DEF Always, MixTypes, NetTypes, AnyEntry, Packets
<1>3. UsesInv' /\ Pieces' = Pieces /\ NetInv'
  BY <1>1 DEF Always, FlagsInv, UsesInv, Pieces, Packets, NetInv, BeginsFrame
<1> QED BY <1>1, <1>2, <1>3, CountSame DEF Always

\* The calls of the reader, which leave the network and the statistics alone.
LEMMA ReaderAlways ==
  ASSUME Always, GetNextFrame \/ ClientReturns \/ AfterGetting \/ EndOfLoop \/ ReceiveOther
  PROVE  Always'
<1>1. MixTypes' /\ UsesInv' /\ Pieces' = Pieces /\ NetInv' /\ CountInv' /\ queue' = queue /\ seen' = seen
  <2>1. sent' = sent /\ UNCHANGED bufferVars /\ UNCHANGED ssrcVars /\ UNCHANGED statVars
    BY DEF GetNextFrame, ClientReturns, AfterGetting, EndOfLoop, ReceiveOther, netVars
  <2> QED BY <2>1, QueueSame
<1>2. CASE GetNextFrame
  <2>1. <<>> \in Seq(Pieces)
    OBVIOUS
  <2>2. AskInv'
    BY <1>1, <1>2, <2>1 DEF GetNextFrame, Always, AskInv
  <2>3. ~need /\ ~task
    BY <1>2 DEF GetNextFrame, Always, AskInv
  <2>4. FlagsInv'
    BY <1>1, <1>2, <2>3 DEF GetNextFrame, Always, FlagsInv
  <2> QED BY <1>1, <2>2, <2>4 DEF Always
<1>3. CASE AfterGetting
  <2>1. frame # <<>> /\ frame \in Seq(Pieces) /\ ~need
    BY <1>3 DEF AfterGetting, Always, AskInv
  <2>2. Last(frame) \in Pieces
    <3>1. Len(frame) \in 1 .. Len(frame)
      BY <2>1
    <3> QED BY <2>1, <3>1 DEF Last
  <2>3. <<>> \in Seq(Pieces)
    OBVIOUS
  <2>4. /\ pc' = "client" /\ task' = FALSE /\ awaiting' = FALSE /\ upTo' = Last(frame) /\ frame' = <<>>
        /\ UNCHANGED <<begins, completes, lossInFrame, truncated, misread, need, reading>>
    BY <1>3 DEF AfterGetting
  <2>5. AskInv'
    BY <1>1, <2>1, <2>2, <2>3, <2>4 DEF Always, AskInv
  <2>6. FlagsInv'
    BY <1>1, <2>1, <2>4 DEF Always, FlagsInv
  <2> QED BY <1>1, <2>5, <2>6 DEF Always
<1>4. CASE ClientReturns \/ EndOfLoop \/ ReceiveOther
  <2>1. UNCHANGED frameVars /\ UNCHANGED askVars /\ pc' \in {"idle", "loop"}
    BY <1>4 DEF ClientReturns, EndOfLoop, ReceiveOther
  <2>2. AskInv'
    BY <1>1, <2>1 DEF Always, AskInv, frameVars, askVars
  <2>3. FlagsInv'
    BY <1>1, <2>1 DEF Always, FlagsInv, frameVars, askVars
  <2> QED BY <1>1, <2>2, <2>3 DEF Always
<1> QED BY <1>2, <1>3, <1>4

\* stopGettingFrames empties the buffer.
LEMMA StopAlways ==
  ASSUME Always, StopGettingFrames
  PROVE  Always'
<1>1. /\ sent' = sent /\ queue' = <<>> /\ due' = 0 /\ seen' = FALSE /\ mixed' = FALSE
      /\ expected' = expected /\ other' = other /\ changes' = changes /\ UNCHANGED statVars
      /\ reading' = FALSE /\ need' = FALSE /\ lossInFrame' = FALSE /\ task' = FALSE
  BY DEF StopGettingFrames, netVars, ssrcVars
<1>2. CountInv' /\ NetInv' /\ Pieces' = Pieces /\ AnyEntry' = AnyEntry /\ NetTypes'
  BY <1>1, CountSame DEF Always, NetInv, BeginsFrame, Pieces, Packets, AnyEntry, MixTypes, NetTypes
<1>3. <<>> \in Seq(Pieces) /\ <<>> \in Seq(AnyEntry)
  OBVIOUS
<1>4. MixTypes'
  BY <1>1, <1>2, <1>3 DEF Always, MixTypes
<1>5. AskInv'
  BY <1>1, <1>2, <1>3 DEF StopGettingFrames, Always, AskInv
<1>6. FlagsInv'
  <2>1. Len(queue') = 0
    BY <1>1
  <2>2. UsesInv'
    BY <2>1 DEF UsesInv
  <2> QED BY <1>1, <2>2 DEF FlagsInv
<1> QED BY <1>2, <1>4, <1>5, <1>6 DEF Always

\* A new packet changes nothing about the packets before it.
LEMMA SendAlways ==
  ASSUME Always, NEW kind \in Kinds, Send(kind)
  PROVE  Always'
<1>1. /\ Len(sent) < MaxPackets /\ Len(sent) + 1 - Oldest < Reach
      /\ sent' = Append(sent, kind) /\ (kind \in Aggregates => BeginsFrame(Len(sent) + 1))
      /\ UNCHANGED statVars /\ UNCHANGED bufferVars /\ UNCHANGED ssrcVars
      /\ UNCHANGED frameVars /\ UNCHANGED askVars /\ pc' = pc
  BY DEF Send
<1>2. NetTypes /\ CountInv
  BY DEF Always, MixTypes
<1>3. /\ Len(sent) \in Nat /\ Packets' = 1 .. Len(sent) + 1 /\ sent'[Len(sent) + 1] = kind
      /\ \A m \in 1 .. Len(sent) : sent'[m] = sent[m]
      /\ \A n \in 1 .. Len(sent) + 1 : BeginsFrame(n)' = BeginsFrame(n)
  BY <1>1, <1>2, SentStays
<1>4. NetTypes' /\ CountInv'
  BY <1>1, <1>2, SendCounts DEF Always, MixTypes
<1>5. Packets = 1 .. Len(sent) /\ Packets \subseteq Packets'
  BY <1>3 DEF Packets
<1>6. Pieces \subseteq Pieces' /\ AnyEntry \subseteq AnyEntry'
  BY <1>5 DEF Pieces, AnyEntry
<1>7. MixTypes'
  <2>1. queue' = queue /\ seen' = seen /\ expected' = expected /\ due' = due /\ mixed' = mixed
        /\ other' = other /\ changes' = changes
    BY <1>1 DEF bufferVars, ssrcVars
  <2>2. queue \in Seq(AnyEntry')
    BY <1>6, SeqOfMore DEF Always, MixTypes
  <2> QED BY <1>4, <2>1, <2>2 DEF Always, MixTypes
<1>8. AskInv'
  <2>1. frame \in Seq(Pieces') /\ upTo \in Pieces' \cup {<<0, 0>>}
    BY <1>6, SeqOfMore DEF Always, AskInv
  <2> QED BY <1>1, <2>1 DEF Always, AskInv, frameVars, askVars
<1>9. NetInv'
  <2>1. ASSUME NEW n \in 1 .. Len(sent) + 1, sent'[n] \in Aggregates PROVE BeginsFrame(n)'
    <3>1. CASE n = Len(sent) + 1
      BY <1>1, <1>3, <2>1, <3>1
    <3>2. CASE n \in 1 .. Len(sent)
      BY <1>3, <1>5, <2>1, <3>2 DEF Always, NetInv
    <3> QED BY <1>3, <3>1, <3>2
  <2> QED BY <1>3, <2>1 DEF NetInv
<1>10. UsesInv'
  <2>1. queue' = queue
    BY <1>1 DEF bufferVars
  <2>2. ASSUME NEW i \in 1 .. Len(queue), queue[i].uses = 1
        PROVE  queue[i].no \in Packets' /\ sent'[queue[i].no] \in Aggregates
    <3>1. queue[i].no \in Packets /\ sent[queue[i].no] \in Aggregates
      BY <2>2 DEF Always, FlagsInv, UsesInv
    <3>2. sent'[queue[i].no] = sent[queue[i].no]
      BY <1>3, <1>5, <3>1
    <3> QED BY <1>5, <3>1, <3>2
  <2> QED BY <2>1, <2>2 DEF UsesInv
<1>11. FlagsInv'
  BY <1>1, <1>10 DEF Always, FlagsInv, frameVars, askVars, bufferVars
<1> QED BY <1>4, <1>7, <1>8, <1>9, <1>11 DEF Always

\* Time changes nothing but the ages.
LEMMA TickAlways ==
  ASSUME Always, Tick
  PROVE  Always'
<1>1. /\ sent' = sent /\ seen' = seen /\ expected' = expected /\ due' = due /\ mixed' = mixed
      /\ other' = other /\ changes' = changes /\ pc' = pc
      /\ UNCHANGED statVars /\ UNCHANGED frameVars /\ UNCHANGED askVars
  BY DEF Tick, netVars, ssrcVars
<1>2. /\ queue' \in Seq(AnyEntry)
      /\ Len(queue') = Len(queue) /\ (queue' = <<>> <=> queue = <<>>)
      /\ \A i \in 1 .. Len(queue) :
           queue'[i].no = queue[i].no /\ queue'[i].first = queue[i].first /\ queue'[i].uses = queue[i].uses
  BY OlderEntries DEF Tick, AnyEntry, Always, MixTypes
<1>3. Pieces' = Pieces /\ Packets' = Packets /\ NetInv' /\ CountInv' /\ AnyEntry' = AnyEntry
  BY <1>1, CountSame DEF Pieces, Packets, NetInv, BeginsFrame, Always, AnyEntry
<1>4. MixTypes'
  BY <1>1, <1>2, <1>3 DEF Always, MixTypes, NetTypes
<1>5. AskInv'
  BY <1>1, <1>3 DEF Always, AskInv, frameVars, askVars
<1>6. UsesInv'
  BY <1>1, <1>2, <1>3 DEF Always, FlagsInv, UsesInv
<1>7. FlagsInv'
  BY <1>1, <1>2, <1>6 DEF Always, FlagsInv, frameVars, askVars
<1> QED BY <1>3, <1>4, <1>5, <1>7 DEF Always

\* A packet that arrives, from the sender or another SSRC.
LEMMA ArriveAlways ==
  ASSUME Always, NEW n \in {m \in Packets : InReach(m)} \cup Other, ReceivePacket(n)
  PROVE  Always'
<1>1. /\ sent' = sent /\ storePacket(n) /\ UNCHANGED frameVars /\ pc' = "loop" /\ pc = "idle" /\ reading
      /\ UNCHANGED <<awaiting, need, task, reading>>
      /\ other' = (n \in Other) /\ mixed' \in BOOLEAN /\ upTo' \in {upTo, <<0, 0>>}
      /\ (n \in Other => mixed')
  BY DEF ReceivePacket, netVars, Always, MixTypes
<1>2. changes' \in 0 .. MaxChanges
  BY ReceptionAssumption DEF ReceivePacket, Always, MixTypes
<1>3. CountInv'
  <2>1. CASE n \in Other
    BY <1>1, <2>1, CountSame DEF ReceivePacket, Always
  <2>2. CASE n \notin Other
    <3>1. noteIncomingPacket(n) /\ n \in Packets /\ InReach(n)
      BY <2>2 DEF ReceivePacket
    <3> QED BY <1>1, <3>1, NoteKeeps DEF Always
  <2> QED BY <2>1, <2>2
<1>4. /\ MixTypes' /\ seen' /\ (queue # <<>> => queue' # <<>>)
      /\ \A i \in 1 .. Len(queue') : queue'[i].uses = 0 \/ \E j \in 1 .. Len(queue) : queue'[i] = queue[j]
  <2>1. n \in Packets \cup Other /\ other' \in BOOLEAN /\ (other' => mixed')
    BY <1>1
  <2> QED BY <1>1, <1>2, <2>1, StoreTypes DEF Always
<1>5. Pieces' = Pieces /\ Packets' = Packets /\ NetInv'
  BY <1>1 DEF Pieces, Packets, NetInv, BeginsFrame, Always
<1>6. AskInv'
  BY <1>1, <1>5 DEF Always, AskInv, frameVars
<1>7. UsesInv'
  <2>1. ASSUME NEW i \in 1 .. Len(queue'), queue'[i].uses = 1
        PROVE  queue'[i].no \in Packets /\ sent[queue'[i].no] \in Aggregates
    <3>1. PICK j \in 1 .. Len(queue) : queue'[i] = queue[j]
      BY <1>4, <2>1
    <3> QED BY <2>1, <3>1 DEF Always, FlagsInv, UsesInv
  <2> QED BY <1>1, <1>5, <2>1 DEF UsesInv
<1>8. FlagsInv'
  BY <1>1, <1>4, <1>7 DEF Always, FlagsInv, frameVars
<1> QED BY <1>3, <1>4, <1>5, <1>6, <1>8 DEF Always

LEMMA AlwaysStep == Always /\ [Next]_vars => Always'
<1> SUFFICES ASSUME Always, [Next]_vars PROVE Always'
  OBVIOUS
<1>1. CASE \E kind \in Kinds : Send(kind)
  BY <1>1, SendAlways
<1>2. CASE Tick
  BY <1>2, TickAlways
<1>3. CASE Receive
  BY <1>3, ArriveAlways DEF Receive
<1>4. CASE Loop
  BY <1>4, ReaderAlways, DropAlways, UseAlways DEF Loop
<1>5. CASE ReceiveOther \/ AfterGetting \/ Reader
  BY <1>5, ReaderAlways, StopAlways DEF Reader
<1>6. CASE UNCHANGED vars
  <2>1. /\ sent' = sent /\ pc' = pc /\ UNCHANGED statVars /\ UNCHANGED bufferVars /\ UNCHANGED ssrcVars
        /\ UNCHANGED frameVars /\ UNCHANGED askVars
    BY <1>6 DEF vars, netVars
  <2>2. MixTypes' /\ UsesInv' /\ Pieces' = Pieces /\ NetInv' /\ CountInv' /\ queue' = queue /\ seen' = seen
    BY <2>1, QueueSame
  <2>3. AskInv'
    BY <2>1, <2>2 DEF Always, AskInv, frameVars, askVars
  <2>4. FlagsInv'
    BY <2>1, <2>2 DEF Always, FlagsInv, frameVars, askVars
  <2> QED BY <2>2, <2>3, <2>4 DEF Always
<1> QED BY <1>1, <1>2, <1>3, <1>4, <1>5, <1>6 DEF Next, Network

LEMMA AlwaysInit == Init => Always
<1> SUFFICES ASSUME Init PROVE Always
  OBVIOUS
<1>1. /\ <<>> \in Seq(Kinds) /\ <<>> \in Seq(AnyEntry) /\ <<>> \in Seq(Pieces) /\ Len(<<>>) = 0
  OBVIOUS
<1>2. NetTypes /\ Packets = {} /\ Len(queue) = 0
  BY <1>1, Numbers DEF Init, NetTypes, Packets
<1>3. MixTypes
  <2>1. 0 \in 0 .. MaxChanges
    BY ReceptionAssumption
  <2>2. queue = <<>> /\ due = 0 /\ seen = FALSE /\ expected = 0 /\ other = FALSE /\ mixed = FALSE /\ changes = 0
    BY DEF Init
  <2> QED BY <1>1, <1>2, <2>1, <2>2, Numbers DEF MixTypes
<1>4. CountInv
  BY <1>1, <1>2 DEF Init, CountInv
<1>5. AskInv
  BY <1>1 DEF Init, AskInv
<1>6. NetInv /\ FlagsInv
  BY <1>2 DEF Init, NetInv, FlagsInv, UsesInv
<1> QED BY <1>3, <1>4, <1>5, <1>6 DEF Always

\* Receiver reports count the packets from the first to the last one noted, across
\* the wrap-around, and whatever older packets or packets of another SSRC arrive.
THEOREM NumbersAreCounted == Spec => []ExtendedNumbersCount
<1>1. Always => ExtendedNumbersCount
  BY DEF Always, CountInv, Counted, ExtendedNumbersCount
<1> QED BY AlwaysInit, AlwaysStep, <1>1, PTL DEF Spec

-----------------------------------------------------------------------------
(* The order in the buffer, as long as no packet of another SSRC is mixed   *)
(* with the sender's.                                                      *)

RInv == Always /\ BufferInv

\* Steps that leave the buffer alone.
LEMMA BufferSame ==
  ASSUME BufferInv, sent' = sent, UNCHANGED bufferVars
  PROVE  BufferInv'
<1>1. queue' = queue /\ seen' = seen /\ expected' = expected /\ due' = due
  BY DEF bufferVars
<1> QED BY <1>1 DEF BufferInv, InOrder, NetTypes, Entry, Packets

\* Without another SSRC before it, a packet of the sender changes nothing.
LEMMA StillKnown ==
  ASSUME Always, ~mixed, NEW n \in Packets
  PROVE  Knows(n) = seen
<1>1. n \notin Other
  BY OthersApart DEF Always, MixTypes
<1>2. seen \in BOOLEAN /\ other \in BOOLEAN /\ (other => ~seen)
  BY DEF Always, MixTypes
<1>3. ChangesSSRC(n) = other
  BY <1>1, <1>2 DEF ChangesSSRC
<1> QED BY <1>2, <1>3 DEF Knows

\* The buffer after stopGettingFrames.
LEMMA StoppedInOrder ==
  ASSUME Always, StopGettingFrames
  PROVE  BufferInv'
<1>1. queue' = <<>> /\ due' = 0 /\ seen' = FALSE /\ expected' = expected /\ sent' = sent
  BY DEF StopGettingFrames, netVars
<1>2. <<>> \in Seq(Entry') /\ InOrder(<<>>, 0)
  BY DEF InOrder
<1>3. NetTypes' /\ Len(sent') \in Nat
  BY <1>1 DEF Always, MixTypes, NetTypes
<1>4. queue' \in Seq(Entry') /\ InOrder(queue', due')
  BY <1>1, <1>2
<1>5. expected' \in Nat /\ expected' < Modulus /\ due' \in Nat /\ due' <= Len(sent') + 1
  BY <1>1, <1>3 DEF Always, MixTypes
<1> QED BY <1>1, <1>3, <1>4, <1>5 DEF BufferInv

\* A packet of the sender that finds the buffer empty after those of another SSRC.
LEMMA StartsAfresh ==
  ASSUME Always, mixed, NEW n \in Packets, Len(sent) - n < Reach, ReceivePacket(n), ~mixed'
  PROVE  /\ BufferInv' /\ due' = n /\ seen' /\ upTo' = <<0, 0>> /\ queue = <<>>
         /\ queue' # <<>> /\ queue'[1].no = n /\ queue'[1].first
<1>1. n \notin Other /\ n \in Nat /\ n >= 1 /\ n <= Len(sent) /\ Len(sent) \in Nat
  BY OthersApart DEF Always, MixTypes
<1>2. other /\ queue = <<>> /\ upTo' = <<0, 0>> /\ storePacket(n) /\ sent' = sent
  BY <1>1 DEF ReceivePacket, netVars
<1>3. ~Knows(n)
  BY <1>1, <1>2 DEF Knows, ChangesSSRC
<1>4. PICK s : s = Seq16(n)
  OBVIOUS
<1>5. s \in Nat /\ s < Modulus /\ ~seqNumLT(s, s) /\ ~Duplicate(s) /\ Place(s) = 1
  <2>1. s \in Nat /\ s < Modulus
    BY <1>1, <1>4, SeqTyped
  <2>2. ~seqNumLT(s, s)
    BY <2>1, Numbers DEF seqNumLT
  <2>3. Len(queue) = 0 /\ DOMAIN queue = {}
    BY <1>2
  <2>4. ~Duplicate(s)
    BY <2>3 DEF Duplicate
  <2>5. Place(s) = 1
    BY <2>3 DEF Place
  <2> QED BY <2>1, <2>2, <2>4, <2>5
<1>6. PICK e : e = [no |-> n, age |-> 0, first |-> TRUE, uses |-> 0]
  OBVIOUS
<1>7. seen' = TRUE /\ expected' = s /\ due' = n /\ queue' = InsertAt(queue, 1, e)
  <2>1. Marked(n) = TRUE
    BY <1>3 DEF Marked, Knows
  <2>2. e = [no |-> n, age |-> 0, first |-> Marked(n), uses |-> 0]
    BY <1>6, <2>1
  <2> QED BY <1>2, <1>3, <1>4, <1>5, <2>2 DEF storePacket
<1>8. e \in Entry /\ e.no = n /\ e.first
  BY <1>6, Numbers DEF Entry
<1>9. PICK q : q = queue
  OBVIOUS
<1>10. q \in Seq(Entry) /\ Len(q) = 0
  BY <1>2, <1>9
<1>11. queue' \in Seq(Entry) /\ Len(queue') = 1 /\ queue'[1] = e
  <2>1. PICK S, r : S = Entry /\ r = queue'
    OBVIOUS
  <2>2. q \in Seq(S) /\ Len(q) = 0 /\ e \in S /\ r = InsertAt(q, 1, e)
    BY <1>7, <1>8, <1>9, <1>10, <2>1
  <2>3. r \in Seq(S) /\ Len(r) = 1 /\ r[1] = e
    BY <2>2, OnlyEntry
  <2> QED BY <2>1, <2>3
<1>12. queue' # <<>> /\ DOMAIN queue' = 1 .. 1
  BY <1>11
<1>13. InOrder(queue', n)
  BY <1>1, <1>8, <1>11, <1>12 DEF InOrder
<1>14. Entry' = Entry /\ NetTypes'
  BY <1>2 DEF Entry, Packets, NetTypes, Always, MixTypes
<1>15. BufferInv'
  BY <1>1, <1>2, <1>4, <1>5, <1>7, <1>11, <1>13, <1>14 DEF BufferInv
<1> QED BY <1>2, <1>7, <1>8, <1>11, <1>12, <1>15

\* What can end the mixing: a stop, or a packet of the sender.
LEMMA Unmixing ==
  ASSUME [Next]_vars, mixed' # mixed
  PROVE  StopGettingFrames \/ Receive
<1>1. ~(\E kind \in Kinds : Send(kind)) /\ ~Tick
  BY DEF Send, Tick, bufferVars
<1>2. ~Loop
  BY DEF Loop, EndOfLoop, RefusePacket, RejectPacket, UsePacket, ReleaseHead, GiveUpEarlier, bufferVars
<1>3. ~ReceiveOther /\ ~AfterGetting /\ ~GetNextFrame /\ ~ClientReturns
  BY DEF ReceiveOther, AfterGetting, GetNextFrame, ClientReturns, bufferVars
<1>4. ~UNCHANGED vars
  BY DEF vars, bufferVars
<1> QED BY <1>1, <1>2, <1>3, <1>4 DEF Next, Network, Reader

\* The packet that ends it.
LEMMA FreshPacket ==
  ASSUME Receive, ~mixed'
  PROVE  \E n \in Packets : InReach(n) /\ Len(sent) - n < Reach /\ ReceivePacket(n)
<1>1. PICK n \in {m \in Packets : InReach(m)} \cup Other : ReceivePacket(n)
  BY DEF Receive
<1>2. n \notin Other
  BY <1>1 DEF ReceivePacket
<1> QED BY <1>1, <1>2 DEF InReach

\* Every step keeps the order.
LEMMA BufferStep ==
  ASSUME RInv, ~mixed, [Next]_vars, ~mixed'
  PROVE  BufferInv'
<1>1. ASSUME NEW kind \in Kinds, Send(kind) PROVE BufferInv'
  <2>1. /\ Len(sent) < MaxPackets /\ Len(sent) + 1 - Oldest < Reach
        /\ sent' = Append(sent, kind) /\ UNCHANGED bufferVars
    BY <1>1 DEF Send
  <2> QED BY <2>1, SendKeeps DEF RInv, Always
<1>2. CASE Tick
  BY <1>2, TickKeeps DEF Tick, RInv, netVars
<1>3. ASSUME NEW n \in {m \in Packets : InReach(m)} \cup Other, ReceivePacket(n) PROVE BufferInv'
  <2>1. n \notin Other
    BY <1>3 DEF ReceivePacket
  <2>2. n \in Packets /\ Len(sent) - n < Reach /\ storePacket(n) /\ sent' = sent
    BY <1>3, <2>1 DEF InReach, ReceivePacket, netVars
  <2>3. Knows(n) = seen
    BY <2>2, StillKnown DEF RInv
  <2> QED BY <2>2, <2>3, StoreKeeps DEF RInv
<1>4. CASE RefusePacket \/ RejectPacket
  <2>1. queue # <<>> /\ ReleaseHead /\ sent' = sent
    BY <1>4 DEF RefusePacket, RejectPacket, Available, netVars
  <2> QED BY <2>1, ReleaseKeeps DEF RInv
<1>5. CASE UsePacket
  <2>1. PICK n, u : n = queue[1].no /\ u = queue[1].uses
    OBVIOUS
  <2>2. Used(n, u)
    BY <1>5, <2>1, UseMeans DEF RInv, Always
  <2>3. queue # <<>> /\ sent' = sent
    BY <2>2 DEF Used
  <2>4. ReleaseHead \/ (queue' = [queue EXCEPT ![1].uses = 1] /\ GiveUpEarlier)
    BY <2>2 DEF Used
  <2>5. GiveUpEarlier => UNCHANGED <<seen, sent>>
    BY <2>3 DEF GiveUpEarlier
  <2> QED BY <2>3, <2>4, <2>5, ReleaseKeeps, GiveUpKeeps DEF RInv
<1>6. CASE EndOfLoop \/ ReceiveOther \/ AfterGetting \/ GetNextFrame \/ ClientReturns
  <2>1. sent' = sent /\ UNCHANGED bufferVars
    BY <1>6 DEF EndOfLoop, ReceiveOther, AfterGetting, GetNextFrame, ClientReturns, netVars
  <2> QED BY <2>1, BufferSame DEF RInv
<1>7. CASE StopGettingFrames
  BY <1>7, StoppedInOrder DEF RInv
<1>8. CASE UNCHANGED vars
  <2>1. sent' = sent /\ UNCHANGED bufferVars
    BY <1>8 DEF vars, netVars
  <2> QED BY <2>1, BufferSame DEF RInv
<1> QED BY <1>1, <1>2, <1>3, <1>4, <1>5, <1>6, <1>7, <1>8 DEF Next, Network, Receive, Loop, Reader

\* Every step after which no other SSRC is mixed with the sender's packets: it was
\* so before, or the buffer was empty.
LEMMA OrderStep ==
  ASSUME Always, ~mixed => BufferInv, [Next]_vars, ~mixed'
  PROVE  BufferInv'
<1>1. CASE ~mixed
  BY <1>1, BufferStep DEF RInv
<1>2. CASE mixed
  <2>1. mixed' # mixed
    BY <1>2
  <2>2. StopGettingFrames \/ Receive
    BY <2>1, Unmixing
  <2>3. CASE StopGettingFrames
    BY <2>3, StoppedInOrder
  <2>4. CASE Receive
    BY <1>2, <2>4, FreshPacket, StartsAfresh
  <2> QED BY <2>2, <2>3, <2>4
<1> QED BY <1>1, <1>2

\* The buffer in the first state.
LEMMA OrderInit == Init => BufferInv
<1> SUFFICES ASSUME Init PROVE BufferInv
  OBVIOUS
<1>1. <<>> \in Seq(Entry) /\ <<>> \in Seq(Kinds) /\ Len(<<>>) = 0 /\ InOrder(<<>>, 0)
  BY DEF InOrder
<1>2. NetTypes
  BY <1>1, Numbers DEF Init, NetTypes
<1>3. queue = <<>> /\ due = 0 /\ seen = FALSE /\ expected = 0 /\ Len(sent) = 0
  BY <1>1 DEF Init
<1>4. queue \in Seq(Entry) /\ InOrder(queue, due)
  BY <1>1, <1>3
<1>5. expected \in Nat /\ expected < Modulus /\ due \in Nat /\ due <= Len(sent) + 1
  BY <1>3, Numbers
<1> QED BY <1>2, <1>3, <1>4, <1>5 DEF BufferInv

\* The numbers modulo Modulus describe the packets as they were sent: each waits
\* once, in the order of sending, none before the one that is expected - unless
\* packets of another SSRC are mixed with them, and again from the first packet on
\* that finds the buffer empty after those.
THEOREM ReceptionIsInOrder == Spec => []ReceptionInv
<1>1. Always /\ (~mixed => BufferInv) => ReceptionInv
  <2> SUFFICES ASSUME Always, ~mixed => BufferInv PROVE ReceptionInv
    OBVIOUS
  <2>1. /\ Modulus \in Nat /\ MaxPackets \in Nat
    BY Numbers
  <2>2. Len(sent) \in Nat /\ Len(sent) <= MaxPackets
    BY DEF Always, MixTypes, NetTypes
  <2>3. /\ expected \in 0 .. Modulus - 1
        /\ lowest \in 0 .. MaxPackets /\ top \in 0 .. MaxPackets
    BY <2>1, <2>2 DEF Always, MixTypes, CountInv
  <2>4. TypeOK
    BY <2>3 DEF Always, MixTypes, CountInv, AskInv, NetTypes, AnyEntry, TypeOK
  <2>5. ASSUME ~mixed
        PROVE  /\ seen => expected = Seq16(due)
               /\ \A i \in DOMAIN queue : queue[i].no \in Packets /\ due <= queue[i].no
               /\ \A i, j \in DOMAIN queue : i < j => queue[i].no < queue[j].no
    <3>1. BufferInv
      BY <2>5
    <3>2. DOMAIN queue = 1 .. Len(queue) /\ \A i \in 1 .. Len(queue) : queue[i].no \in Packets
      BY <3>1, QueueFacts DEF Packets
    <3> QED BY <3>1, <3>2 DEF BufferInv, InOrder
  <2>6. task \/ pc = "after" => awaiting /\ ~need
    BY DEF Always, AskInv
  <2> QED BY <2>4, <2>5, <2>6 DEF ReceptionInv
<1>2. (Always /\ (~mixed => BufferInv)) /\ [Next]_vars => (Always /\ (~mixed => BufferInv))'
  BY AlwaysStep, OrderStep
<1>3. Init => Always /\ (~mixed => BufferInv)
  BY AlwaysInit, OrderInit
<1> QED BY <1>1, <1>2, <1>3, PTL DEF Spec

-----------------------------------------------------------------------------
(* Whole frames.  With no loss that was forgotten, what has been put into   *)
(* the frame is the beginning of a unit, up to the packet that is expected; *)
(* with nothing in it, the packet that is expected begins one.              *)

\* Piece p comes before piece q.
Before(p, q) == p[1] < q[1] \/ (p[1] = q[1] /\ p[2] < q[2])

\* Piece p lies before whatever is taken from the buffer next.
Behind(p) ==
  \/ p[1] < due
  \/ p[1] = due /\ p[2] = 1 /\ queue # <<>> /\ queue[1].no = due /\ queue[1].uses = 1

\* The packet with which the buffer began to expect others has not been taken yet.
FirstWaits == queue # <<>> /\ queue[1].no = due /\ queue[1].first

\* f is what there is of a unit in the packets before d.
Partial(f, d) ==
  /\ f # <<>> /\ f[1][1] < d /\ BeginsFrame(f[1][1])
  /\ \A n \in f[1][1] .. d - 1 : sent[n] \in {"part", "refused"}
  /\ PiecesOf(f, f[1][1], d - 1)

\* What the frame is the beginning of, and what the expected packet begins, unless
\* the first packet is yet to be taken.
GapInv ==
  /\ ~need /\ seen => BeginsFrame(due) \/ FirstWaits
  /\ need /\ seen /\ ~misread /\ ~lossInFrame /\ frame = <<>> => BeginsFrame(due) \/ FirstWaits
  /\ need /\ ~misread /\ ~lossInFrame /\ frame # <<>> => Partial(frame, due) \/ FirstWaits

\* What there is of the frame came from another SSRC.
Strange == upTo = <<0, 0>> /\ ~task /\ pc # "after"

\* The frame lies behind the one delivered last and before what comes next.
OrderInv ==
  /\ IF seen THEN Behind(upTo) ELSE upTo = <<0, 0>>
  /\ frame # <<>> => seen /\ Before(upTo, frame[1]) /\ (Behind(Last(frame)) \/ Strange)

WholeInv == pc = "after" \/ task => (~misread => Whole(frame)) /\ (truncated <=> Len(frame) > fMaxSize)

FramesInv == GapInv /\ OrderInv /\ WholeInv

\* What is known of the sequences in the state.
LEMMA FrameFacts ==
  ASSUME RInv
  PROVE  /\ Len(sent) \in Nat /\ \A n \in 1 .. Len(sent) : sent[n] \in Kinds
         /\ frame \in Seq(Pieces) /\ Len(frame) \in Nat /\ DOMAIN frame = 1 .. Len(frame)
         /\ \A i \in 1 .. Len(frame) :
              /\ frame[i] \in Pieces /\ frame[i][1] \in Nat /\ frame[i][1] >= 1
              /\ frame[i][2] \in {1, 2}
         /\ frame # <<>> => Len(frame) # 0 /\ Last(frame) = frame[Len(frame)]
         /\ due \in Nat /\ due <= Len(sent) + 1
<1>1. /\ Len(sent) \in Nat /\ \A n \in 1 .. Len(sent) : sent[n] \in Kinds
  BY DEF RInv, BufferInv, NetTypes
<1>2. frame \in Seq(Pieces) /\ Len(frame) \in Nat /\ DOMAIN frame = 1 .. Len(frame)
  BY DEF RInv, Always, AskInv
<1>3. \A x \in Pieces : x[1] \in Nat /\ x[1] >= 1 /\ x[2] \in {1, 2}
  BY OthersApart DEF Pieces, RInv, BufferInv
<1>4. \A i \in 1 .. Len(frame) : frame[i] \in Pieces
  BY <1>2
<1>5. frame # <<>> => Len(frame) # 0 /\ Last(frame) = frame[Len(frame)]
  BY <1>2 DEF Last
<1> QED BY <1>1, <1>2, <1>3, <1>4, <1>5 DEF RInv, BufferInv

\* What comes after the last packet of a unit, an aggregate or a refused packet.
LEMMA NextBegins ==
  ASSUME NEW n \in Nat, n >= 1,
         sent[n] = "end" \/ (sent[n] # "part" /\ BeginsFrame(n))
  PROVE  BeginsFrame(n + 1)
<1> SUFFICES ASSUME NEW m \in 1 .. n, sent[m] = "part"
             PROVE  \E k \in m + 1 .. n : sent[k] = "end"
  BY DEF BeginsFrame
<1>1. m # n /\ m \in 1 .. n - 1
  BY DEF BeginsFrame
<1>2. CASE sent[n] = "end"
  <2>1. n \in m + 1 .. n
    BY <1>1
  <2> QED BY <1>2, <2>1
<1>3. CASE BeginsFrame(n)
  <2>1. PICK k \in m + 1 .. n - 1 : sent[k] = "end"
    BY <1>1, <1>3 DEF BeginsFrame
  <2> QED BY <2>1
<1> QED BY <1>2, <1>3

\* Behind a part without the end of its unit, no unit begins.
LEMMA WithinUnit ==
  ASSUME RInv, Partial(frame, due)
  PROVE  ~BeginsFrame(due)
<1>1. /\ Len(sent) \in Nat /\ DOMAIN frame = 1 .. Len(frame) /\ Len(frame) \in Nat
      /\ frame # <<>> => Len(frame) # 0
      /\ \A i \in 1 .. Len(frame) : frame[i][1] \in Nat /\ frame[i][1] >= 1
      /\ due \in Nat /\ due <= Len(sent) + 1
  BY FrameFacts
<1>2. PICK m : m = frame[1][1]
  OBVIOUS
<1>3. /\ m < due /\ m \in 1 .. Len(sent)
      /\ \A n \in m .. due - 1 : sent[n] \in {"part", "refused"}
      /\ {frame[i][1] : i \in DOMAIN frame} = {n \in m .. due - 1 : sent[n] # "refused"}
  BY <1>1, <1>2 DEF Partial, PiecesOf
<1>4. m \in {frame[i][1] : i \in DOMAIN frame}
  BY <1>1, <1>2 DEF Partial
<1>5. sent[m] = "part" /\ m \in 1 .. due - 1
  BY <1>1, <1>3, <1>4
<1>6. \A k \in m + 1 .. due - 1 : sent[k] # "end"
  BY <1>1, <1>3
<1> QED BY <1>5, <1>6 DEF BeginsFrame

\* The first piece.
LEMMA FirstPiece ==
  ASSUME NEW S, NEW x \in S, NEW f, f = Append(<<>>, x)
  PROVE  f # <<>> /\ Len(f) = 1 /\ f[1] = x
<1>1. PICK e : e = <<>>
  OBVIOUS
<1>2. e \in Seq(S) /\ Len(e) = 0
  BY <1>1
<1>3. f = Append(e, x)
  BY <1>1
<1>4. f # <<>> /\ Len(f) = Len(e) + 1 /\ f[Len(e) + 1] = x
  BY <1>2, <1>3, Appended
<1> QED BY <1>2, <1>4

\* One more packet of the unit.
LEMMA PiecesGrow ==
  ASSUME NEW f \in Seq(Pieces), NEW from \in Nat, NEW n \in Nat, from <= n,
         PiecesOf(f, from, n - 1), NEW g,
         \/ sent[n] # "refused" /\ n \in Packets /\ g = Append(f, <<n, 1>>)
         \/ sent[n] = "refused" /\ g = f
  PROVE  PiecesOf(g, from, n)
<1>1. Len(f) \in Nat /\ DOMAIN f = 1 .. Len(f)
  OBVIOUS
<1>2. /\ {f[i][1] : i \in 1 .. Len(f)} = {m \in from .. n - 1 : sent[m] # "refused"}
      /\ \A i \in 1 .. Len(f) : f[i][2] = 1 /\ \A j \in 1 .. Len(f) : i < j => f[i][1] < f[j][1]
  BY <1>1 DEF PiecesOf
<1>3. CASE sent[n] = "refused" /\ g = f
  <2>1. {m \in from .. n : sent[m] # "refused"} = {m \in from .. n - 1 : sent[m] # "refused"}
    BY <1>3
  <2> QED BY <1>3, <2>1 DEF PiecesOf
<1>4. CASE sent[n] # "refused" /\ n \in Packets /\ g = Append(f, <<n, 1>>)
  <2>1. PICK x : x = <<n, 1>>
    OBVIOUS
  <2>2. x \in Pieces /\ x[1] = n /\ x[2] = 1
    BY <1>4, <2>1 DEF Pieces
  <2>3. /\ g \in Seq(Pieces) /\ Len(g) = Len(f) + 1 /\ DOMAIN g = 1 .. Len(f) + 1
        /\ \A i \in 1 .. Len(f) : g[i] = f[i]
        /\ g[Len(f) + 1] = x
    <3>1. g = Append(f, x)
      BY <1>4, <2>1
    <3> QED BY <2>2, <3>1, Appended
  <2>4. \A i \in 1 .. Len(f) : f[i][1] \in from .. n - 1
    BY <1>2
  <2>5. {g[i][1] : i \in DOMAIN g} = {f[i][1] : i \in 1 .. Len(f)} \cup {n}
    BY <1>1, <2>2, <2>3
  <2>6. {m \in from .. n : sent[m] # "refused"} = {m \in from .. n - 1 : sent[m] # "refused"} \cup {n}
    BY <1>4
  <2>7. ASSUME NEW i \in DOMAIN g
        PROVE  g[i][2] = 1 /\ \A j \in DOMAIN g : i < j => g[i][1] < g[j][1]
    <3>1. CASE i = Len(f) + 1
      BY <1>1, <2>2, <2>3, <3>1
    <3>2. CASE i \in 1 .. Len(f)
      <4>1. g[i] = f[i] /\ f[i][2] = 1 /\ f[i][1] \in from .. n - 1
        BY <1>2, <2>3, <2>4, <3>2
      <4>2. ASSUME NEW j \in DOMAIN g, i < j PROVE g[i][1] < g[j][1]
        <5>1. CASE j = Len(f) + 1
          BY <2>2, <2>3, <4>1, <5>1
        <5>2. CASE j \in 1 .. Len(f)
          BY <1>2, <2>3, <3>2, <4>1, <4>2, <5>2
        <5> QED BY <1>1, <2>3, <5>1, <5>2
      <4> QED BY <4>1, <4>2
    <3> QED BY <1>1, <2>3, <3>1, <3>2
  <2>8. {g[i][1] : i \in DOMAIN g} = {m \in from .. n : sent[m] # "refused"}
    BY <1>2, <2>5, <2>6
  <2> QED BY <2>7, <2>8 DEF PiecesOf
<1> QED BY <1>3, <1>4

\* What packetLossPreceded means for the head of the buffer.
LEMMA LossMeans ==
  ASSUME RInv, queue # <<>>
  PROVE  /\ Head(queue) = queue[1] /\ Head(queue).no \in 1 .. Len(sent) /\ due <= Head(queue).no
         /\ Head(queue).uses \in {0, 1} /\ 1 \in 1 .. Len(queue) /\ seen /\ due \in Nat /\ due >= 1
         /\ LossPreceded <=> (Head(queue).no # due \/ Head(queue).first)
<1>1. /\ Len(sent) \in Nat /\ Len(queue) \in Nat /\ DOMAIN queue = 1 .. Len(queue)
      /\ \A i \in 1 .. Len(queue) :
              /\ queue[i] \in Entry /\ queue[i].no \in 1 .. Len(sent) /\ due <= queue[i].no
              /\ \A j \in 1 .. Len(queue) : i < j => queue[i].no < queue[j].no
  BY QueueFacts DEF RInv
<1>2. 1 \in 1 .. Len(queue) /\ Head(queue) = queue[1]
  BY <1>1 DEF RInv, BufferInv
<1>3. PICK h : h = queue[1]
  OBVIOUS
<1>4. h.no \in 1 .. Len(sent) /\ due <= h.no /\ h.uses \in {0, 1} /\ h.first \in BOOLEAN
  BY <1>1, <1>2, <1>3 DEF Entry
<1>5. seen /\ expected = Seq16(due) /\ due \in Nat /\ due >= 1 /\ Len(sent) - due < Reach
  BY DEF RInv, BufferInv
<1>6. h.no - due < Half /\ due - h.no < Half /\ h.no \in Nat
  BY <1>1, <1>4, <1>5, Numbers
<1>7. Seq16(h.no) = expected <=> h.no = due
  BY <1>5, <1>6, NearNumbers DEF NumbersTell
<1>8. LossPreceded <=> (h.no # due \/ h.first)
  BY <1>2, <1>3, <1>4, <1>7 DEF LossPreceded
<1> QED BY <1>2, <1>3, <1>4, <1>5, <1>8

Pairs == Nat \X Nat

\* The frame stays whole if it and the packets stay the same.
LEMMA WholeSame ==
  ASSUME NEW f, frame' = f, sent' = sent
  PROVE  Whole(frame)' = Whole(f)
<1>1. \A n : BeginsFrame(n)' = BeginsFrame(n)
  BY DEF BeginsFrame
<1>2. \A a, b : PiecesOf(f, a, b)' = PiecesOf(f, a, b)
  BY DEF PiecesOf
<1>3. Whole(f)' = Whole(f)
  BY <1>1, <1>2 DEF Whole, Packets
<1>4. Whole(frame)' = Whole(f)'
  BY DEF Whole, BeginsFrame, PiecesOf, Packets
<1> QED BY <1>3, <1>4

\* So does the beginning of a frame.
LEMMA PartialSame ==
  ASSUME NEW f, NEW d, frame' = f, due' = d, sent' = sent, Partial(f, d)
  PROVE  Partial(frame, due)'
<1>1. PICK a : a = f[1][1]
  OBVIOUS
<1>2. /\ f # <<>> /\ a < d /\ BeginsFrame(a) /\ PiecesOf(f, a, d - 1)
      /\ \A n \in a .. d - 1 : sent[n] \in {"part", "refused"}
  BY <1>1 DEF Partial
<1>3. BeginsFrame(a)'
  BY <1>2 DEF BeginsFrame
<1>4. PiecesOf(f, a, d - 1)'
  BY <1>2 DEF PiecesOf
<1>5. Partial(f, d)'
  BY <1>1, <1>2, <1>3, <1>4 DEF Partial
<1> QED BY <1>5 DEF Partial, BeginsFrame, PiecesOf

\* Pieces are pairs of numbers, which Behind and Before compare.
LEMMA PiecesArePairs ==
  ASSUME RInv
  PROVE  upTo \in Pairs /\ \A i \in 1 .. Len(frame) : frame[i] \in Pairs
<1>1. Pieces \subseteq Pairs
  BY OthersApart DEF Pieces, Pairs, RInv, BufferInv
<1>2. upTo \in Pieces \cup {<<0, 0>>} /\ <<0, 0>> \in Pairs
  BY DEF RInv, Always, AskInv, Pairs
<1> QED BY <1>1, <1>2, FrameFacts

\* Nothing but the place in the loop changes.
LEMMA FramesSame ==
  ASSUME FramesInv, UNCHANGED <<netVars, bufferVars, frameVars, askVars>>, pc' # "after" \/ pc' = pc
  PROVE  FramesInv'
<1>1. UNCHANGED <<sent, queue, seen, due, begins, completes, lossInFrame, frame, truncated, misread>>
  BY DEF netVars, bufferVars, frameVars
<1>2. UNCHANGED <<awaiting, need, task, reading, upTo>>
  BY DEF askVars
<1>4. GapInv'
  BY <1>1, <1>2 DEF FramesInv, GapInv, BeginsFrame, FirstWaits, Partial, PiecesOf
<1>5. OrderInv'
  BY <1>1, <1>2 DEF FramesInv, OrderInv, Strange, Behind, Before
<1>6. WholeInv'
  BY <1>1, <1>2 DEF FramesInv, WholeInv, Whole, BeginsFrame, PiecesOf, Packets
<1> QED BY <1>4, <1>5, <1>6 DEF FramesInv

\* getNextFrame: between two frames the packet that is expected begins one.
LEMMA NewFrameKeeps ==
  ASSUME RInv, FramesInv, GetNextFrame
  PROVE  FramesInv'
<1>1. /\ UNCHANGED <<sent, queue, seen, due, begins, completes, lossInFrame, task, upTo>>
      /\ need' = TRUE /\ frame' = <<>> /\ misread' = FALSE /\ pc' = "loop" /\ ~awaiting
  BY DEF GetNextFrame, netVars, bufferVars
<1>2. ~need /\ ~task
  BY <1>1 DEF RInv, Always, AskInv
<1>4. GapInv'
  BY <1>1, <1>2 DEF FramesInv, GapInv, BeginsFrame, FirstWaits
<1>5. OrderInv'
  BY <1>1 DEF FramesInv, OrderInv, Behind
<1>6. WholeInv'
  BY <1>1, <1>2 DEF WholeInv
<1> QED BY <1>4, <1>5, <1>6 DEF FramesInv

\* The frame that is handed over becomes the one delivered last.
LEMMA DeliveryKeeps ==
  ASSUME RInv, FramesInv, AfterGetting
  PROVE  FramesInv'
<1>1. /\ UNCHANGED <<sent, queue, seen, due, begins, completes, lossInFrame, misread, need, reading>>
      /\ upTo' = Last(frame) /\ frame' = <<>> /\ task' = FALSE /\ pc' = "client"
      /\ pc = "after" \/ task
  BY DEF AfterGetting, netVars, bufferVars
<1>2. ~need /\ frame # <<>>
  BY <1>1 DEF RInv, Always, AskInv
<1>4. GapInv'
  BY <1>1, <1>2 DEF FramesInv, GapInv, BeginsFrame, FirstWaits
<1>5. OrderInv'
  <2>1. PICK p : p = Last(frame)
    OBVIOUS
  <2>2. seen /\ Behind(p)
    BY <1>1, <1>2, <2>1 DEF FramesInv, OrderInv, Strange
  <2>3. upTo' = p /\ seen' /\ Behind(p)'
    BY <1>1, <2>1, <2>2 DEF Behind
  <2>4. Behind(upTo)'
    BY <2>3 DEF Behind
  <2> QED BY <1>1, <2>3, <2>4 DEF OrderInv
<1>6. WholeInv'
  BY <1>1 DEF WholeInv
<1> QED BY <1>4, <1>5, <1>6 DEF FramesInv

\* stopGettingFrames forgets everything.
LEMMA ResetKeeps ==
  ASSUME StopGettingFrames
  PROVE  FramesInv'
<1>1. /\ queue' = <<>> /\ seen' = FALSE /\ frame' = <<>> /\ upTo' = <<0, 0>>
      /\ need' = FALSE /\ task' = FALSE /\ pc' = "idle"
  BY DEF StopGettingFrames
<1> QED BY <1>1 DEF FramesInv, GapInv, OrderInv, WholeInv

\* Time changes nothing but the ages.
LEMMA TimeKeeps ==
  ASSUME RInv, FramesInv, Tick
  PROVE  FramesInv'
<1>1. /\ UNCHANGED <<sent, seen, due, begins, completes, lossInFrame, frame, truncated, misread, pc>>
      /\ UNCHANGED <<awaiting, need, task, reading, upTo>>
  BY DEF Tick, netVars, frameVars, askVars
<1>2. Len(queue) \in Nat /\ queue \in Seq(Entry) /\ DOMAIN queue = 1 .. Len(queue)
  BY QueueFacts DEF RInv, BufferInv
<1>4. /\ Len(queue') = Len(queue) /\ (queue' = <<>> <=> queue = <<>>)
      /\ \A i \in 1 .. Len(queue) :
           queue'[i].no = queue[i].no /\ queue'[i].first = queue[i].first /\ queue'[i].uses = queue[i].uses
  BY <1>2, OlderEntries DEF Tick, Entry
<1>6. queue # <<>> => 1 \in 1 .. Len(queue)
  BY <1>2
<1>9. FirstWaits' = FirstWaits
  BY <1>1, <1>4, <1>6 DEF FirstWaits
<1>10. GapInv'
  BY <1>1, <1>9 DEF FramesInv, GapInv, BeginsFrame, Partial, PiecesOf
<1>11. \A p : Behind(p)' = Behind(p)
  BY <1>1, <1>4, <1>6 DEF Behind
<1>12. OrderInv'
  <2>1. PICK p : p = Last(frame)
    OBVIOUS
  <2>2. PICK q : q = upTo
    OBVIOUS
  <2>3. /\ Behind(p) => Behind(Last(frame))'
        /\ Behind(q) => Behind(upTo)'
    <3>1. Behind(p)' = Behind(p) /\ Behind(q)' = Behind(q)
      BY <1>11
    <3>2. upTo' = q /\ Last(frame)' = p
      BY <1>1, <2>1, <2>2
    <3> QED BY <3>1, <3>2 DEF Behind
  <2>4. Before(upTo, frame[1])' = Before(upTo, frame[1])
    BY <1>1
  <2>5. Strange' = Strange
    BY <1>1 DEF Strange
  <2> QED BY <1>1, <2>1, <2>2, <2>3, <2>4, <2>5 DEF FramesInv, OrderInv
<1>13. WholeInv'
  BY <1>1 DEF FramesInv, WholeInv, Whole, BeginsFrame, PiecesOf, Packets
<1> QED BY <1>10, <1>12, <1>13 DEF FramesInv

\* The pieces of a frame are not touched by what is sent later.
LEMMA PiecesStay ==
  ASSUME NetTypes, NEW kind \in Kinds, sent' = Append(sent, kind),
         NEW f, NEW a \in Nat, a >= 1, NEW b \in Nat, b <= Len(sent), PiecesOf(f, a, b)
  PROVE  PiecesOf(f, a, b)'
<1>1. Len(sent) \in Nat /\ \A m \in 1 .. Len(sent) : sent'[m] = sent[m]
  BY SentStays
<1>2. \A m \in a .. b : sent'[m] = sent[m]
  BY <1>1
<1>3. {n \in a .. b : sent'[n] # "refused"} = {n \in a .. b : sent[n] # "refused"}
  BY <1>2
<1> QED BY <1>3 DEF PiecesOf

\* A new packet changes nothing about the packets before it.
LEMMA SendingKeeps ==
  ASSUME RInv, FramesInv, NEW kind \in Kinds, Send(kind)
  PROVE  FramesInv'
<1>1. /\ UNCHANGED <<queue, seen, due, begins, completes, lossInFrame, frame, truncated, misread, pc>>
      /\ UNCHANGED <<awaiting, need, task, reading, upTo>>
      /\ sent' = Append(sent, kind)
  BY DEF Send, bufferVars, frameVars, askVars
<1>2. NetTypes
  BY DEF RInv, BufferInv
<1>3. /\ Len(sent) \in Nat /\ Packets' = 1 .. Len(sent) + 1 /\ sent'[Len(sent) + 1] = kind
      /\ \A m \in 1 .. Len(sent) : sent'[m] = sent[m]
      /\ \A n \in 1 .. Len(sent) + 1 : BeginsFrame(n)' = BeginsFrame(n)
  BY <1>1, <1>2, SentStays
<1>6. /\ frame \in Seq(Pieces) /\ Len(frame) \in Nat /\ DOMAIN frame = 1 .. Len(frame)
      /\ \A i \in 1 .. Len(frame) : frame[i][1] \in Nat /\ frame[i][1] >= 1
      /\ frame # <<>> => Len(frame) # 0 /\ Last(frame) = frame[Len(frame)]
      /\ due \in Nat /\ due <= Len(sent) + 1
  BY FrameFacts
<1>7. PICK d : d = due
  OBVIOUS
<1>8. PICK f : f = frame
  OBVIOUS
<1>9. PICK a : a = f[1][1]
  OBVIOUS
<1>10. PICK b : b = Last(f)[1]
  OBVIOUS
<1>11. frame # <<>> => a \in Nat /\ a >= 1
  BY <1>3, <1>6, <1>8, <1>9
<1>12. GapInv'
  <2>1. ASSUME seen, BeginsFrame(d) PROVE BeginsFrame(d)'
    <3>1. d \in 1 .. Len(sent) + 1
      BY <1>6, <1>7, <2>1 DEF RInv, BufferInv
    <3> QED BY <1>3, <2>1, <3>1
  <2>2. ASSUME Partial(f, d) PROVE Partial(f, d)'
    <3>1. f # <<>> /\ a < d /\ BeginsFrame(a) /\ PiecesOf(f, a, d - 1)
          /\ \A n \in a .. d - 1 : sent[n] \in {"part", "refused"}
      BY <1>9, <2>2 DEF Partial
    <3>2. a \in 1 .. Len(sent) /\ d - 1 \in Nat /\ d - 1 <= Len(sent)
      BY <1>3, <1>6, <1>7, <1>8, <1>11, <3>1
    <3>3. PiecesOf(f, a, d - 1)'
      BY <1>1, <1>2, <3>1, <3>2, PiecesStay
    <3>4. BeginsFrame(a)'
      BY <1>3, <3>1, <3>2
    <3>5. \A n \in a .. d - 1 : sent'[n] \in {"part", "refused"}
      BY <1>3, <3>1, <3>2
    <3> QED BY <1>9, <3>1, <3>3, <3>4, <3>5 DEF Partial
  <2>3. /\ BeginsFrame(d) = BeginsFrame(due) /\ Partial(f, d) = Partial(frame, due)
        /\ FirstWaits' = FirstWaits
    BY <1>1, <1>7, <1>8 DEF FirstWaits
  <2>4. due' = d /\ frame' = f
    BY <1>1, <1>7, <1>8
  <2>5. /\ (BeginsFrame(d)' => BeginsFrame(due)') /\ (Partial(f, d)' => Partial(frame, due)')
    BY <2>4 DEF BeginsFrame, Partial, PiecesOf
  <2> QED BY <1>1, <1>8, <2>1, <2>2, <2>3, <2>5 DEF FramesInv, GapInv
<1>13. OrderInv'
  BY <1>1 DEF FramesInv, OrderInv, Strange, Behind, Before
<1>14. WholeInv'
  <2>1. ASSUME f # <<>>, Whole(f) PROVE Whole(f)'
    <3>1. a \in 1 .. Len(sent) /\ b \in 1 .. Len(sent) /\ a \in Packets' /\ b \in Packets'
      BY <1>3, <1>9, <1>10, <2>1 DEF Whole, Packets
    <3>2. sent'[a] = sent[a] /\ sent'[b] = sent[b] /\ BeginsFrame(a)' = BeginsFrame(a)
      BY <1>3, <3>1
    <3>3. \A n \in a .. b - 1 : sent'[n] = sent[n]
      BY <1>3, <3>1
    <3>4. PiecesOf(f, a, b) => PiecesOf(f, a, b)'
      BY <1>1, <1>2, <1>3, <3>1, PiecesStay
    <3> QED BY <1>9, <1>10, <2>1, <3>1, <3>2, <3>3, <3>4 DEF Whole
  <2>2. Whole(f) = Whole(frame) /\ frame' = f
    BY <1>1, <1>8
  <2>3. Whole(f)' => Whole(frame)'
    BY <2>2 DEF Whole, BeginsFrame, PiecesOf, Packets
  <2>4. pc = "after" \/ task => frame # <<>>
    BY DEF RInv, Always, AskInv
  <2> QED BY <1>1, <1>8, <2>1, <2>2, <2>3, <2>4 DEF FramesInv, WholeInv
<1> QED BY <1>12, <1>13, <1>14 DEF FramesInv

\* A packet that is stored before the head cannot take the place of the one that is
\* expected; the first that is stored is the one that is expected.
LEMMA HeadStays ==
  ASSUME RInv, NEW n \in Packets, Len(sent) - n < Reach, storePacket(n), Knows(n) = seen
  PROVE  /\ seen' = TRUE
         /\ \A i \in 1 .. Len(queue') : queue'[i].uses = 0 \/ \E j \in 1 .. Len(queue) : queue'[i] = queue[j]
         /\ seen => due' = due
         /\ seen /\ queue # <<>> /\ queue[1].no = due => queue' # <<>> /\ queue'[1] = queue[1]
         /\ ~seen => queue = <<>> /\ due' = n /\ queue' # <<>> /\ queue'[1] = Stored(n)
<1>1. /\ Len(sent) \in Nat /\ Len(queue) \in Nat /\ DOMAIN queue = 1 .. Len(queue)
      /\ \A i \in 1 .. Len(queue) :
              /\ queue[i] \in Entry /\ queue[i].no \in 1 .. Len(sent) /\ due <= queue[i].no
              /\ \A j \in 1 .. Len(queue) : i < j => queue[i].no < queue[j].no
  BY QueueFacts DEF RInv
<1>2. PICK d : StoreMeans(n, d)
  BY StoreFacts DEF RInv
<1>3. /\ d \in Nat /\ 1 <= d /\ d = (IF seen THEN due ELSE n)
      /\ seen' = TRUE /\ due' = d /\ n \in Nat
      /\ (seen /\ queue' = queue) \/ (d <= n /\ \E p \in 1 .. Len(queue) + 1 : StoredAt(n, p))
  BY <1>2 DEF StoreMeans, Packets
<1>4. ~seen => queue = <<>>
  BY DEF RInv, BufferInv
<1>5. CASE seen /\ queue' = queue
  BY <1>1, <1>3, <1>5
<1>6. ASSUME d <= n, NEW p \in 1 .. Len(queue) + 1, StoredAt(n, p)
      PROVE  /\ \A i \in 1 .. Len(queue') : queue'[i].uses = 0 \/ \E j \in 1 .. Len(queue) : queue'[i] = queue[j]
             /\ seen /\ queue # <<>> /\ queue[1].no = due => queue' # <<>> /\ queue'[1] = queue[1]
             /\ ~seen => queue' # <<>> /\ queue'[1] = Stored(n)
  <2>1. /\ queue' \in Seq(Entry) /\ Len(queue') = Len(queue) + 1
        /\ \A i \in 1 .. Len(queue) : IF i < p THEN queue[i].no < n ELSE n < queue[i].no
        /\ \A i \in 1 .. Len(queue) + 1 :
             queue'[i] = IF i < p THEN queue[i] ELSE IF i = p THEN Stored(n) ELSE queue[i - 1]
    BY <1>6 DEF StoredAt
  <2>2. queue' # <<>>
    BY <1>1, <2>1
  <2>3. ASSUME NEW i \in 1 .. Len(queue) + 1
        PROVE  queue'[i].uses = 0 \/ \E j \in 1 .. Len(queue) : queue'[i] = queue[j]
    <3>1. CASE i < p
      <4>1. i \in 1 .. Len(queue)
        BY <1>1, <3>1
      <4> QED BY <2>1, <3>1, <4>1
    <3>2. CASE i = p
      BY <2>1, <3>2 DEF Stored
    <3>3. CASE i > p
      <4>1. i - 1 \in 1 .. Len(queue)
        BY <1>1, <3>3
      <4>2. queue'[i] = queue[i - 1]
        BY <1>1, <2>1, <3>3
      <4> QED BY <4>1, <4>2
    <3> QED BY <1>1, <3>1, <3>2, <3>3
  <2>4. ASSUME seen, queue # <<>>, queue[1].no = due PROVE queue'[1] = queue[1]
    <3>1. 1 \in 1 .. Len(queue) /\ 1 \in 1 .. Len(queue) + 1
      BY <1>1, <2>4
    <3>2. ~(n < queue[1].no)
      BY <1>3, <1>6, <2>4
    <3>3. 1 < p
      BY <2>1, <3>1, <3>2
    <3> QED BY <2>1, <3>1, <3>3
  <2>5. ASSUME ~seen PROVE queue'[1] = Stored(n)
    <3>1. Len(queue) = 0 /\ p = 1 /\ 1 \in 1 .. Len(queue) + 1
      BY <1>1, <1>4, <1>6, <2>5
    <3> QED BY <2>1, <3>1
  <2> QED BY <2>1, <2>2, <2>3, <2>4, <2>5
<1> QED BY <1>3, <1>4, <1>5, <1>6

\* A packet that arrives, whether it is stored or not.
LEMMA ArrivalKeeps ==
  ASSUME RInv, FramesInv, ~mixed, NEW n \in Packets, InReach(n), ReceivePacket(n)
  PROVE  FramesInv'
<1>1. /\ UNCHANGED <<sent, begins, completes, lossInFrame, frame, truncated, misread>>
      /\ UNCHANGED <<awaiting, need, task, reading, upTo>>
      /\ pc' = "loop" /\ reading /\ storePacket(n)
  <2>1. upTo' = upTo
    <3>1. other => upTo = <<0, 0>>
      BY DEF RInv, Always, MixTypes, FramesInv, OrderInv
    <3>2. upTo' = upTo \/ (other /\ upTo' = <<0, 0>>)
      BY DEF ReceivePacket
    <3> QED BY <3>1, <3>2
  <2> QED BY <2>1 DEF ReceivePacket, netVars, frameVars
<1>2. /\ seen' = TRUE
      /\ \A i \in 1 .. Len(queue') : queue'[i].uses = 0 \/ \E j \in 1 .. Len(queue) : queue'[i] = queue[j]
      /\ seen => due' = due
      /\ seen /\ queue # <<>> /\ queue[1].no = due => queue' # <<>> /\ queue'[1] = queue[1]
      /\ ~seen => queue = <<>> /\ due' = n /\ queue' # <<>> /\ queue'[1] = Stored(n)
  <2>1. Len(sent) - n < Reach /\ Knows(n) = seen
    BY StillKnown DEF InReach, RInv
  <2> QED BY <1>1, <2>1, HeadStays
<1>3. Stored(n).no = n /\ Stored(n).first = ~seen /\ n \in Nat /\ n >= 1
  BY FrameFacts DEF Stored, Packets
<1>6. ASSUME seen PROVE GapInv' /\ OrderInv'
  <2>1. due' = due /\ (FirstWaits => FirstWaits')
    BY <1>2, <1>6 DEF FirstWaits
  <2>2. GapInv'
    BY <1>1, <1>6, <2>1 DEF FramesInv, GapInv, BeginsFrame, Partial, PiecesOf
  <2>3. OrderInv'
    <3>1. PICK p : p = Last(frame)
      OBVIOUS
    <3>2. PICK q : q = upTo
      OBVIOUS
    <3>3. \A r : Behind(r) => Behind(r)'
      BY <1>2, <1>6, <2>1 DEF Behind
    <3>4. /\ Behind(p) => Behind(Last(frame))'
          /\ Behind(q) => Behind(upTo)'
      <4>1. (Behind(p) => Behind(p)') /\ (Behind(q) => Behind(q)')
        BY <3>3
      <4>2. upTo' = q /\ Last(frame)' = p
        BY <1>1, <3>1, <3>2
      <4> QED BY <4>1, <4>2 DEF Behind
    <3>5. Before(upTo, frame[1])' = Before(upTo, frame[1])
      BY <1>1
    <3>6. seen' /\ frame' = frame
      BY <1>1, <1>2
    <3>7. Behind(upTo)'
      BY <1>6, <3>2, <3>4 DEF FramesInv, OrderInv
    <3>8. frame # <<>> => (Behind(Last(frame))' \/ Strange') /\ Before(upTo, frame[1])'
      <4>1. Strange => Strange'
        BY <1>1 DEF Strange
      <4> QED BY <1>6, <3>1, <3>4, <3>5, <4>1 DEF FramesInv, OrderInv
    <3> QED BY <3>6, <3>7, <3>8 DEF OrderInv
  <2> QED BY <2>2, <2>3
<1>7. ASSUME ~seen PROVE GapInv' /\ OrderInv'
  <2>1. frame = <<>> /\ upTo = <<0, 0>> /\ need
    BY <1>1, <1>7 DEF FramesInv, OrderInv, FlagsInv, RInv, Always
  <2>2. FirstWaits' /\ due' = n
    BY <1>2, <1>3, <1>7 DEF FirstWaits
  <2>3. GapInv'
    BY <1>1, <2>1, <2>2 DEF GapInv
  <2>4. OrderInv'
    <3>1. upTo' = <<0, 0>> /\ <<0, 0>>[1] = 0 /\ 0 < n
      BY <1>1, <1>3, <2>1
    <3>2. Behind(upTo)'
      BY <2>2, <3>1 DEF Behind
    <3>3. seen' /\ frame' = <<>>
      BY <1>1, <1>2, <2>1
    <3> QED BY <3>2, <3>3 DEF OrderInv
  <2> QED BY <2>3, <2>4
<1>8. WholeInv'
  BY <1>1 DEF FramesInv, WholeInv, Whole, BeginsFrame, PiecesOf, Packets
<1>9. seen \in BOOLEAN
  BY DEF RInv, BufferInv
<1> QED BY <1>6, <1>7, <1>8, <1>9 DEF FramesInv

\* Where the sender's packets begin again, nothing of a frame is whole, and its end
\* does not matter: the packet is marked as the first.
LEMMA FramesAfresh ==
  ASSUME Always, mixed, NEW n \in Packets, InReach(n), ReceivePacket(n), ~mixed'
  PROVE  FramesInv'
<1>1. /\ due' = n /\ seen' /\ upTo' = <<0, 0>> /\ queue = <<>>
      /\ queue' # <<>> /\ queue'[1].no = n /\ queue'[1].first
  BY StartsAfresh DEF InReach
<1>2. ~task' /\ pc' = "loop" /\ frame' = frame
  BY <1>1 DEF ReceivePacket, frameVars, Always, FlagsInv
<1>3. FirstWaits'
  BY <1>1 DEF FirstWaits
<1>4. GapInv'
  BY <1>3 DEF GapInv
<1>5. WholeInv'
  BY <1>2 DEF WholeInv
<1>6. n \in Nat /\ n >= 1
  BY OthersApart DEF Always, MixTypes
<1>7. Behind(upTo)'
  BY <1>1, <1>6 DEF Behind
<1>8. frame # <<>> => frame[1][1] \in Nat /\ frame[1][1] >= 1
  <2>1. frame \in Seq(Pieces)
    BY DEF Always, AskInv
  <2>2. frame # <<>> => frame[1] \in Pieces
    BY <2>1
  <2>3. \A x \in Pieces : x[1] \in Nat /\ x[1] >= 1
    BY OthersApart DEF Pieces, Always, MixTypes
  <2> QED BY <2>2, <2>3
<1>9. frame # <<>> => Before(upTo, frame[1])'
  BY <1>1, <1>2, <1>8 DEF Before
<1>10. Strange'
  BY <1>1, <1>2 DEF Strange
<1>11. OrderInv'
  BY <1>1, <1>2, <1>7, <1>9, <1>10 DEF OrderInv
<1> QED BY <1>4, <1>5, <1>11 DEF FramesInv

\* The head is released: all that lay behind what was expected lies behind it.
LEMMA Released ==
  ASSUME RInv, queue # <<>>, ReleaseHead
  PROVE  /\ due' = queue[1].no + 1 /\ seen' = TRUE /\ Len(queue) \in Nat
         /\ \A i \in 1 .. Len(queue') : i + 1 \in 1 .. Len(queue) /\ queue'[i] = queue[i + 1]
         /\ \A p \in Pairs : Behind(p) => Behind(p)'
<1>1. /\ Head(queue) = queue[1] /\ queue[1].no \in 1 .. Len(sent) /\ due <= queue[1].no
      /\ seen /\ due \in Nat /\ Len(sent) \in Nat
  BY LossMeans, FrameFacts
<1>2. queue' = Tail(queue) /\ due' = queue[1].no + 1 /\ seen' = TRUE
  BY <1>1 DEF ReleaseHead
<1>3. queue \in Seq(Entry) /\ Len(queue) \in Nat
  BY QueueFacts DEF RInv, BufferInv
<1>4. \A i \in 1 .. Len(queue') : i + 1 \in 1 .. Len(queue) /\ queue'[i] = queue[i + 1]
  BY <1>2, <1>3, HeadTailProperties
<1>5. ASSUME NEW p \in Pairs, Behind(p) PROVE Behind(p)'
  <2>1. p[1] \in Nat /\ (p[1] < due \/ p[1] = due)
    BY <1>5 DEF Behind, Pairs
  <2>2. p[1] < queue[1].no + 1
    BY <1>1, <2>1
  <2> QED BY <1>2, <2>2 DEF Behind
<1> QED BY <1>2, <1>3, <1>4, <1>5

\* What is the same whenever the head is released and the frame stays.
LEMMA DropOrder ==
  ASSUME RInv, FramesInv, queue # <<>>, ReleaseHead, UNCHANGED <<sent, frame, upTo, task, pc>>
  PROVE  OrderInv'
<1>1. /\ due' = queue[1].no + 1 /\ seen' = TRUE /\ Len(queue) \in Nat
      /\ \A i \in 1 .. Len(queue') : i + 1 \in 1 .. Len(queue) /\ queue'[i] = queue[i + 1]
      /\ \A p \in Pairs : Behind(p) => Behind(p)'
  BY Released
<1>2. seen
  BY LossMeans
<1>3. PICK p : p = Last(frame)
  OBVIOUS
<1>4. PICK q : q = upTo
  OBVIOUS
<1>5. q \in Pairs /\ (frame # <<>> => p \in Pairs)
  BY <1>3, <1>4, PiecesArePairs, FrameFacts
<1>6. Behind(q) /\ (frame # <<>> => (Behind(p) \/ Strange) /\ Before(upTo, frame[1]))
  BY <1>2, <1>3, <1>4 DEF FramesInv, OrderInv
<1>7. Behind(q)' /\ (frame # <<>> /\ Behind(p) => Behind(p)')
  BY <1>1, <1>5, <1>6
<1>8. upTo' = q /\ Last(frame)' = p
  BY <1>3, <1>4
<1>9. Behind(upTo)' /\ (frame # <<>> /\ Behind(p) => Behind(Last(frame))')
  BY <1>7, <1>8 DEF Behind
<1>10. Before(upTo, frame[1])' = Before(upTo, frame[1])
  OBVIOUS
<1>11. seen' /\ frame' = frame
  BY <1>1
<1>12. Strange' = Strange
  BY DEF Strange
<1> QED BY <1>6, <1>9, <1>10, <1>11, <1>12 DEF OrderInv

\* A refused packet: either the loss before it is recorded in misread, or there was none.
LEMMA RefusalKeeps ==
  ASSUME RInv, FramesInv, RefusePacket
  PROVE  FramesInv'
<1>1. /\ queue # <<>> /\ ReleaseHead /\ sent[Head(queue).no] = "refused" /\ need
      /\ UNCHANGED <<sent, begins, completes, lossInFrame, frame, upTo, need, reading, task, pc>>
      /\ misread' = (misread \/ LossPreceded) /\ pc = "loop"
  <2>1. queue # <<>> /\ Kind(Head(queue).no) = "refused"
    BY DEF RefusePacket, Available
  <2>2. Head(queue).no \in Packets
    BY <2>1, LossMeans DEF Packets
  <2> QED BY <2>1, <2>2 DEF RefusePacket, netVars, askVars, Kind
<1>2. OrderInv' /\ due' = queue[1].no + 1 /\ seen' = TRUE
  BY <1>1, Released, DropOrder
<1>3. /\ Head(queue) = queue[1] /\ due \in Nat /\ due >= 1 /\ seen
      /\ LossPreceded <=> (queue[1].no # due \/ queue[1].first)
  BY <1>1, LossMeans
<1>4. WholeInv'
  BY <1>1 DEF WholeInv, RInv, Always, AskInv
<1>6. GapInv'
  <2>1. ASSUME ~misread', ~lossInFrame'
        PROVE  /\ frame' = <<>> => BeginsFrame(due)'
               /\ frame' # <<>> => Partial(frame, due)'
    <3>1. PICK d : d = due
      OBVIOUS
    <3>2. ~misread /\ ~lossInFrame /\ queue[1].no = due /\ ~queue[1].first
      BY <1>1, <1>3, <2>1
    <3>3. sent[d] = "refused" /\ due' = d + 1 /\ ~FirstWaits /\ d \in Nat /\ d >= 1
      BY <1>1, <1>2, <1>3, <3>1, <3>2 DEF FirstWaits
    <3>4. ASSUME frame = <<>> PROVE BeginsFrame(due)'
      <4>1. BeginsFrame(d)
        BY <1>1, <1>3, <3>1, <3>2, <3>3, <3>4 DEF FramesInv, GapInv
      <4>2. BeginsFrame(d + 1)
        BY <3>3, <4>1, NextBegins
      <4> QED BY <1>1, <3>3, <4>2 DEF BeginsFrame
    <3>5. ASSUME frame # <<>> PROVE Partial(frame, due)'
      <4>1. Partial(frame, d)
        BY <1>1, <1>3, <3>1, <3>2, <3>3, <3>5 DEF FramesInv, GapInv
      <4>2. PICK f : f = frame
        OBVIOUS
      <4>3. PICK a : a = f[1][1]
        OBVIOUS
      <4>4. f # <<>> /\ a < d /\ BeginsFrame(a) /\ PiecesOf(f, a, d - 1)
            /\ \A n \in a .. d - 1 : sent[n] \in {"part", "refused"}
        BY <4>1, <4>2, <4>3 DEF Partial
      <4>5. f \in Seq(Pieces) /\ a \in Nat
        BY <3>5, <4>2, <4>3, FrameFacts
      <4>6. PiecesOf(f, a, d)
        <5>1. a <= d
          BY <3>3, <4>4, <4>5
        <5> QED BY <3>3, <4>4, <4>5, <5>1, PiecesGrow
      <4>7. \A n \in a .. d : sent[n] \in {"part", "refused"}
        BY <3>3, <4>4, <4>5
      <4>8. a < d + 1 /\ (d + 1) - 1 = d
        BY <3>3, <4>4, <4>5
      <4>9. Partial(f, d + 1)
        BY <4>3, <4>4, <4>6, <4>7, <4>8 DEF Partial
      <4>10. frame' = f
        BY <1>1, <4>2
      <4> QED BY <1>1, <3>3, <4>9, <4>10 DEF Partial, BeginsFrame, PiecesOf
    <3> QED BY <1>1, <3>4, <3>5
  <2>2. need'
    BY <1>1
  <2> QED BY <2>1, <2>2 DEF GapInv
<1> QED BY <1>2, <1>4, <1>6 DEF FramesInv

\* A packet of a frame that cannot be completed any more.
LEMMA RejectionKeeps ==
  ASSUME RInv, FramesInv, RejectPacket
  PROVE  FramesInv'
<1>1. /\ queue # <<>> /\ ReleaseHead /\ LossAfter(Head(queue).no) /\ need
      /\ UNCHANGED <<sent, frame, upTo, need, reading, task, pc, misread>>
      /\ begins' = BeginsNow(Head(queue).no) /\ lossInFrame' = TRUE /\ pc = "loop"
  BY DEF RejectPacket, Available, netVars, askVars
<1>2. OrderInv' /\ seen' = TRUE
  BY <1>1, Released, DropOrder
<1>3. WholeInv'
  BY <1>1 DEF WholeInv, RInv, Always, AskInv
<1>4. GapInv'
  BY <1>1 DEF GapInv
<1> QED BY <1>2, <1>3, <1>4 DEF FramesInv

\* f is what there is of a unit as far as its part in packet n.
UnitTo(f, n) ==
  /\ f # <<>> /\ Last(f)[1] = n /\ f[1][1] \in 1 .. n /\ BeginsFrame(f[1][1])
  /\ \A m \in f[1][1] .. n - 1 : sent[m] \in {"part", "refused"}
  /\ PiecesOf(f, f[1][1], n)

\* A part of a unit that is used begins one, or goes on with the one in the frame:
\* the only place where loss, order and the two flags come together.
LEMMA PartJoins ==
  ASSUME RInv, FramesInv, queue # <<>>, need, ~misread, NEW n, n = Head(queue).no,
         sent[n] \in {"part", "end"}, ~LossAfter(n), NEW f, f = Append(Kept(n), <<n, 1>>)
  PROVE  UnitTo(f, n)
<1>1. /\ n = queue[1].no /\ n \in 1 .. Len(sent) /\ due <= n /\ Len(sent) \in Nat
      /\ seen /\ due \in Nat /\ due >= 1 /\ n \in Nat /\ n \in Packets
      /\ LossPreceded <=> (n # due \/ queue[1].first)
  BY LossMeans, FrameFacts DEF Packets
<1>2. BeginsNow(n) = BeginsFrame(n) /\ sent[n] # "refused"
  BY <1>1 DEF BeginsNow, Kind, Aggregates
<1>3. PICK x : x = <<n, 1>>
  OBVIOUS
<1>4. x \in Pieces /\ x[1] = n /\ f = Append(Kept(n), x)
  BY <1>1, <1>3 DEF Pieces
<1>5. CASE BeginsFrame(n)
  <2>1. Kept(n) = <<>>
    <3>1. CASE LossPreceded \/ lossInFrame
      BY <1>2, <1>5, <3>1 DEF Kept
    <3>2. CASE ~LossPreceded /\ ~lossInFrame
      <4>1. n = due /\ Kept(n) = frame
        BY <1>1, <3>2 DEF Kept
      <4>2. ~Partial(frame, due)
        BY <1>5, <4>1, WithinUnit
      <4>3. frame = <<>>
        <5>1. ~FirstWaits
          BY <1>1, <3>2 DEF FirstWaits
        <5> QED BY <3>2, <4>2, <5>1 DEF FramesInv, GapInv
      <4> QED BY <4>1, <4>3
    <3> QED BY <3>1, <3>2
  <2>2. PICK e : e = <<>>
    OBVIOUS
  <2>3. e \in Seq(Pieces) /\ Len(e) = 0 /\ DOMAIN e = {}
    BY <2>2
  <2>4. e = Kept(n)
    BY <2>1, <2>2
  <2>5. f = Append(e, x)
    BY <1>4, <2>4, Zenon
  <2>6. f # <<>> /\ Len(f) = 1 /\ f[1] = x
    <3>1. f = Append(<<>>, x) /\ x \in Pieces
      BY <1>4, <2>2, <2>5
    <3> QED BY <3>1, FirstPiece
  <2>7. PiecesOf(e, n, n - 1)
    BY <1>1, <2>3 DEF PiecesOf
  <2>8. PiecesOf(f, n, n)
    <3>1. f = Append(e, <<n, 1>>)
      BY <1>3, <2>5
    <3>2. n <= n
      BY <1>1
    <3> QED BY <1>1, <1>2, <2>3, <2>7, <3>1, <3>2, PiecesGrow
  <2>9. Last(f) = x /\ f[1][1] = n
    BY <1>4, <2>6 DEF Last
  <2>10. \A m \in n .. n - 1 : sent[m] \in {"part", "refused"}
    BY <1>1
  <2> QED BY <1>1, <1>4, <1>5, <2>6, <2>8, <2>9, <2>10 DEF UnitTo
<1>6. CASE ~BeginsFrame(n)
  <2>1. ~lossInFrame /\ ~LossPreceded /\ Kept(n) = frame
    BY <1>2, <1>6 DEF LossAfter, Kept
  <2>2. n = due /\ ~FirstWaits
    BY <1>1, <2>1 DEF FirstWaits
  <2>3. frame # <<>>
    BY <1>1, <1>6, <2>1, <2>2 DEF FramesInv, GapInv
  <2>4. PICK g : g = frame
    OBVIOUS
  <2>5. Partial(g, n)
    BY <2>1, <2>2, <2>3, <2>4 DEF FramesInv, GapInv
  <2>6. PICK a : a = g[1][1]
    OBVIOUS
  <2>7. g # <<>> /\ a < n /\ BeginsFrame(a) /\ PiecesOf(g, a, n - 1)
        /\ \A m \in a .. n - 1 : sent[m] \in {"part", "refused"}
    BY <2>5, <2>6 DEF Partial
  <2>8. g \in Seq(Pieces) /\ a \in Nat /\ a >= 1 /\ Len(g) \in Nat /\ 1 \in 1 .. Len(g)
    BY <2>3, <2>4, <2>6, FrameFacts
  <2>9. f = Append(g, x)
    BY <1>4, <2>1, <2>4
  <2>10. f # <<>> /\ Len(f) = Len(g) + 1 /\ f[1] = g[1] /\ f[Len(g) + 1] = x
    BY <1>4, <2>8, <2>9, Appended
  <2>11. f[1][1] = a /\ Last(f)[1] = n
    BY <1>4, <2>6, <2>10 DEF Last
  <2>12. PiecesOf(f, a, n)
    <3>1. a <= n /\ f = Append(g, <<n, 1>>)
      BY <1>1, <1>3, <2>7, <2>8, <2>9
    <3> QED BY <1>1, <1>2, <2>7, <2>8, <3>1, PiecesGrow
  <2>13. a \in 1 .. n
    BY <1>1, <2>7, <2>8
  <2> QED BY <2>7, <2>10, <2>11, <2>12, <2>13 DEF UnitTo
<1> QED BY <1>5, <1>6

\* A unit of an aggregate is alone in its frame.
LEMMA UnitAlone ==
  ASSUME RInv, need, NEW n, Kind(n) \in Aggregates, ~LossAfter(n), completes
  PROVE  Kept(n) = <<>>
<1>1. begins \in BOOLEAN /\ lossInFrame \in BOOLEAN /\ BeginsNow(n) = begins
  BY DEF BeginsNow, RInv, Always, AskInv
<1>2. ~lossInFrame
  BY <1>1 DEF LossAfter, RInv, Always, FlagsInv
<1>3. frame = <<>>
  BY <1>2 DEF RInv, Always, FlagsInv
<1> QED BY <1>3 DEF Kept

\* Where nothing of a packet is used, no frame is completed.
LEMMA BlankWaits ==
  ASSUME RInv, NEW n, NEW u, Used(n, u), Blank(n, u)
  PROVE  /\ Kind(n) \in Aggregates /\ Remains(n, u) /\ frame' = Kept(n)
         /\ need' /\ ~task' /\ pc' = "loop"
<1>1. Kind(n) = "stray" /\ Kind(n) \in Aggregates /\ Remains(n, u)
  BY DEF Blank, Aggregates, Remains
<1>2. /\ completes' = CompletesNow(n) /\ frame' = Kept(n) /\ need' = ~(completes' /\ frame' # <<>>)
      /\ task' = (~need' /\ queue' # <<>>) /\ need /\ ~LossAfter(n)
      /\ pc' = (IF need' THEN "loop" ELSE IF task' THEN "idle" ELSE "after")
  BY DEF Used
<1>3. completes' = completes
  BY <1>1, <1>2 DEF CompletesNow
<1>4. ASSUME completes PROVE Kept(n) = <<>>
  BY <1>1, <1>2, <1>4, UnitAlone
<1>5. ~(completes' /\ frame' # <<>>)
  BY <1>2, <1>3, <1>4
<1>6. need'
  BY <1>2, <1>5
<1>7. ~task' /\ pc' = "loop"
  BY <1>2, <1>6
<1> QED BY <1>1, <1>2, <1>6, <1>7

\* What lies behind what is expected still does after a unit is used.
LEMMA UseBehind ==
  ASSUME RInv, NEW n, NEW u, n = queue[1].no, u = queue[1].uses, Used(n, u)
  PROVE  /\ seen' /\ due' = (IF Remains(n, u) THEN n ELSE n + 1)
         /\ \A p \in Pairs : Behind(p) => Behind(p)'
         /\ Remains(n, u) => queue' # <<>> /\ queue'[1].no = n /\ queue'[1].uses = 1
<1>1. /\ queue[1].no \in 1 .. Len(sent) /\ due <= queue[1].no /\ Head(queue) = queue[1]
      /\ seen /\ due \in Nat /\ Len(sent) \in Nat /\ queue # <<>>
  <2>1. queue # <<>>
    BY DEF Used
  <2> QED BY <2>1, LossMeans, FrameFacts
<1>2. CASE ~Remains(n, u)
  <2>1. ReleaseHead
    BY <1>2 DEF Used
  <2>2. /\ due' = queue[1].no + 1 /\ seen' = TRUE /\ \A p \in Pairs : Behind(p) => Behind(p)'
    BY <1>1, <2>1, Released
  <2> QED BY <1>2, <2>2
<1>3. CASE Remains(n, u)
  <2>1. queue' = [queue EXCEPT ![1].uses = 1] /\ GiveUpEarlier /\ UNCHANGED <<sent, other, changes>>
    BY <1>3 DEF Used
  <2>2. queue' # <<>> /\ queue'[1].uses = 1 /\ queue'[1].no = queue[1].no
    BY <1>1, <2>1, GiveUpTypes DEF RInv, Always
  <2>3. due' = queue[1].no /\ seen'
    BY <1>1, <2>1 DEF GiveUpEarlier
  <2>4. ASSUME NEW p \in Pairs, Behind(p) PROVE Behind(p)'
    <3>1. CASE p[1] < due
      <4>1. p[1] < queue[1].no
        BY <1>1, <3>1 DEF Pairs
      <4> QED BY <2>3, <4>1 DEF Behind
    <3>2. CASE p[1] = due /\ p[2] = 1 /\ queue[1].no = due
      <4>1. p[1] = due' /\ p[2] = 1 /\ queue'[1].no = due'
        BY <2>2, <2>3, <3>2
      <4> QED BY <2>2, <4>1 DEF Behind
    <3> QED BY <2>4, <3>1, <3>2 DEF Behind
  <2> QED BY <1>3, <2>2, <2>3, <2>4
<1> QED BY <1>2, <1>3

\* A used unit is put behind what there is, and in order with what was delivered.
LEMMA UseOrder ==
  ASSUME RInv, FramesInv, NEW n, NEW u, n = queue[1].no, u = queue[1].uses, Used(n, u)
  PROVE  OrderInv'
<1>1. /\ queue[1].no \in 1 .. Len(sent) /\ due <= queue[1].no
      /\ queue[1].uses \in {0, 1} /\ seen /\ due \in Nat /\ Len(sent) \in Nat /\ queue # <<>>
  <2>1. queue # <<>>
    BY DEF Used
  <2>2. Head(queue) = queue[1]
    BY <2>1, LossMeans
  <2> QED BY <2>1, <2>2, LossMeans, FrameFacts
<1>2. PICK x : x = <<n, u + 1>>
  OBVIOUS
<1>3. PICK q : q = upTo
  OBVIOUS
<1>4. PICK k : k = Kept(n)
  OBVIOUS
<1>5. sent' = sent /\ upTo' = q /\ frame' = (IF Blank(n, u) THEN k ELSE Append(k, x))
  BY <1>2, <1>3, <1>4 DEF Used
<1>6. /\ n \in Nat /\ n >= 1 /\ u \in {0, 1} /\ x \in Pieces /\ x[1] = n /\ x[2] = u + 1
      /\ q \in Pairs /\ q[1] \in Nat /\ q[2] \in Nat /\ x \in Pairs
  <2>1. n \in Nat /\ n >= 1 /\ n \in Packets /\ u \in {0, 1}
    BY <1>1 DEF Packets
  <2>2. x \in Pieces /\ x[1] = n /\ x[2] = u + 1
    BY <1>2, <2>1 DEF Pieces
  <2>3. q \in Pairs /\ q[1] \in Nat /\ q[2] \in Nat
    BY <1>3, PiecesArePairs DEF Pairs
  <2>4. x \in Pairs
    BY <1>2, <2>1 DEF Pairs
  <2> QED BY <2>1, <2>2, <2>3, <2>4
<1>7. k \in Seq(Pieces) /\ (k # <<>> => k = frame)
  BY <1>4, FrameFacts DEF Kept
<1>8. Behind(q) /\ q[1] <= due /\ (q[1] = n => q[2] = 1 /\ u = 1)
  <2>1. Behind(q)
    BY <1>1, <1>3 DEF FramesInv, OrderInv
  <2>2. q[1] <= due
    BY <1>1, <1>6, <2>1 DEF Behind
  <2>3. ASSUME q[1] = n PROVE q[2] = 1 /\ u = 1
    BY <1>1, <1>6, <2>1, <2>2, <2>3 DEF Behind
  <2> QED BY <2>1, <2>2, <2>3
<1>9. Before(q, x)
  BY <1>1, <1>6, <1>8 DEF Before
<1>10. /\ seen' /\ due' = (IF Remains(n, u) THEN n ELSE n + 1)
       /\ \A p \in Pairs : Behind(p) => Behind(p)'
       /\ Remains(n, u) => queue' # <<>> /\ queue'[1].no = n /\ queue'[1].uses = 1
  BY UseBehind
<1>11. Behind(upTo)'
  <2>1. Behind(q)'
    BY <1>6, <1>8, <1>10
  <2> QED BY <1>5, <2>1 DEF Behind
<1>12. CASE Blank(n, u)
  <2>1. frame' = k /\ need' /\ ~task' /\ pc' = "loop"
    BY <1>4, <1>12, BlankWaits
  <2>2. ASSUME k # <<>> PROVE Before(upTo, frame[1])' /\ (Behind(Last(frame))' \/ Strange')
    <3>1. k = frame /\ frame' = frame
      BY <1>7, <2>1, <2>2
    <3>2. Before(q, frame[1]) /\ (Behind(Last(frame)) \/ Strange)
      BY <1>3, <2>2, <3>1 DEF FramesInv, OrderInv
    <3>3. Before(upTo, frame[1])'
      BY <1>5, <3>1, <3>2 DEF Before
    <3>4. Strange => Strange'
      BY <1>3, <1>5, <2>1 DEF Strange
    <3>5. PICK p : p = Last(frame)
      OBVIOUS
    <3>6. p \in Pairs
      BY <2>2, <3>1, <3>5, PiecesArePairs, FrameFacts
    <3>7. Behind(p) => Behind(p)'
      BY <1>10, <3>6
    <3>8. Last(frame)' = p
      BY <3>1, <3>5
    <3>9. Behind(p)' => Behind(Last(frame))'
      BY <3>8 DEF Behind
    <3> QED BY <3>2, <3>3, <3>4, <3>5, <3>7, <3>9
  <2> QED BY <1>10, <1>11, <2>1, <2>2 DEF OrderInv
<1>13. CASE ~Blank(n, u)
  <2>1. Behind(x)'
    <3>1. CASE Remains(n, u)
      <4>1. u = 0
        BY <1>6, <1>13, <3>1 DEF Remains, Blank
      <4>2. x[1] = due' /\ x[2] = 1
        BY <1>6, <1>10, <3>1, <4>1
      <4> QED BY <1>10, <3>1, <4>2 DEF Behind
    <3>2. CASE ~Remains(n, u)
      BY <1>6, <1>10, <3>2 DEF Behind
    <3> QED BY <3>1, <3>2
  <2>2. PICK f : f = frame'
    OBVIOUS
  <2>3. /\ f \in Seq(Pieces) /\ f # <<>> /\ Len(k) \in Nat /\ Len(f) = Len(k) + 1
        /\ \A i \in 1 .. Len(k) : f[i] = k[i]
        /\ f[Len(k) + 1] = x
    <3>1. f = Append(k, x)
      BY <1>5, <1>13, <2>2
    <3> QED BY <1>6, <1>7, <3>1, Appended
  <2>4. Last(f) = x
    BY <2>3 DEF Last
  <2>5. f[1] = (IF k = <<>> THEN x ELSE frame[1])
    <3>1. CASE k = <<>>
      BY <2>3, <3>1
    <3>2. CASE k # <<>>
      <4>1. 1 \in 1 .. Len(k)
        BY <1>7, <3>2
      <4> QED BY <1>7, <2>3, <3>2, <4>1
    <3> QED BY <3>1, <3>2
  <2>6. Before(q, f[1])
    <3>1. k # <<>> => Before(q, frame[1])
      BY <1>3, <1>7 DEF FramesInv, OrderInv
    <3> QED BY <1>9, <2>5, <3>1
  <2>7. Before(upTo, frame[1])'
    BY <1>5, <2>2, <2>6 DEF Before
  <2>8. Behind(Last(frame))'
    BY <2>1, <2>2, <2>4 DEF Behind
  <2> QED BY <1>10, <1>11, <2>7, <2>8 DEF OrderInv
<1> QED BY <1>12, <1>13

\* A unit is put into the frame, which may complete it.
LEMMA UsingKeeps ==
  ASSUME RInv, FramesInv, UsePacket
  PROVE  FramesInv'
<1>1. PICK n, u : n = queue[1].no /\ u = queue[1].uses
  OBVIOUS
<1>2. Used(n, u)
  BY <1>1, UseMeans DEF RInv, Always
<1>3. /\ Head(queue) = queue[1] /\ queue[1].no \in 1 .. Len(sent)
      /\ queue[1].uses \in {0, 1} /\ seen /\ due \in Nat /\ Len(sent) \in Nat /\ queue # <<>> /\ need
      /\ 1 \in 1 .. Len(queue)
  <2>1. queue # <<>> /\ need
    BY <1>2 DEF Used
  <2>2. Head(queue) = queue[1]
    BY <2>1, LossMeans
  <2> QED BY <2>1, <2>2, LossMeans, FrameFacts
<1>4. PICK f : f = frame'
  OBVIOUS
<1>5. PICK k, x : k = Kept(n) /\ x = <<n, u + 1>>
  OBVIOUS
<1>6. n \in Nat /\ n >= 1 /\ n \in Packets /\ u \in {0, 1} /\ Kind(n) = sent[n]
  BY <1>1, <1>3 DEF Packets, Kind
<1>7. /\ sent' = sent /\ lossInFrame' = FALSE /\ need' = ~(completes' /\ f # <<>>)
      /\ f = (IF Blank(n, u) THEN k ELSE Append(k, x))
      /\ truncated' = (~Blank(n, u) /\ Len(k) >= fMaxSize)
      /\ completes' = CompletesNow(n) /\ misread' = (misread \/ (sent[n] \in Aggregates /\ ~completes))
      /\ task' = (~need' /\ queue' # <<>>)
      /\ pc' = (IF need' THEN "loop" ELSE IF task' THEN "idle" ELSE "after")
      /\ ~LossAfter(n) /\ sent[n] # "refused"
  BY <1>2, <1>4, <1>5, <1>6 DEF Used
<1>8. /\ sent[n] \in {"part", "end"} \cup Aggregates
      /\ misread \in BOOLEAN /\ completes \in BOOLEAN /\ completes' \in BOOLEAN
  <2>1. sent[n] \in Kinds
    BY <1>1, <1>3, FrameFacts
  <2>2. misread \in BOOLEAN /\ completes \in BOOLEAN
    BY DEF RInv, Always, AskInv
  <2>3. completes' \in BOOLEAN
    BY <1>7, <2>2 DEF CompletesNow
  <2> QED BY <1>7, <2>1, <2>2, <2>3 DEF Kinds
<1>9. sent[n] \in Aggregates => BeginsFrame(n)
  BY <1>6 DEF RInv, Always, NetInv
<1>10. sent[n] \notin Aggregates => u = 0 /\ ~Remains(n, u) /\ ~Blank(n, u)
  <2>1. sent[n] \notin Aggregates => u # 1
    BY <1>1, <1>3 DEF RInv, Always, FlagsInv, UsesInv
  <2>2. sent[n] \notin Aggregates => ~Remains(n, u) /\ ~Blank(n, u)
    BY <1>6 DEF Remains, Blank, Aggregates
  <2> QED BY <1>6, <2>1, <2>2
<1>11. due' = (IF Remains(n, u) THEN n ELSE n + 1)
  BY <1>1, <1>2, UseBehind
<1>12. Remains(n, u) => sent[n] \in Aggregates
  BY <1>10
<1>13. k \in Seq(Pieces) /\ x \in Pieces /\ x[1] = n
  BY <1>5, <1>6, FrameFacts DEF Kept, Pieces
<1>14. ASSUME sent[n] \notin Aggregates, ~misread PROVE UnitTo(f, n)
  <2>1. u + 1 = 1 /\ sent[n] \in {"part", "end"} /\ n = Head(queue).no /\ ~Blank(n, u)
    BY <1>1, <1>3, <1>8, <1>10, <1>14
  <2>2. f = Append(Kept(n), <<n, 1>>)
    BY <1>5, <1>7, <2>1
  <2> QED BY <1>3, <1>7, <1>14, <2>1, <2>2, PartJoins
<1>15. completes' => BeginsFrame(due)'
  <2>1. ASSUME completes' PROVE BeginsFrame(due)'
    <3>1. CASE Remains(n, u)
      BY <1>7, <1>9, <1>11, <1>12, <3>1 DEF BeginsFrame
    <3>2. CASE ~Remains(n, u)
      <4>1. sent[n] = "end" \/ (sent[n] # "part" /\ BeginsFrame(n))
        <5>1. sent[n] \notin Aggregates => sent[n] = "end"
          BY <1>6, <1>7, <2>1 DEF CompletesNow
        <5>2. sent[n] \in Aggregates => sent[n] # "part"
          BY DEF Aggregates
        <5> QED BY <1>9, <5>1, <5>2
      <4>2. BeginsFrame(n + 1)
        BY <1>6, <4>1, NextBegins
      <4>3. due' = n + 1
        BY <1>11, <3>2
      <4> QED BY <1>7, <4>2, <4>3 DEF BeginsFrame
    <3> QED BY <3>1, <3>2
  <2> QED BY <2>1
<1>16. Blank(n, u) => BeginsFrame(due)' /\ need'
  <2>1. Blank(n, u) => Remains(n, u) /\ need'
    BY <1>2, BlankWaits
  <2> QED BY <1>7, <1>9, <1>11, <1>12, <2>1 DEF BeginsFrame
<1>17. ~Blank(n, u) => f \in Seq(Pieces) /\ f # <<>> /\ Len(k) \in Nat /\ Len(f) = Len(k) + 1
  BY <1>7, <1>13, Appended
<1>18. ASSUME ~completes', ~misread' PROVE Partial(frame, due)'
  <2>1. sent[n] \notin Aggregates /\ ~misread /\ sent[n] = "part"
    <3>1. sent[n] \notin Aggregates
      BY <1>6, <1>7, <1>8, <1>18 DEF CompletesNow
    <3>2. sent[n] # "end"
      BY <1>6, <1>7, <1>18, <3>1 DEF CompletesNow
    <3> QED BY <1>7, <1>8, <1>18, <3>1, <3>2
  <2>2. due' = n + 1 /\ UnitTo(f, n)
    BY <1>10, <1>11, <1>14, <2>1
  <2>3. PICK a : a = f[1][1]
    OBVIOUS
  <2>4. /\ f # <<>> /\ a \in 1 .. n /\ BeginsFrame(a) /\ PiecesOf(f, a, n)
        /\ \A m \in a .. n - 1 : sent[m] \in {"part", "refused"}
    BY <2>2, <2>3 DEF UnitTo
  <2>5. a < n + 1 /\ (n + 1) - 1 = n
    BY <1>6, <2>4
  <2>6. \A m \in a .. n : sent[m] \in {"part", "refused"}
    BY <1>6, <2>1, <2>4
  <2>7. Partial(f, n + 1)
    BY <2>3, <2>4, <2>5, <2>6 DEF Partial
  <2>8. PICK d : d = n + 1
    OBVIOUS
  <2>9. frame' = f /\ due' = d /\ sent' = sent /\ Partial(f, d)
    BY <1>4, <1>7, <2>2, <2>7, <2>8
  <2> QED BY <2>9, PartialSame
<1>19. GapInv'
  <2>1. ~need' => BeginsFrame(due)'
    BY <1>7, <1>15
  <2>2. f = <<>> => BeginsFrame(due)'
    BY <1>16, <1>17
  <2>3. need' /\ ~misread' /\ f # <<>> => Partial(frame, due)'
    BY <1>7, <1>18
  <2>4. frame' = f
    BY <1>4
  <2> QED BY <2>1, <2>2, <2>3, <2>4 DEF GapInv
<1>20. ASSUME completes', ~misread', ~Blank(n, u) PROVE Whole(f)
  <2>1. CASE sent[n] \in Aggregates
    <3>1. completes /\ ~misread
      BY <1>7, <1>8, <1>20, <2>1
    <3>2. k = <<>>
      BY <1>3, <1>5, <1>6, <1>7, <2>1, <3>1, UnitAlone
    <3>3. f = Append(<<>>, x)
      BY <1>7, <1>20, <3>2
    <3>4. Len(f) = 1 /\ f[1] = x
      BY <1>13, <3>3, FirstPiece
    <3>5. f[1][1] = n /\ Last(f)[1] = n
      BY <1>13, <3>4 DEF Last
    <3> QED BY <1>6, <2>1, <3>4, <3>5 DEF Whole
  <2>2. CASE sent[n] \notin Aggregates
    <3>1. sent[n] = "end" /\ ~misread
      BY <1>6, <1>7, <1>8, <1>20, <2>2 DEF CompletesNow
    <3>2. UnitTo(f, n)
      BY <1>14, <2>2, <3>1
    <3>3. f[1][1] \in Packets
      BY <1>3, <1>6, <3>2 DEF UnitTo, Packets
    <3> QED BY <1>6, <3>1, <3>2, <3>3 DEF UnitTo, Whole
  <2> QED BY <2>1, <2>2
<1>21. WholeInv'
  <2>1. pc' = "after" \/ task' => completes' /\ ~Blank(n, u)
    <3>1. pc' = "after" \/ task' => ~need'
      BY <1>7
    <3> QED BY <1>7, <1>8, <1>16, <3>1
  <2>2. Whole(f) => Whole(frame)'
    <3>1. frame' = f /\ sent' = sent
      BY <1>4, <1>7
    <3> QED BY <3>1, WholeSame
  <2>3. ~Blank(n, u) => (truncated' <=> Len(f) > fMaxSize)
    <3>1. fMaxSize \in Nat
      BY ReceptionAssumption
    <3>2. ASSUME ~Blank(n, u) PROVE Len(k) >= fMaxSize <=> Len(f) > fMaxSize
      BY <1>17, <3>1, <3>2
    <3>3. ASSUME ~Blank(n, u) PROVE truncated' <=> Len(k) >= fMaxSize
      <4>1. truncated' = (~Blank(n, u) /\ Len(k) >= fMaxSize)
        BY <1>7
      <4> QED BY <3>3, <4>1
    <3> QED BY <3>2, <3>3
  <2>4. frame' = f
    BY <1>4
  <2> QED BY <1>20, <2>1, <2>2, <2>3, <2>4 DEF WholeInv
<1>22. OrderInv'
  BY <1>1, <1>2, UseOrder
<1> QED BY <1>19, <1>21, <1>22 DEF FramesInv

\* The invariant of the frames is inductive while no other SSRC is mixed in.
LEMMA FramesStep ==
  ASSUME RInv, FramesInv, ~mixed, [Next]_vars, ~mixed'
  PROVE  FramesInv'
<1>1. CASE \E kind \in Kinds : Send(kind)
  BY <1>1, SendingKeeps
<1>2. CASE Receive
  <2>1. \E n \in Packets : InReach(n) /\ Len(sent) - n < Reach /\ ReceivePacket(n)
    BY <1>2, FreshPacket
  <2> QED BY <2>1, ArrivalKeeps
<1>3. CASE RefusePacket \/ RejectPacket \/ UsePacket \/ Tick
  BY <1>3, RefusalKeeps, RejectionKeeps, UsingKeeps, TimeKeeps
<1>4. CASE GetNextFrame \/ AfterGetting \/ StopGettingFrames
  BY <1>4, NewFrameKeeps, DeliveryKeeps, ResetKeeps
<1>5. CASE EndOfLoop \/ ReceiveOther \/ ClientReturns
  <2>1. UNCHANGED <<netVars, bufferVars, frameVars, askVars>> /\ pc' # "after"
    BY <1>5 DEF EndOfLoop, ReceiveOther, ClientReturns
  <2> QED BY <2>1, FramesSame
<1>6. CASE UNCHANGED vars
  <2>1. UNCHANGED <<netVars, bufferVars, frameVars, askVars>> /\ pc' = pc
    BY <1>6 DEF vars
  <2> QED BY <2>1, FramesSame
<1> QED BY <1>1, <1>2, <1>3, <1>4, <1>5, <1>6 DEF Next, Network, Loop, Reader

\* What holds of the sender's packets while no other SSRC is mixed in.
Unmixed == ~mixed => BufferInv /\ FramesInv

LEMMA UnmixedStep ==
  ASSUME Always, Unmixed, [Next]_vars
  PROVE  Unmixed'
<1> SUFFICES ASSUME ~mixed' PROVE BufferInv' /\ FramesInv'
  BY DEF Unmixed
<1>1. BufferInv'
  BY OrderStep DEF Unmixed
<1>2. CASE ~mixed
  BY <1>1, <1>2, FramesStep DEF Unmixed, RInv
<1>3. CASE mixed
  <2>1. StopGettingFrames \/ Receive
    <3>1. mixed' # mixed
      BY <1>3
    <3> QED BY <3>1, Unmixing
  <2>2. CASE StopGettingFrames
    BY <1>1, <2>2, ResetKeeps
  <2>3. CASE Receive
    <3>1. \E n \in Packets : InReach(n) /\ Len(sent) - n < Reach /\ ReceivePacket(n)
      BY <2>3, FreshPacket
    <3> QED BY <1>1, <1>3, <3>1, FramesAfresh
  <2> QED BY <2>1, <2>2, <2>3
<1> QED BY <1>1, <1>2, <1>3

LEMMA FramesInit == Init => FramesInv
<1> SUFFICES ASSUME Init PROVE FramesInv
  OBVIOUS
<1>1. queue = <<>> /\ frame = <<>> /\ seen = FALSE
  BY DEF Init
<1> QED BY <1>1 DEF Init, FramesInv, GapInv, OrderInv, WholeInv

\* Whatever the network loses, repeats and reorders, a frame that is delivered lies
\* behind every frame delivered before and has all the pieces of one unit, and the
\* reader is told just when some of them did not fit its buffer; with the exceptions
\* that mixed and misread record.
THEOREM FramesHold == Spec => []FramesAreWhole
<1>1. Always /\ Unmixed => FramesAreWhole
  <2> SUFFICES ASSUME Always, Unmixed, pc = "after" \/ task, ~mixed
               PROVE  /\ upTo[1] < frame[1][1] \/ (upTo[1] = frame[1][1] /\ upTo[2] < frame[1][2])
                      /\ ~misread => Whole(frame)
                      /\ truncated <=> Len(frame) > fMaxSize
    BY DEF FramesAreWhole
  <2>1. frame # <<>> /\ FramesInv
    BY DEF Always, AskInv, Unmixed
  <2>2. Before(upTo, frame[1])
    BY <2>1 DEF FramesInv, OrderInv
  <2>3. WholeInv
    BY <2>1 DEF FramesInv
  <2> QED BY <2>2, <2>3 DEF Before, WholeInv
<1>2. Init => Always /\ Unmixed
  BY AlwaysInit, OrderInit, FramesInit DEF Unmixed
<1>3. (Always /\ Unmixed) /\ [Next]_vars => (Always /\ Unmixed)'
  BY AlwaysStep, UnmixedStep
<1> QED BY <1>1, <1>2, <1>3, PTL DEF Spec

-----------------------------------------------------------------------------
(* The sending half: RtpPacker.                                            *)

\* What a byte of the buffer can be.
LEMMA ByteTypes ==
  /\ Header \in Bytes /\ Nothing \in Bytes
  /\ \A b \in Bytes : b.f \in {0, 1} /\ b.i \in 0 .. fLimit /\ b.n \in 0 .. fLimit
  /\ \A f \in {0, 1} : \A i, n \in 0 .. fLimit : Frame(f, i, n) \in Bytes
  BY PacketAssumption DEF Bytes, Header, Nothing, Frame

\* What Keep keeps is unchanged, and the rest is a byte, too.
LEMMA KeepKeeps ==
  ASSUME NEW b \in [Places -> Bytes], NEW from \in Nat, NEW to \in Nat
  PROVE  /\ Keep(b, from, to) \in [Places -> Bytes]
         /\ \A p \in Places : from <= p /\ p < to => Keep(b, from, to)[p] = b[p]
  BY ByteTypes, PacketAssumption DEF Keep, Places

\* A packet is sent and kept bytes behind it become overflow data.
LEMMA PacketSent ==
  ASSUME NEW b \in [Places -> Bytes], NEW c \in Nat, NEW used \in BOOLEAN, NEW kept \in Nat,
         NEW r \in Bytes, r.i = r.n, lastRead' = r,
         fPacketStart \in Nat, fPacketStart + c + kept <= fLimit, HalfIsLeft(fPacketStart),
         HeaderSize <= c, c <= fMax, c > HeaderSize => used,
         packet \in Nat, packet <= fMax, lastSent \in Bytes,
         kept > 0 => FrameEnd(b, fPacketStart + c, kept, r),
         Unbroken(b, fPacketStart + HeaderSize, fPacketStart + c + kept, lastSent, r),
         SendPacketIfNecessary(b, c, used, kept),
         fCurFragmentationOffset' \in Nat, fPreviousFrameEndedFragmentation' \in BOOLEAN,
         restarts' \in 0 .. MaxRestarts, oneFrame' \in BOOLEAN,
         restarts' = 0 => fCurFragmentationOffset' = IF kept > 0 THEN r.n - kept ELSE 0
  PROVE  PackInv'
<1> DEFINE end == fPacketStart + c
           at  == fPacketStart' + fOverflowDataOffset'
<1>1. /\ HeaderSize \in Nat /\ HeaderSize > 0 /\ fPreferred \in Nat /\ fMax \in Nat /\ fLimit \in Nat
      /\ fMax <= fLimit /\ HeaderSize < fMax /\ 2 * HeaderSize <= fLimit
      /\ r.n \in Nat /\ r.i \in Nat /\ r.f \in {0, 1} /\ end \in Nat /\ end <= fLimit
  BY PacketAssumption, ByteTypes
<1>2. /\ sink' = "wait" /\ fCurOffset' = 0 /\ inPacket' = FALSE /\ fOverflowDataSize' = kept
      /\ fBuf' = Keep(b, end, end + kept)
  BY DEF SendPacketIfNecessary
<1>start. fPacketStart' \in Nat /\ fPacketStart' + HeaderSize <= fLimit /\ fPacketStart' <= fLimit
          /\ fPacketStart' + 0 <= fLimit
  BY <1>1 DEF SendPacketIfNecessary, WorthMoving, PacketStartBefore, totalBytesAvailable
<1>3. /\ kept > 0 => at = end /\ fOverflowDataOffset' >= HeaderSize
      /\ kept = 0 => fOverflowDataOffset' = 0
      /\ fOverflowDataOffset' \in Nat /\ fOverflowDataOffset' <= fLimit
  BY <1>1 DEF SendPacketIfNecessary, WorthMoving, PacketStartBefore, totalBytesAvailable, HalfIsLeft
<1>half. HalfIsLeft(fPacketStart')
  BY <1>1 DEF SendPacketIfNecessary, WorthMoving, PacketStartBefore, totalBytesAvailable, HalfIsLeft
<1>4. packet' \in Nat /\ packet' <= fMax
  BY <1>1 DEF SendPacketIfNecessary
<1>5. lastSent' \in Bytes /\ lastSent' = IF c > HeaderSize THEN b[end - 1] ELSE lastSent
  BY <1>1 DEF SendPacketIfNecessary, Places
<1>6. fBuf' \in [Places -> Bytes] /\ \A p \in Places : end <= p /\ p < end + kept => fBuf'[p] = b[p]
  BY <1>1, <1>2, KeepKeeps
<1>7. kept <= fLimit - HeaderSize
  BY <1>1
<1>8. PackerTypeOK'
  <2>1. fPacketStart' \in 0 .. fLimit
    BY <1>1, <1>start
  <2>3. fOverflowDataOffset' \in 0 .. fLimit
    BY <1>1, <1>3
  <2>4. fCurOffset' \in 0 .. fLimit /\ fOverflowDataSize' \in 0 .. fLimit - HeaderSize
    BY <1>1, <1>2, <1>7
  <2>5. packet' \in 0 .. fLimit
    BY <1>1, <1>4
  <2>2. sink' \in {"stopped", "asked", "wait"} /\ inPacket' \in BOOLEAN /\ lastRead' \in Bytes
    BY <1>2
  <2> QED BY <2>1, <2>2, <2>3, <2>4, <2>5, <1>5, <1>6, Zenon DEF PackerTypeOK
<1>9. PacketsFit' /\ OverflowIsSafe'
  <2>1. kept > 0 => fPacketStart' + fOverflowDataOffset' + kept <= fLimit
    BY <1>1, <1>3
  <2>2. fPacketStart' + fCurOffset' <= fLimit /\ fPacketStart' + HeaderSize <= fLimit
    BY <1>1, <1>2, <1>start
  <2>3. PacketsFit'
    BY <1>4 DEF PacketsFit
  <2>4. kept > 0 => HeaderSize <= fOverflowDataOffset'
    BY <1>1, <1>3
  <2> QED BY <1>2, <2>1, <2>2, <2>3, <2>4, Zenon DEF OverflowIsSafe
<1>10. PlaceInv'
  BY <1>1, <1>2, <1>3, <1>half DEF PlaceInv
<1>11. ASSUME kept > 0
       PROVE  FrameEnd(fBuf', end, kept, r)
  BY <1>1, <1>6, <1>11 DEF FrameEnd, Places
<1>12. TailInv'
  BY <1>2, <1>3, <1>11 DEF TailInv
<1>13. Unbroken(fBuf', at, at + kept, lastSent', r)
  <2>1. CASE kept = 0
    <3>1. lastSent' = r
      <4>1. CASE c = HeaderSize
        BY <1>1, <1>5, <2>1, <4>1 DEF Unbroken
      <4>2. CASE c > HeaderSize
        <5>1. b[end + kept - 1] = r
          BY <1>1, <2>1, <4>2 DEF Unbroken
        <5>2. end + kept - 1 = end - 1
          BY <1>1, <2>1
        <5> QED BY <1>5, <4>2, <5>1, <5>2
      <4> QED BY <1>1, <4>1, <4>2
    <3>2. at = at + kept
      BY <1>start, <1>3, <2>1
    <3> QED BY <3>1, <3>2 DEF Unbroken
  <2>2. CASE kept > 0
    <3>1. Follows(lastSent', b[end])
      <4>1. CASE c = HeaderSize
        BY <1>1, <1>5, <2>2, <4>1 DEF Unbroken
      <4>2. CASE c > HeaderSize
        <5>1. end - 1 \in fPacketStart + HeaderSize .. end + kept - 2
          BY <1>1, <2>2, <4>2
        <5>2. Follows(b[end - 1], b[(end - 1) + 1])
          BY <1>1, <2>2, <5>1 DEF Unbroken
        <5>3. (end - 1) + 1 = end
          BY <1>1
        <5> QED BY <1>5, <4>2, <5>2, <5>3
      <4> QED BY <1>1, <4>1, <4>2
    <3>2. b[end + kept - 1] = r /\ \A p \in end .. end + kept - 2 : Follows(b[p], b[p + 1])
      BY <1>1, <2>2 DEF Unbroken
    <3>3. at = end /\ at # at + kept
      BY <1>1, <1>3, <2>2
    <3>4. \A p \in end .. end + kept - 1 : fBuf'[p] = b[p]
      BY <1>1, <1>6 DEF Places
    <3>5. fBuf'[end] = b[end] /\ fBuf'[end + kept - 1] = b[end + kept - 1]
      BY <1>1, <2>2, <3>4
    <3>6. \A p \in end .. end + kept - 2 : fBuf'[p] = b[p] /\ fBuf'[p + 1] = b[p + 1]
      BY <1>1, <2>2, <3>4
    <3> QED BY <3>1, <3>2, <3>3, <3>5, <3>6 DEF Unbroken
  <2> QED BY <2>1, <2>2
<1>14. FramesUnbroken'
  BY <1>2, <1>13 DEF FramesUnbroken, Unsent
<1>15. OffsetsAreRight'
  <2>1. CASE kept = 0
    BY <1>2, <2>1 DEF OffsetsAreRight, OffsetIsThatOfTheFragment
  <2>2. CASE kept > 0
    <3>1. fBuf'[at] = Frame(r.f, r.n - (kept - 1), r.n)
      BY <1>1, <1>3, <1>11, <2>2 DEF FrameEnd
    <3>2. fBuf'[at].i = r.n - (kept - 1)
      BY <3>1 DEF Frame
    <3> QED BY <1>1, <1>2, <2>2, <3>2 DEF OffsetsAreRight, OffsetIsThatOfTheFragment
  <2> QED BY <2>1, <2>2
<1> QED BY <1>8, <1>9, <1>10, <1>12, <1>14, <1>15 DEF PackInv

\* Where the same bytes lie elsewhere, they are the same part of the stream.
LEMMA MovedUnbroken ==
  ASSUME NEW b, NEW d, NEW from \in Nat, NEW at \in Nat, NEW length \in Nat, NEW x, NEW y,
         \A k \in 0 .. length - 1 : d[at + k] = b[from + k],
         Unbroken(b, from, from + length, x, y)
  PROVE  Unbroken(d, at, at + length, x, y)
<1>1. CASE length = 0
  BY <1>1 DEF Unbroken
<1>2. CASE length > 0
  <2>1. Follows(x, b[from]) /\ b[from + length - 1] = y
    BY <1>2 DEF Unbroken
  <2>2. d[at] = b[from]
    <3>1. d[at + 0] = b[from + 0]
      BY <1>2
    <3> QED BY <3>1
  <2>3. d[at + length - 1] = b[from + length - 1]
    <3>1. d[at + (length - 1)] = b[from + (length - 1)]
      BY <1>2
    <3>2. at + (length - 1) = at + length - 1 /\ from + (length - 1) = from + length - 1
      BY <1>2
    <3> QED BY <3>1, <3>2
  <2>4. ASSUME NEW p \in at .. at + length - 2
        PROVE  Follows(d[p], d[p + 1])
    <3> DEFINE k == p - at
               q == from + k
    <3>1. k \in 0 .. length - 1 /\ k + 1 \in 0 .. length - 1 /\ p = at + k /\ p + 1 = at + (k + 1)
      BY <1>2
    <3>2. q \in from .. from + length - 2 /\ q + 1 = from + (k + 1)
      BY <1>2
    <3>3. Follows(b[q], b[q + 1])
      BY <1>2, <3>2 DEF Unbroken
    <3>4. d[at + k] = b[from + k] /\ d[at + (k + 1)] = b[from + (k + 1)]
      BY <3>1
    <3> QED BY <3>1, <3>2, <3>3, <3>4, Zenon
  <2>5. at # at + length
    BY <1>2
  <2> QED BY <2>1, <2>2, <2>3, <2>4, <2>5 DEF Unbroken
<1> QED BY <1>1, <1>2

\* The end of a frame is its end elsewhere, too, and so is the end of that.
LEMMA MovedTail ==
  ASSUME NEW b, NEW d, NEW from \in Nat, NEW at \in Nat, NEW length \in Nat, NEW r \in Bytes,
         \A k \in 0 .. length - 1 : d[at + k] = b[from + k],
         FrameEnd(b, from, length, r)
  PROVE  FrameEnd(d, at, length, r)
<1>1. SUFFICES ASSUME NEW p \in at .. at + length - 1
               PROVE  d[p] = Frame(r.f, r.n - (at + length - 1 - p), r.n)
  BY DEF FrameEnd
<1> DEFINE k == p - at
           q == from + k
<1>2. k \in 0 .. length - 1 /\ p = at + k /\ q \in from .. from + length - 1
      /\ from + length - 1 - q = at + length - 1 - p
  OBVIOUS
<1>3. d[p] = b[q]
  BY <1>2
<1>4. b[q] = Frame(r.f, r.n - (from + length - 1 - q), r.n)
  BY <1>2 DEF FrameEnd
<1> QED BY <1>2, <1>3, <1>4

LEMMA ShorterTail ==
  ASSUME NEW b, NEW from \in Nat, NEW length \in Nat, NEW kept \in Nat, kept <= length,
         NEW r \in Bytes, FrameEnd(b, from, length, r)
  PROVE  FrameEnd(b, from + (length - kept), kept, r)
<1>1. length <= r.n /\ r.n \in Nat
  BY PacketAssumption, ByteTypes DEF FrameEnd
<1>2. ASSUME NEW p \in from + (length - kept) .. from + (length - kept) + kept - 1
      PROVE  b[p] = Frame(r.f, r.n - (from + (length - kept) + kept - 1 - p), r.n)
  <2>1. p \in from .. from + length - 1
    OBVIOUS
  <2>2. from + (length - kept) + kept - 1 - p = from + length - 1 - p
    OBVIOUS
  <2> QED BY <2>1, <2>2 DEF FrameEnd
<1> QED BY <1>1, <1>2 DEF FrameEnd

\* A frame that lies behind the packet is sent, kept, cut or waits for more.
LEMMA FrameHandled ==
  ASSUME NEW b \in [Places -> Bytes], NEW c \in Nat, NEW used \in BOOLEAN, NEW size \in Nat,
         NEW r \in Bytes, r.i = r.n, lastRead' = r,
         fPacketStart \in Nat, fPacketStart + c + size <= fLimit, HalfIsLeft(fPacketStart),
         HeaderSize <= c, c < fPreferred, c > HeaderSize => used,
         packet \in Nat, packet <= fMax, lastSent \in Bytes, fCurFragmentationOffset \in Nat,
         size > 0 => FrameEnd(b, fPacketStart + c, size, r),
         Unbroken(b, fPacketStart + HeaderSize, fPacketStart + c + size, lastSent, r),
         AfterGettingFrame(b, c, used, size),
         restarts' \in 0 .. MaxRestarts, oneFrame' \in BOOLEAN, oneFrame \in BOOLEAN,
         fPreviousFrameEndedFragmentation \in BOOLEAN,
         restarts' = 0 => fCurFragmentationOffset = IF size > 0 THEN r.n - size ELSE 0
  PROVE  PackInv'
<1> DEFINE barred == used /\ (fPreviousFrameEndedFragmentation \/ oneFrame)
           over   == ~barred /\ size > 0 /\ wouldOverflow(c, size)
           cut    == over /\ ~used /\ isTooBigForAPacket(size)
           kept   == IF cut THEN numOverflowBytes(c, size) ELSE IF barred \/ over THEN size ELSE 0
           use    == size - kept
           ends   == ~barred /\ size > 0 /\ ~over /\ fCurFragmentationOffset > 0
           full   == \/ c + use >= fPreferred \/ wouldOverflow(c + use, use)
                     \/ ends \/ oneFrame
<1>1. /\ HeaderSize \in Nat /\ HeaderSize > 0 /\ fPreferred \in Nat /\ fMax \in Nat /\ fLimit \in Nat
      /\ fPreferred <= fMax /\ fMax <= fLimit /\ HeaderSize < fMax /\ 2 * HeaderSize <= fLimit
      /\ r.n \in Nat /\ r.i \in Nat /\ r.f \in {0, 1}
  BY PacketAssumption, ByteTypes
<1>2. /\ cut \in BOOLEAN /\ ends \in BOOLEAN
      /\ cut => size > 0 /\ kept = (c + size) - fMax /\ c + size > fMax
      /\ ~cut => kept = size \/ kept = 0
      /\ ~cut /\ kept = 0 /\ size > 0 => c + size <= fMax
      /\ kept \in Nat /\ kept <= size /\ use \in Nat
      /\ kept = 0 /\ size > 0 => ends = (fCurFragmentationOffset > 0)
      /\ ends => size > 0 /\ kept = 0
  BY <1>1 DEF wouldOverflow, numOverflowBytes
<1>3. /\ fCurFragmentationOffset' = FragmentationOffset(cut, use, ends)
      /\ fPreviousFrameEndedFragmentation' = ends
      /\ IF use = 0 /\ size > 0 THEN SendPacketIfNecessary(b, c, used, kept)
         ELSE IF full THEN SendPacketIfNecessary(b, c + use, TRUE, kept)
         ELSE /\ sink' = "asked" /\ fCurOffset' = c + use /\ inPacket' = TRUE
              /\ fBuf' = Keep(b, fPacketStart + HeaderSize, fPacketStart + c + use)
              /\ fOverflowDataOffset' = 0 /\ fOverflowDataSize' = 0
              /\ UNCHANGED <<fPacketStart, packet, lastSent>>
  BY Zenon DEF AfterGettingFrame
<1>4. full \/ c + use < fPreferred
  BY <1>1, <1>2
<1> HIDE DEF barred, over, full
<1> HIDE DEF cut, kept, ends
<1>5. /\ use = size - kept /\ use + kept = size
  BY <1>2
<1> HIDE DEF use
<1>6. /\ fCurFragmentationOffset' \in Nat /\ fPreviousFrameEndedFragmentation' \in BOOLEAN
      /\ restarts' = 0 => fCurFragmentationOffset' = IF kept > 0 THEN r.n - kept ELSE 0
  <2>1. fCurFragmentationOffset' \in Nat /\ fPreviousFrameEndedFragmentation' \in BOOLEAN
    BY <1>1, <1>2, <1>3 DEF FragmentationOffset
  <2>2. ASSUME restarts' = 0
        PROVE  fCurFragmentationOffset' = IF kept > 0 THEN r.n - kept ELSE 0
    <3>0. fCurFragmentationOffset = IF size > 0 THEN r.n - size ELSE 0
      BY <2>2
    <3>1. CASE cut
      BY <1>1, <1>2, <1>3, <1>5, <3>0, <3>1 DEF FragmentationOffset
    <3>2. CASE ~cut
      BY <1>1, <1>2, <1>3, <1>5, <3>0, <3>2 DEF FragmentationOffset
    <3> QED BY <3>1, <3>2
  <2> QED BY <2>1, <2>2
<1>7. c + use <= fMax
  BY <1>1, <1>2, <1>5
<1>8. CASE use = 0 /\ size > 0
  <2>1. SendPacketIfNecessary(b, c, used, kept)
    BY <1>3, <1>8
  <2>2. kept = size
    BY <1>2, <1>5, <1>8
  <2> QED BY <1>1, <1>2, <1>6, <2>1, <2>2, PacketSent
<1>9. CASE ~(use = 0 /\ size > 0) /\ full
  <2>1. SendPacketIfNecessary(b, c + use, TRUE, kept)
    BY <1>3, <1>9
  <2>2. kept > 0 => FrameEnd(b, fPacketStart + (c + use), kept, r)
    <3>1. SUFFICES ASSUME kept > 0 PROVE FrameEnd(b, fPacketStart + (c + use), kept, r)
      OBVIOUS
    <3>2. FrameEnd(b, (fPacketStart + c) + (size - kept), kept, r)
      <4>1. FrameEnd(b, fPacketStart + c, size, r) /\ fPacketStart + c \in Nat
        BY <1>2, <3>1
      <4> QED BY <1>2, <4>1, ShorterTail
    <3>3. (fPacketStart + c) + (size - kept) = fPacketStart + (c + use)
      BY <1>2, <1>5
    <3> QED BY <3>2, <3>3
  <2>3. /\ fPacketStart + (c + use) + kept = fPacketStart + c + size
        /\ c + use \in Nat /\ HeaderSize <= c + use
    BY <1>1, <1>2, <1>5
  <2> QED BY <1>2, <1>6, <1>7, <2>1, <2>2, <2>3, PacketSent
<1>10. CASE ~(use = 0 /\ size > 0) /\ ~full
  <2>1. /\ sink' = "asked" /\ fCurOffset' = c + use /\ inPacket' = TRUE
        /\ fBuf' = Keep(b, fPacketStart + HeaderSize, fPacketStart + c + use)
        /\ fOverflowDataOffset' = 0 /\ fOverflowDataSize' = 0
        /\ fPacketStart' = fPacketStart /\ packet' = packet /\ lastSent' = lastSent
    BY <1>3, <1>10
  <2>2. kept = 0 /\ use = size
    BY <1>1, <1>2, <1>4, <1>5, <1>10
  <2> DEFINE from == fPacketStart + HeaderSize
             length == c - HeaderSize + size
  <2>3. /\ from \in Nat /\ length \in Nat /\ from + length = fPacketStart + c + size
        /\ from + length <= fLimit /\ fPacketStart + c + use = from + length
    BY <1>1, <2>2
  <2>4. fBuf' \in [Places -> Bytes] /\ \A k \in 0 .. length - 1 : fBuf'[from + k] = b[from + k]
    <3>1. fBuf' = Keep(b, from, from + length)
      BY <2>1, <2>3
    <3>2. \A k \in 0 .. length - 1 : from + k \in Places /\ from <= from + k /\ from + k < from + length
      BY <1>1, <2>3 DEF Places
    <3>3. from + length \in Nat
      BY <2>3
    <3> HIDE DEF from, length
    <3>4. /\ Keep(b, from, from + length) \in [Places -> Bytes]
          /\ \A p \in Places : from <= p /\ p < from + length => Keep(b, from, from + length)[p] = b[p]
      BY <2>3, <3>3, KeepKeeps
    <3> QED BY <3>1, <3>2, <3>4
  <2>5. Unbroken(fBuf', from, from + length, lastSent, r)
    BY <2>3, <2>4, MovedUnbroken
  <2>6. /\ fCurOffset' \in Nat /\ HeaderSize <= fCurOffset' /\ fCurOffset' < fPreferred
        /\ fPacketStart + fCurOffset' = from + length
    BY <1>1, <1>2, <1>4, <1>5, <1>10, <2>1, <2>3
  <2>7. /\ fPacketStart \in 0 .. fLimit /\ fCurOffset' \in 0 .. fLimit /\ packet \in 0 .. fLimit
        /\ 0 \in 0 .. fLimit /\ 0 \in 0 .. fLimit - HeaderSize
        /\ fPacketStart + fCurOffset' <= fLimit /\ fPacketStart + HeaderSize <= fLimit
    <3>1. fPacketStart + fCurOffset' <= fLimit
      BY <2>3, <2>6
    <3>2. fPacketStart <= fLimit /\ fCurOffset' <= fLimit /\ fPacketStart + HeaderSize <= fLimit
      BY <1>1, <2>6, <3>1
    <3>3. packet <= fLimit /\ HeaderSize <= fLimit
      BY <1>1
    <3>4. fPacketStart \in 0 .. fLimit
      BY <1>1, <3>2
    <3>5. fCurOffset' \in 0 .. fLimit
      BY <1>1, <2>6, <3>2
    <3>6. packet \in 0 .. fLimit /\ 0 \in 0 .. fLimit /\ 0 \in 0 .. fLimit - HeaderSize
      BY <1>1, <3>3
    <3> QED BY <3>1, <3>2, <3>4, <3>5, <3>6, Zenon
  <2>8. PackerTypeOK'
    BY <1>6, <2>1, <2>4, <2>7 DEF PackerTypeOK
  <2>9. PacketsFit' /\ OverflowIsSafe'
    BY <2>1, <2>7 DEF PacketsFit, OverflowIsSafe
  <2>10. PlaceInv' /\ TailInv'
    BY <2>1, <2>6 DEF PlaceInv, TailInv, HalfIsLeft
  <2>11. FramesUnbroken'
    <3>1. Unsent' = [from |-> from, to |-> from + length]
      BY <2>1, <2>6 DEF Unsent
    <3> QED BY <2>1, <2>5, <3>1 DEF FramesUnbroken
  <2>12. OffsetsAreRight'
    BY <1>6, <2>1, <2>2 DEF OffsetsAreRight, OffsetIsThatOfTheFragment
  <2> QED BY <2>8, <2>9, <2>10, <2>11, <2>12 DEF PackInv
<1> QED BY <1>8, <1>9, <1>10

\* A packet is started with the overflow data, which is moved behind the header.
LEMMA PacketBuilt ==
  ASSUME PackInv, sink # "asked", BuildPacket, oneFrame' = oneFrame, lastRead' = lastRead,
         restarts' \in 0 .. MaxRestarts,
         restarts' = 0 => restarts = 0 /\ (sink = "stopped" => lastRead = Nothing)
  PROVE  PackInv'
<1> DEFINE at   == fPacketStart + HeaderSize
           from == fPacketStart + fOverflowDataOffset
           size == fOverflowDataSize
           h    == WithHeader(fBuf, fPacketStart)
           b    == Moved(h, from, at, size)
<1>1. PackerTypeOK /\ PacketsFit /\ OverflowIsSafe /\ PlaceInv /\ TailInv /\ FramesUnbroken /\ OffsetsAreRight
  BY DEF PackInv
<1>2. /\ HeaderSize \in Nat /\ HeaderSize > 0 /\ fPreferred \in Nat /\ fMax \in Nat /\ fLimit \in Nat
      /\ HeaderSize < fPreferred /\ fPreferred <= fMax /\ fMax <= fLimit /\ 2 * HeaderSize <= fLimit
  BY PacketAssumption
<1>3. /\ fPacketStart \in Nat /\ fOverflowDataOffset \in Nat /\ size \in Nat /\ packet \in Nat
      /\ packet <= fMax /\ lastSent \in Bytes /\ lastRead \in Bytes /\ lastRead.i = lastRead.n
      /\ fCurFragmentationOffset \in Nat /\ at \in Nat /\ at <= fLimit
      /\ fPreviousFrameEndedFragmentation \in BOOLEAN /\ oneFrame \in BOOLEAN
      /\ fBuf \in [Places -> Bytes] /\ sink \in {"stopped", "wait"} /\ HalfIsLeft(fPacketStart)
  BY <1>1, <1>2 DEF PackerTypeOK, PacketsFit, PlaceInv, OverflowIsSafe
<1>4. h \in [Places -> Bytes] /\ \A p \in Places : p >= at => h[p] = fBuf[p]
  BY <1>2, <1>3, ByteTypes DEF WithHeader, Places
<1>5. Unbroken(fBuf, from, from + size, lastSent, lastRead)
  <2>1. Unsent = [from |-> from, to |-> from + size]
    BY <1>3 DEF Unsent
  <2> QED BY <1>1, <2>1 DEF FramesUnbroken
<1>6. CASE size > 0
  <2>1. /\ sink = "wait" /\ HeaderSize <= fOverflowDataOffset /\ from + size <= fLimit
        /\ FrameEnd(fBuf, from, size, lastRead)
    BY <1>1, <1>6 DEF OverflowIsSafe, TailInv
  <2>2. from \in Nat /\ at <= from /\ at + size <= fLimit
    BY <1>2, <1>3, <2>1
  <2>3. ASSUME NEW k \in 0 .. size - 1
        PROVE  at + k \in Places /\ from + k \in Places /\ b[at + k] = fBuf[from + k]
    <3>1. at + k \in Places /\ from + k \in Places /\ from + k >= at
      <4>1. at + k \in Nat /\ from + k \in Nat /\ from + k >= at
        BY <1>3, <2>2
      <4>2. at + k < fLimit /\ from + k < fLimit
        BY <1>2, <1>3, <2>1, <2>2
      <4> HIDE DEF at, from, size
      <4> QED BY <1>2, <4>1, <4>2 DEF Places
    <3>2. at + k \in at .. at + size - 1 /\ from + ((at + k) - at) = from + k
      BY <1>2, <1>3, <2>2
    <3> HIDE DEF at, from, h, size
    <3>3. b[at + k] = h[from + k]
      BY <3>1, <3>2 DEF Moved
    <3> QED BY <1>4, <3>1, <3>3
  <2>4. b \in [Places -> Bytes]
    <3>1. \A p \in Places : p \in at .. at + size - 1 => from + (p - at) \in Places
      BY <1>2, <1>3, <2>1, <2>2 DEF Places
    <3> HIDE DEF at, from, h, size
    <3> QED BY <1>4, <3>1 DEF Moved
  <2>5. AfterGettingFrame(b, HeaderSize, FALSE, size)
    BY <1>6 DEF BuildPacket
  <2>6. FrameEnd(b, at, size, lastRead)
    <3> HIDE DEF at, from, b, size
    <3> QED BY <1>3, <2>1, <2>2, <2>3, MovedTail
  <2>7. Unbroken(b, at, at + size, lastSent, lastRead)
    <3> HIDE DEF at, from, b, size
    <3> QED BY <1>3, <1>5, <2>2, <2>3, MovedUnbroken
  <2>8. ASSUME restarts' = 0
        PROVE  fCurFragmentationOffset = IF size > 0 THEN lastRead.n - size ELSE 0
    <3>1. fBuf[from] = Frame(lastRead.f, lastRead.n - (from + size - 1 - from), lastRead.n)
      BY <1>3, <1>6, <2>1, <2>2 DEF FrameEnd
    <3>2. fBuf[from].i = lastRead.n - (size - 1)
      BY <1>3, <1>6, <2>2, <3>1 DEF Frame
    <3>3. fCurFragmentationOffset = fBuf[from].i - 1
      BY <1>1, <1>6, <2>1, <2>8 DEF OffsetsAreRight, OffsetIsThatOfTheFragment
    <3>4. lastRead.n \in Nat
      BY <1>2, <1>3, ByteTypes
    <3> QED BY <1>3, <1>6, <3>2, <3>3, <3>4
  <2>9. /\ at + size = fPacketStart + HeaderSize + size
        /\ fPacketStart + HeaderSize + size <= fLimit /\ HeaderSize <= HeaderSize
        /\ ~(HeaderSize > HeaderSize) /\ FALSE \in BOOLEAN
    BY <1>2, <2>2
  <2> HIDE DEF b, size
  <2> QED BY <1>2, <1>3, <2>2, <2>4, <2>5, <2>6, <2>7, <2>8, <2>9, FrameHandled
<1>7. CASE size = 0
  <2>1. /\ sink' = "asked" /\ fCurOffset' = HeaderSize /\ inPacket' = FALSE
        /\ fBuf' = Keep(h, 0, 0) /\ fPacketStart' = fPacketStart
        /\ fOverflowDataOffset' = fOverflowDataOffset /\ fOverflowDataSize' = 0
        /\ fCurFragmentationOffset' = fCurFragmentationOffset /\ packet' = packet /\ lastSent' = lastSent
        /\ fPreviousFrameEndedFragmentation' = fPreviousFrameEndedFragmentation
    BY <1>7 DEF BuildPacket, overflowVars, fragVars
  <2>2. fOverflowDataOffset = 0 /\ fOverflowDataSize = 0 /\ fCurOffset = 0
    BY <1>1, <1>3, <1>7 DEF PlaceInv
  <2>3. lastSent = lastRead
    BY <1>3, <1>5, <1>7 DEF Unbroken
  <2>4. fBuf' \in [Places -> Bytes]
    BY <1>4, <2>1, KeepKeeps
  <2>5. restarts' = 0 => fCurFragmentationOffset = 0
    BY <1>1, <1>3, <2>2 DEF OffsetsAreRight, OffsetIsThatOfTheFragment, TailInv
  <2>6. /\ HeaderSize \in 0 .. fLimit /\ 0 \in 0 .. fLimit /\ 0 \in 0 .. fLimit - HeaderSize
        /\ fPacketStart + HeaderSize <= fLimit
    BY <1>2, <1>3
  <2>7. PackerTypeOK'
    BY <1>1, <1>3, <2>1, <2>2, <2>4, <2>6 DEF PackerTypeOK
  <2>8. PacketsFit' /\ OverflowIsSafe'
    BY <1>3, <2>1, <2>6 DEF PacketsFit, OverflowIsSafe
  <2>9. PlaceInv' /\ TailInv'
    BY <1>2, <1>3, <2>1, <2>2 DEF PlaceInv, TailInv, HalfIsLeft
  <2>10. FramesUnbroken'
    BY <2>1, <2>3 DEF FramesUnbroken, Unsent, Unbroken
  <2>11. OffsetsAreRight'
    BY <2>1, <2>5 DEF OffsetsAreRight, OffsetIsThatOfTheFragment
  <2> QED BY <2>7, <2>8, <2>9, <2>10, <2>11 DEF PackInv
<1> QED BY <1>3, <1>6, <1>7

\* The source's frame lies behind the packet and continues the stream.
LEMMA FrameArrives ==
  ASSUME PackInv, NEW n \in 0 .. fLimit, SourceDelivers(n)
  PROVE  PackInv'
<1> DEFINE at   == fPacketStart + fCurOffset
           from == fPacketStart + HeaderSize
           r    == IF n > 0 THEN Frame(1 - lastRead.f, n, n) ELSE lastRead
           b    == [p \in Places |-> IF p \in at .. at + n - 1
                                      THEN Frame(1 - lastRead.f, p - at + 1, n) ELSE fBuf[p]]
<1>1. PackerTypeOK /\ PacketsFit /\ OverflowIsSafe /\ PlaceInv /\ FramesUnbroken /\ OffsetsAreRight
  BY DEF PackInv
<1>2. /\ HeaderSize \in Nat /\ HeaderSize > 0 /\ fPreferred \in Nat /\ fMax \in Nat /\ fLimit \in Nat
      /\ fPreferred <= fMax /\ fMax <= fLimit
  BY PacketAssumption
<1>3. /\ sink = "asked" /\ n <= fLimit - (fPacketStart + fCurOffset)
      /\ AfterGettingFrame(b, fCurOffset, inPacket, n)
      /\ lastRead' = r /\ oneFrame' = oneFrame /\ restarts' = restarts
  BY DEF SourceDelivers, totalBytesAvailable
<1>4. /\ fPacketStart \in Nat /\ fCurOffset \in Nat /\ HeaderSize <= fCurOffset /\ fCurOffset < fPreferred
      /\ fCurOffset > HeaderSize => inPacket
      /\ inPacket \in BOOLEAN /\ n \in Nat /\ packet \in Nat /\ packet <= fMax /\ lastSent \in Bytes
      /\ lastRead \in Bytes /\ lastRead.i = lastRead.n /\ fCurFragmentationOffset \in Nat
      /\ fBuf \in [Places -> Bytes] /\ HalfIsLeft(fPacketStart)
      /\ restarts \in 0 .. MaxRestarts /\ oneFrame \in BOOLEAN
      /\ fPreviousFrameEndedFragmentation \in BOOLEAN /\ fOverflowDataSize = 0
  BY <1>1, <1>2, <1>3 DEF PackerTypeOK, PacketsFit, PlaceInv
<1>5. at \in Nat /\ from \in Nat /\ from <= at /\ at + n <= fLimit
  BY <1>2, <1>3, <1>4
<1>6. /\ r \in Bytes /\ r.i = r.n /\ 1 - lastRead.f \in {0, 1}
      /\ n > 0 => r.f = 1 - lastRead.f /\ r.n = n
  <2>1. 1 - lastRead.f \in {0, 1}
    <3>1. lastRead.f = 0 \/ lastRead.f = 1
      BY <1>4, ByteTypes
    <3> QED BY <3>1
  <2>2. n > 0 => Frame(1 - lastRead.f, n, n) \in Bytes
    BY <2>1, ByteTypes
  <2> QED BY <1>4, <2>1, <2>2 DEF Frame
<1>7. \A k \in 0 .. n - 1 : at + k \in Places /\ b[at + k] = Frame(1 - lastRead.f, k + 1, n)
  <2>1. ASSUME NEW k \in 0 .. n - 1
        PROVE  at + k \in Places /\ at + k \in at .. at + n - 1 /\ (at + k) - at + 1 = k + 1
    <3> HIDE DEF at
    <3> QED BY <1>2, <1>4, <1>5 DEF Places
  <2> HIDE DEF at
  <2> QED BY <2>1
<1>8. \A p \in Places : p < at => b[p] = fBuf[p]
  BY <1>2, <1>5 DEF Places
<1>9. b \in [Places -> Bytes]
  <2>1. \A p \in at .. at + n - 1 : Frame(1 - lastRead.f, p - at + 1, n) \in Bytes
    <3>1. \A p \in at .. at + n - 1 : p - at + 1 \in 0 .. fLimit /\ n \in 0 .. fLimit
      BY <1>2, <1>4, <1>5
    <3> QED BY <1>6, <3>1, ByteTypes
  <2> HIDE DEF at
  <2> QED BY <1>4, <2>1
<1>10. n > 0 => FrameEnd(b, at, n, r)
  <2>1. ASSUME n > 0, NEW p \in at .. at + n - 1
        PROVE  b[p] = Frame(r.f, r.n - (at + n - 1 - p), r.n)
    <3>1. p - at \in 0 .. n - 1 /\ at + (p - at) = p /\ r.n - (at + n - 1 - p) = (p - at) + 1
      BY <1>4, <1>5, <1>6, <2>1
    <3> QED BY <1>6, <1>7, <2>1, <3>1
  <2> QED BY <1>4, <1>6, <2>1 DEF FrameEnd
<1>11. Unbroken(fBuf, from, at, lastSent, lastRead)
  <2>1. Unsent = [from |-> from, to |-> at]
    BY <1>3 DEF Unsent
  <2> QED BY <1>1, <2>1 DEF FramesUnbroken
<1>12. \A p \in from .. at - 1 : b[p] = fBuf[p]
  BY <1>2, <1>5, <1>8 DEF Places
<1>13. Unbroken(b, from, at + n, lastSent, r)
  <2>1. CASE n = 0
    <3>1. \A k \in 0 .. (at - from) - 1 : b[from + k] = fBuf[from + k]
      BY <1>5, <1>12
    <3>2. at - from \in Nat /\ from + (at - from) = at + n /\ at = at + n
      BY <1>5, <2>1
    <3> HIDE DEF at, from, b
    <3>3. Unbroken(fBuf, from, from + (at - from), lastSent, lastRead)
      BY <1>11, <3>2
    <3>4. Unbroken(b, from, from + (at - from), lastSent, lastRead)
      BY <1>5, <3>1, <3>2, <3>3, MovedUnbroken
    <3> QED BY <2>1, <3>2, <3>4
  <2>2. CASE n > 0
    <3>1. b[at] = Frame(1 - lastRead.f, 1, n) /\ b[at + n - 1] = r
      <4>1. b[at + 0] = Frame(1 - lastRead.f, 0 + 1, n) /\ b[at + (n - 1)] = Frame(1 - lastRead.f, (n - 1) + 1, n)
        <5>1. 0 \in 0 .. n - 1 /\ n - 1 \in 0 .. n - 1
          BY <1>4, <2>2
        <5> HIDE DEF b, at
        <5> QED BY <1>7, <5>1
      <4>2. at + 0 = at /\ at + (n - 1) = at + n - 1 /\ (n - 1) + 1 = n
        BY <1>4, <1>5
      <4> QED BY <2>2, <4>1, <4>2
    <3>2. Follows(lastRead, b[at])
      <4>1. b[at].f = 1 - lastRead.f /\ b[at].i = 1
        BY <3>1 DEF Frame
      <4>2. ~(lastRead.i < lastRead.n)
        BY <1>2, <1>4, ByteTypes
      <4> QED BY <4>1, <4>2 DEF Follows
    <3>3. Follows(lastSent, b[from])
      <4>1. CASE from = at
        BY <1>11, <3>2, <4>1 DEF Unbroken
      <4>2. CASE from # at
        <5>1. from \in from .. at - 1
          BY <1>5, <4>2
        <5> QED BY <1>11, <1>12, <4>2, <5>1 DEF Unbroken
      <4> QED BY <4>1, <4>2
    <3>4. ASSUME NEW p \in from .. at + n - 2
          PROVE  Follows(b[p], b[p + 1])
      <4>1. CASE p < at - 1
        <5>1. p \in from .. at - 2 /\ p \in from .. at - 1 /\ p + 1 \in from .. at - 1 /\ from # at
          BY <1>5, <4>1
        <5>2. Follows(fBuf[p], fBuf[p + 1])
          BY <1>11, <5>1 DEF Unbroken
        <5> QED BY <1>12, <5>1, <5>2
      <4>2. CASE p = at - 1
        <5>1. p \in from .. at - 1 /\ p + 1 = at /\ from # at
          BY <1>5, <4>2
        <5>2. fBuf[at - 1] = lastRead
          BY <1>11, <5>1 DEF Unbroken
        <5> QED BY <1>12, <3>2, <4>2, <5>1, <5>2
      <4>3. CASE p >= at
        <5> DEFINE k == p - at
        <5>1. k \in 0 .. n - 1 /\ k + 1 \in 0 .. n - 1 /\ p = at + k /\ p + 1 = at + (k + 1)
          BY <1>4, <1>5, <4>3
        <5>2. b[p] = Frame(1 - lastRead.f, k + 1, n) /\ b[p + 1] = Frame(1 - lastRead.f, (k + 1) + 1, n)
          BY <1>7, <5>1
        <5>3. k + 1 < n
          BY <1>4, <5>1
        <5> QED BY <5>2, <5>3 DEF Follows, Frame
      <4> QED BY <1>5, <4>1, <4>2, <4>3
    <3>5. from # at + n
      BY <1>5, <2>2
    <3>6. (at + n) - 1 = at + n - 1 /\ (at + n) - 2 = at + n - 2
      BY <1>4, <1>5
    <3> QED BY <3>1, <3>3, <3>4, <3>5, <3>6 DEF Unbroken
  <2> QED BY <1>4, <2>1, <2>2
<1>14. restarts' = 0 => fCurFragmentationOffset = IF n > 0 THEN r.n - n ELSE 0
  BY <1>1, <1>3, <1>4, <1>6 DEF OffsetsAreRight, OffsetIsThatOfTheFragment
<1> HIDE DEF b, r
<1> QED BY <1>2, <1>3, <1>4, <1>5, <1>6, <1>9, <1>10, <1>13, <1>14, FrameHandled

\* Stopping forgets the packet and the overflow data.
LEMMA Stopped ==
  ASSUME PackInv, StopPlaying
  PROVE  PackInv'
<1>1. PackerTypeOK /\ PacketsFit /\ PlaceInv /\ TailInv /\ OffsetsAreRight
  BY DEF PackInv
<1>2. /\ sink # "stopped" /\ sink' = "stopped" /\ fPacketStart' = 0 /\ fCurOffset' = 0
      /\ fOverflowDataOffset' = 0 /\ fOverflowDataSize' = 0 /\ fBuf' = Keep(fBuf, 0, 0)
      /\ lastSent' = lastRead /\ lastRead' = lastRead /\ oneFrame' = oneFrame /\ inPacket' = inPacket
      /\ fCurFragmentationOffset' = fCurFragmentationOffset /\ restarts' = restarts
      /\ fPreviousFrameEndedFragmentation' = fPreviousFrameEndedFragmentation /\ packet' = packet
  BY DEF StopPlaying, fragVars
<1>3. /\ HeaderSize \in Nat /\ HeaderSize > 0 /\ fLimit \in Nat /\ HeaderSize <= fLimit
      /\ 0 \in 0 .. fLimit /\ 0 \in 0 .. fLimit - HeaderSize
  BY PacketAssumption
<1>4. PackerTypeOK'
  <2>1. fBuf' \in [Places -> Bytes]
    BY <1>1, <1>2, KeepKeeps DEF PackerTypeOK
  <2> QED BY <1>1, <1>2, <1>3, <2>1 DEF PackerTypeOK
<1>5. PacketsFit' /\ OverflowIsSafe' /\ PlaceInv' /\ OffsetsAreRight'
  BY <1>1, <1>2, <1>3 DEF PacketsFit, OverflowIsSafe, PlaceInv, HalfIsLeft, OffsetsAreRight
<1>6. TailInv'
  <2>1. ASSUME restarts = 0, lastRead = Nothing
        PROVE  fCurFragmentationOffset = 0
    <3>1. ~(fOverflowDataSize > 0)
      <4>1. ASSUME fOverflowDataSize > 0 PROVE FALSE
        <5>1. fOverflowDataSize <= lastRead.n
          BY <1>1, <4>1 DEF TailInv, FrameEnd
        <5>2. lastRead.n = 0
          BY <2>1 DEF Nothing, Frame
        <5> QED BY <1>1, <1>3, <4>1, <5>1, <5>2 DEF PackerTypeOK
      <4> QED BY <4>1
    <3> QED BY <1>1, <1>2, <2>1, <3>1 DEF OffsetsAreRight, OffsetIsThatOfTheFragment
  <2> QED BY <1>2, <2>1 DEF TailInv
<1>7. FramesUnbroken'
  BY <1>2 DEF FramesUnbroken, Unsent, Unbroken
<1> QED BY <1>4, <1>5, <1>6, <1>7 DEF PackInv

-----------------------------------------------------------------------------
\* The invariant is inductive: it holds at first and every action keeps it.
THEOREM PackInvHolds == PackerSpec => []PackInv
<1>1. PackerInit => PackInv
  <2> SUFFICES ASSUME PackerInit PROVE PackInv
    OBVIOUS
  <2>1. /\ HeaderSize \in Nat /\ HeaderSize > 0 /\ fLimit \in Nat /\ fMax \in Nat /\ HeaderSize <= fLimit
        /\ MaxRestarts \in Nat
        /\ 0 \in 0 .. fLimit /\ 0 \in 0 .. fLimit - HeaderSize /\ 0 \in 0 .. MaxRestarts
    BY PacketAssumption
  <2>2. PackerTypeOK
    BY <2>1, ByteTypes DEF PackerInit, PackerTypeOK
  <2>3. PacketsFit /\ OverflowIsSafe /\ OffsetsAreRight
    BY <2>1 DEF PackerInit, PacketsFit, OverflowIsSafe, OffsetsAreRight
  <2>4. PlaceInv /\ TailInv
    BY <2>1 DEF PackerInit, PlaceInv, TailInv, HalfIsLeft, Nothing, Frame
  <2>5. FramesUnbroken
    BY DEF PackerInit, FramesUnbroken, Unsent, Unbroken
  <2> QED BY <2>2, <2>3, <2>4, <2>5 DEF PackInv
<1>2. PackInv /\ [PackerNext]_packerVars => PackInv'
  <2> SUFFICES ASSUME PackInv, [PackerNext]_packerVars PROVE PackInv'
    OBVIOUS
  <2>1. PackerTypeOK /\ MaxRestarts \in Nat
    BY PacketAssumption DEF PackInv
  <2>2. CASE StartPlaying
    <3>1. restarts' \in 0 .. MaxRestarts /\ restarts' = restarts /\ sink = "stopped" /\ lastRead = Nothing
          /\ BuildPacket /\ oneFrame' = oneFrame /\ lastRead' = lastRead
      BY <2>1, <2>2 DEF StartPlaying, PackerTypeOK
    <3> QED BY <3>1, PacketBuilt
  <2>3. CASE PlayAgain
    <3>1. restarts' \in 0 .. MaxRestarts /\ restarts' # 0 /\ sink = "stopped"
          /\ BuildPacket /\ oneFrame' = oneFrame /\ lastRead' = lastRead
      BY <2>1, <2>3 DEF PlayAgain, PackerTypeOK
    <3> QED BY <3>1, PacketBuilt
  <2>4. CASE SendNext
    <3>1. restarts' \in 0 .. MaxRestarts /\ restarts' = restarts /\ sink = "wait"
          /\ BuildPacket /\ oneFrame' = oneFrame /\ lastRead' = lastRead
      BY <2>1, <2>4 DEF SendNext, PackerTypeOK
    <3> QED BY <3>1, PacketBuilt
  <2>5. CASE StopPlaying
    BY <2>5, Stopped
  <2>6. ASSUME NEW n \in 0 .. fLimit, SourceDelivers(n)
        PROVE  PackInv'
    BY <2>6, FrameArrives
  <2>7. CASE UNCHANGED packerVars
    BY <2>7 DEF packerVars, overflowVars, fragVars, PackInv, PackerTypeOK, PacketsFit, OverflowIsSafe, PlaceInv,
                TailInv, FramesUnbroken, Unsent, OffsetsAreRight, OffsetIsThatOfTheFragment
  <2> QED BY <2>2, <2>3, <2>4, <2>5, <2>6, <2>7 DEF PackerNext
<1> QED BY <1>1, <1>2, PTL DEF PackerSpec

\* Packet and overflow data stay within the buffer of OutPacketBuffer, and the
\* headers of the next packet end where the overflow data begins, or before.
THEOREM OverflowIsAlwaysSafe == PackerSpec => []OverflowIsSafe
<1>1. PackInv => OverflowIsSafe
  BY DEF PackInv
<1> QED BY <1>1, PackInvHolds, PTL

\* No byte of a frame is lost, repeated or put out of order by afterGettingFrame1,
\* useOverflowData and the move of the packet's start.
THEOREM NoByteIsLost == PackerSpec => []FramesUnbroken
<1>1. PackInv => FramesUnbroken
  BY DEF PackInv
<1> QED BY <1>1, PackInvHolds, PTL

\* Whenever the source is asked for a frame by packFrame, at least as much room
\* is left as half of the buffer less what may be in the packet.
THEOREM RoomIsLeft == PackerSpec => []RoomForFrames
<1>1. PackInv => RoomForFrames
  <2> SUFFICES ASSUME PackInv, sink = "asked"
               PROVE  2 * ((fLimit - (fPacketStart + fCurOffset)) + (fPreferred - HeaderSize)) > fLimit
    BY DEF RoomForFrames, totalBytesAvailable
  <2>1. /\ HeaderSize \in Nat /\ HeaderSize > 0 /\ fPreferred \in Nat /\ fLimit \in Nat
        /\ 2 * HeaderSize <= fLimit
    BY PacketAssumption
  <2>2. /\ fPacketStart \in Nat /\ fCurOffset \in Nat /\ fCurOffset < fPreferred
        /\ fPacketStart > 0 => 2 * (fLimit - (fPacketStart + HeaderSize)) > fLimit
    BY <2>1 DEF PackInv, PackerTypeOK, PlaceInv, HalfIsLeft
  <2> HIDE DEF PackInv
  <2> QED BY <2>1, <2>2
<1> QED BY <1>1, PackInvHolds, PTL
=============================================================================
