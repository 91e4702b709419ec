------------------------ MODULE H264FragmenterProofs ------------------------
(***************************************************************************)
(* Proofs about H264Fragmenter, for every payload size and buffer size.    *)
(***************************************************************************)
EXTENDS H264Fragmenter, SequenceTheorems, WellFoundedInduction, TLAPS

\* The buffer in the middle of a NAL unit: the header bytes to copy are in front.
Marked(b) == b[0] = Indicator /\ b[1] = FuHeader({"S"})

\* What a caller may rely on when Cut gives p for buffer b, v and o.
Good(p, b, v, o) ==
  /\ p.buffer \in [0 .. MaxFrame -> Bytes]
  /\ p.bytes \in Seq(Bytes) /\ Len(p.bytes) <= fMaxOutputPacketSize
  /\ p.next \in o + 1 .. v
  /\ Completes(v, o) <=> p.next = v
  /\ p.next < v => /\ fMaxOutputPacketSize <= p.next /\ Marked(p.buffer)
                   /\ \A i \in p.next .. v - 1 : p.buffer[i] = b[i]

-----------------------------------------------------------------------------
LEMMA ByteKinds ==
  /\ Indicator \in Bytes
  /\ \A x \in SUBSET {"S", "E"} : FuHeader(x) \in Bytes
  /\ \A i \in 0 .. MaxFrame : Nal(i) \in Bytes
  BY DEF Bytes

\* A slice of the buffer consists of bytes and has its length.
LEMMA SliceIsSequence ==
  ASSUME NEW b \in [0 .. MaxFrame -> Bytes], NEW from \in Nat, NEW length \in Nat,
         from + length <= MaxFrame + 1
  PROVE  Slice(b, from, length) \in Seq(Bytes) /\ Len(Slice(b, from, length)) = length
<1> DEFINE s == Slice(b, from, length)
<1>1. \A i \in 1 .. length : from + i - 1 \in 0 .. MaxFrame
  BY SizeAssumption
<1>2. s \in [1 .. length -> Bytes]
  BY <1>1 DEF Slice
<1> HIDE DEF s
<1>3. s \in Seq(Bytes)
  BY <1>2, SeqDef
<1>4. DOMAIN s = 1 .. length /\ DOMAIN s = 1 .. Len(s) /\ Len(s) \in Nat
  BY <1>2, <1>3, LenProperties
<1>5. Len(s) = length
  BY <1>4
<1> QED BY <1>3, <1>5 DEF s

LEMMA WholeIsGood ==
  ASSUME NEW b \in [0 .. MaxFrame -> Bytes], NEW v \in 2 .. MaxFrame + 1,
         v - 1 <= fMaxOutputPacketSize
  PROVE  Good(Whole(b, v), b, v, 1)
<1> DEFINE p == Whole(b, v)
<1>1. v - 1 \in Nat /\ 1 \in Nat /\ 1 + (v - 1) <= MaxFrame + 1
  BY SizeAssumption
<1>2. Slice(b, 1, v - 1) \in Seq(Bytes) /\ Len(Slice(b, 1, v - 1)) = v - 1
  BY <1>1, SliceIsSequence
<1>3. p.buffer = b /\ p.bytes = Slice(b, 1, v - 1) /\ p.next = v
  BY DEF Whole, Payload
<1> HIDE DEF p
<1>4. p.next \in 1 + 1 .. v /\ ~(p.next < v)
  BY <1>3, SizeAssumption
<1>5. Len(p.bytes) <= fMaxOutputPacketSize
  BY <1>2, <1>3
<1>6. Completes(v, 1)
  BY DEF Completes
<1>7. Good(p, b, v, 1)
  BY <1>2, <1>3, <1>4, <1>5, <1>6 DEF Good
<1> QED BY <1>7 DEF p

LEMMA FirstFragmentIsGood ==
  ASSUME NEW b \in [0 .. MaxFrame -> Bytes], NEW v \in 2 .. MaxFrame + 1,
         v - 1 > fMaxOutputPacketSize
  PROVE  Good(FirstFragment(b, v), b, v, 1)
<1> DEFINE h == [b EXCEPT ![0] = Indicator, ![1] = FuHeader({"S"})]
           p == FirstFragment(b, v)
<1>1. /\ fMaxOutputPacketSize \in Nat /\ fMaxOutputPacketSize >= 4 /\ fMaxOutputPacketSize <= MaxFrame
      /\ MaxFrame \in Nat
  BY SizeAssumption
<1>2. h \in [0 .. MaxFrame -> Bytes]
  BY ByteKinds
<1>3. Marked(h) /\ \A i \in 2 .. MaxFrame : h[i] = b[i]
  BY <1>1 DEF Marked
<1>4. /\ p.buffer = h /\ p.next = fMaxOutputPacketSize
      /\ p.bytes = Slice(h, 0, fMaxOutputPacketSize)
  BY DEF FirstFragment, Payload
<1> HIDE DEF h, p
<1>5. p.bytes \in Seq(Bytes) /\ Len(p.bytes) = fMaxOutputPacketSize
  <2>1. 0 \in Nat /\ 0 + fMaxOutputPacketSize <= MaxFrame + 1
    BY <1>1
  <2>2. Slice(h, 0, fMaxOutputPacketSize) \in Seq(Bytes)
        /\ Len(Slice(h, 0, fMaxOutputPacketSize)) = fMaxOutputPacketSize
    BY <1>1, <1>2, <2>1, SliceIsSequence
  <2> QED BY <1>4, <2>2
<1>6. \A i \in p.next .. v - 1 : p.buffer[i] = b[i]
  BY <1>1, <1>3, <1>4
<1>7. p.next \in 1 + 1 .. v /\ p.next < v
  BY <1>1, <1>4
<1>8. ~Completes(v, 1) /\ p.next # v
  BY <1>1, <1>4 DEF Completes
<1>9. fMaxOutputPacketSize <= p.next /\ Len(p.bytes) <= fMaxOutputPacketSize
  BY <1>1, <1>4, <1>5
<1>10. Good(p, b, v, 1)
  BY <1>2, <1>3, <1>4, <1>5, <1>6, <1>7, <1>8, <1>9 DEF Good
<1> QED BY <1>10 DEF p

LEMMA NextFragmentIsGood ==
  ASSUME NEW b \in [0 .. MaxFrame -> Bytes], NEW v \in 2 .. MaxFrame + 1,
         NEW o \in 1 .. v - 1, fMaxOutputPacketSize <= o, Marked(b)
  PROVE  Good(NextFragment(b, v, o), b, v, o)
<1> DEFINE length == IF IsLastFragment(v, o) THEN 2 + (v - o) ELSE fMaxOutputPacketSize
           bits   == (b[1].bits \ {"S"}) \cup IF IsLastFragment(v, o) THEN {"E"} ELSE {}
           h      == [b EXCEPT ![o - 2] = b[0], ![o - 1] = FuHeader(bits)]
           p      == NextFragment(b, v, o)
<1>1. /\ fMaxOutputPacketSize \in Nat /\ fMaxOutputPacketSize >= 4 /\ MaxFrame \in Nat
      /\ o \in Nat /\ v \in Nat /\ v <= MaxFrame + 1 /\ o < v
  BY SizeAssumption
<1>2. /\ length \in Nat /\ length >= 3 /\ length <= fMaxOutputPacketSize /\ length <= 2 + (v - o)
      /\ Completes(v, o) <=> length = 2 + (v - o)
  BY <1>1 DEF IsLastFragment, Completes
<1>3. bits \in SUBSET {"S", "E"}
  BY DEF Marked, FuHeader
<1>4. FuHeader(bits) \in Bytes /\ b[0] \in Bytes
  BY <1>1, <1>3, ByteKinds
<1>5. p.buffer = h /\ p.next = o + length - 2 /\ p.bytes = Slice(h, o - 2, length)
  BY DEF NextFragment, Payload
<1> HIDE DEF length, bits, p
<1>6. h \in [0 .. MaxFrame -> Bytes]
  BY <1>4
<1>7. Marked(h) /\ \A i \in o .. MaxFrame : h[i] = b[i]
  BY <1>1 DEF Marked
<1> HIDE DEF h
<1>8. p.bytes \in Seq(Bytes) /\ Len(p.bytes) = length
  <2>1. o - 2 \in Nat /\ (o - 2) + length <= MaxFrame + 1
    BY <1>1, <1>2
  <2>2. Slice(h, o - 2, length) \in Seq(Bytes) /\ Len(Slice(h, o - 2, length)) = length
    BY <1>2, <1>6, <2>1, SliceIsSequence
  <2> QED BY <1>5, <2>2
<1>9. p.next \in o + 1 .. v /\ fMaxOutputPacketSize <= p.next
  BY <1>1, <1>2, <1>5
<1>10. Completes(v, o) <=> p.next = v
  BY <1>1, <1>2, <1>5
<1>11. \A i \in p.next .. v - 1 : p.buffer[i] = b[i]
  BY <1>1, <1>5, <1>7, <1>9
<1>12. Good(p, b, v, o)
  BY <1>2, <1>5, <1>6, <1>7, <1>8, <1>9, <1>10, <1>11 DEF Good
<1> QED BY <1>12 DEF p

\* Cut stays inside the buffer, gives a payload that fits, and makes progress.
LEMMA CutIsGood ==
  ASSUME NEW b \in [0 .. MaxFrame -> Bytes], NEW v \in 2 .. MaxFrame + 1, NEW o \in 1 .. v - 1,
         o = 1 \/ (fMaxOutputPacketSize <= o /\ Marked(b))
  PROVE  Good(Cut(b, v, o), b, v, o)
<1>1. CASE o = 1 /\ v - 1 <= fMaxOutputPacketSize
  BY <1>1, WholeIsGood DEF Cut
<1>2. CASE o = 1 /\ ~(v - 1 <= fMaxOutputPacketSize)
  BY <1>2, FirstFragmentIsGood, SizeAssumption DEF Cut
<1>3. CASE o # 1
  BY <1>3, NextFragmentIsGood DEF Cut
<1> QED BY <1>1, <1>2, <1>3

\* Delivering a payload keeps the invariant, whether the NAL unit is new or not.
LEMMA DeliverKeepsInv ==
  ASSUME FInv, NEW b \in [0 .. MaxFrame -> Bytes], NEW v \in 2 .. MaxFrame + 1,
         NEW o \in 1 .. v - 1, o = 1 \/ (fMaxOutputPacketSize <= o /\ Marked(b)),
         \A i \in o .. v - 1 : b[i] = Nal(i),
         DeliverPayload(b, v, o), size' = v - 1
  PROVE  FInv'
<1> DEFINE p == Cut(b, v, o)
           old == IF o = 1 THEN <<>> ELSE payloads
<1>1. Good(p, b, v, o)
  BY CutIsGood
<1>2. /\ buffer' = p.buffer /\ payloads' = Append(old, p.bytes) /\ asked' = FALSE
      /\ valid' = IF p.next >= v THEN 1 ELSE v
      /\ offset' = IF p.next >= v THEN 1 ELSE p.next
      /\ fLastFragmentCompletedNALUnit' = Completes(v, o)
  BY DEF DeliverPayload
<1>3. old \in Seq(Seq(Bytes)) /\ \A i \in 1 .. Len(old) : Len(old[i]) <= fMaxOutputPacketSize
  <2>1. payloads \in Seq(Seq(Bytes)) /\ <<>> \in Seq(Seq(Bytes)) /\ Len(<<>>) = 0
    BY DEF FInv, TypeOK
  <2>2. \A i \in 1 .. Len(payloads) : Len(payloads[i]) <= fMaxOutputPacketSize
    BY <2>1 DEF FInv, PayloadsFit, Range
  <2> QED BY <2>1, <2>2
<1>4. MaxFrame \in Nat /\ v \in Nat /\ v <= MaxFrame + 1 /\ v - 1 \in 0 .. MaxFrame /\ v # 1
  BY SizeAssumption
<1> HIDE DEF p, old
<1>5. payloads' \in Seq(Seq(Bytes))
  BY <1>1, <1>2, <1>3 DEF Good
<1>6. PayloadsFit'
  <2>1. \A i \in 1 .. Len(old) + 1 : Len(Append(old, p.bytes)[i]) <= fMaxOutputPacketSize
    BY <1>1, <1>3 DEF Good
  <2>2. DOMAIN payloads' = 1 .. Len(old) + 1
    BY <1>1, <1>2, <1>3 DEF Good
  <2> QED BY <1>2, <2>1, <2>2 DEF PayloadsFit, Range
<1>7. p.next \in Nat /\ o < p.next /\ p.next <= v
  BY <1>1, <1>4 DEF Good
<1>8. fLastFragmentCompletedNALUnit' \in BOOLEAN /\ (fLastFragmentCompletedNALUnit' <=> p.next = v)
  <2>1. Completes(v, o) \in BOOLEAN
    BY Zenon DEF Completes, IsLastFragment
  <2>2. Completes(v, o) <=> p.next = v
    BY <1>1, Zenon DEF Good
  <2>3. fLastFragmentCompletedNALUnit' = Completes(v, o)
    BY <1>2, Zenon
  <2> QED BY <2>1, <2>2, <2>3, Zenon
<1>9. valid' = 1 <=> p.next = v
  BY <1>2, <1>4, <1>7
<1>10. TypeOK'
  <2>1. asked' \in BOOLEAN /\ fLastFragmentCompletedNALUnit' \in BOOLEAN
    BY <1>2, <1>8, Zenon
  <2>2. buffer' \in [0 .. MaxFrame -> Bytes]
    BY <1>1, <1>2, Zenon DEF Good
  <2>3. valid' \in 1 .. MaxFrame + 1 /\ offset' \in 1 .. MaxFrame + 1 /\ size' \in 0 .. MaxFrame
    BY <1>2, <1>4, <1>7
  <2> QED BY <1>5, <2>1, <2>2, <2>3, Zenon DEF TypeOK
<1>11. OffsetsInvariant'
  <2>1. CASE p.next = v
    BY <1>2, <1>7, <2>1 DEF OffsetsInvariant
  <2>2. CASE p.next # v
    <3>1. valid' = v /\ offset' = p.next /\ p.next < v
      BY <1>2, <1>7, <2>2
    <3>2. fMaxOutputPacketSize <= p.next /\ Marked(p.buffer)
          /\ \A i \in p.next .. v - 1 : p.buffer[i] = b[i]
      BY <1>1, <3>1 DEF Good
    <3>3. \A i \in p.next .. v - 1 : p.buffer[i] = Nal(i)
      BY <1>4, <1>7, <3>2
    <3> QED BY <1>2, <1>4, <1>8, <3>1, <3>2, <3>3 DEF OffsetsInvariant, Marked
  <2> QED BY <2>1, <2>2
<1>12. CompletionIsReported'
  BY <1>8, <1>9 DEF CompletionIsReported
<1> QED BY <1>6, <1>10, <1>11, <1>12 DEF FInv

LEMMA FragmenterInductive == FInv /\ [Next]_vars => FInv'
<1> SUFFICES ASSUME FInv, [Next]_vars PROVE FInv'
  OBVIOUS
<1>1. CASE AskSource
  BY <1>1 DEF FInv, TypeOK, OffsetsInvariant, PayloadsFit, CompletionIsReported, AskSource, bufferVars
<1>2. CASE AskForMore
  <2>1. /\ valid \in 2 .. MaxFrame + 1 /\ offset \in 1 .. valid - 1 /\ size' = valid - 1
        /\ fMaxOutputPacketSize <= offset /\ Marked(buffer)
        /\ \A i \in offset .. valid - 1 : buffer[i] = Nal(i)
    BY <1>2, SizeAssumption DEF FInv, TypeOK, OffsetsInvariant, AskForMore, Marked
  <2>2. buffer \in [0 .. MaxFrame -> Bytes] /\ DeliverPayload(buffer, valid, offset)
    BY <1>2 DEF FInv, TypeOK, AskForMore
  <2> QED BY <2>1, <2>2, DeliverKeepsInv
<1>3. ASSUME NEW n \in 1 .. MaxFrame, SourceDelivers(n) PROVE FInv'
  <2> DEFINE filled == [i \in 0 .. MaxFrame |-> IF i \in 1 .. n THEN Nal(i) ELSE buffer[i]]
  <2>1. filled \in [0 .. MaxFrame -> Bytes]
    BY ByteKinds DEF FInv, TypeOK
  <2>2. 1 + n \in 2 .. MaxFrame + 1 /\ 1 \in 1 .. (1 + n) - 1 /\ (1 + n) - 1 = n
    BY SizeAssumption
  <2>3. \A i \in 1 .. n : filled[i] = Nal(i)
    BY SizeAssumption
  <2>4. DeliverPayload(filled, 1 + n, 1) /\ size' = n
    BY <1>3 DEF SourceDelivers
  <2> HIDE DEF filled
  <2> QED BY <2>1, <2>2, <2>3, <2>4, DeliverKeepsInv
<1>4. CASE StopGettingFrames
  <2>1. payloads' = <<>> /\ <<>> \in Seq(Seq(Bytes)) /\ DOMAIN <<>> = {}
    BY <1>4 DEF StopGettingFrames
  <2>2. PayloadsFit'
    BY <2>1 DEF PayloadsFit, Range
  <2>3. 1 \in 1 .. MaxFrame + 1
    BY SizeAssumption
  <2> QED BY <1>4, <2>1, <2>2, <2>3
          DEF FInv, TypeOK, OffsetsInvariant, CompletionIsReported, StopGettingFrames
<1>5. CASE UNCHANGED vars
  BY <1>5 DEF FInv, TypeOK, OffsetsInvariant, PayloadsFit, CompletionIsReported, vars, bufferVars
<1> QED BY <1>1, <1>2, <1>3, <1>4, <1>5 DEF Next

LEMMA FragmenterInit == Init => FInv
<1> SUFFICES ASSUME Init PROVE FInv
  OBVIOUS
<1>1. <<>> \in Seq(Seq(Bytes)) /\ DOMAIN <<>> = {} /\ 1 \in 1 .. MaxFrame + 1 /\ 0 \in 0 .. MaxFrame
  BY SizeAssumption
<1>2. buffer \in [0 .. MaxFrame -> Bytes]
  BY <1>1, ByteKinds DEF Init
<1>3. PayloadsFit
  BY <1>1 DEF Init, PayloadsFit, Range
<1> QED BY <1>1, <1>2, <1>3 DEF Init, FInv, TypeOK, OffsetsInvariant, CompletionIsReported

\* The inductive invariant: offsets and counts stay inside the buffer, no payload is
\* larger than an RTP packet has room for, the headers written in place overwrite
\* nothing unsent, and completion is reported exactly when nothing is left.
THEOREM FragmenterInv == Spec => []FInv
  BY FragmenterInit, FragmenterInductive, PTL DEF Spec

-----------------------------------------------------------------------------
(* FragmentsRejoin.  Joined is defined by recursion on the number of        *)
(* payloads; that one payload more adds its data at the end is proved by    *)
(* least counterexample.                                                    *)

JoinSteps(ps, f, n) == f[0] = <<>> /\ \A k \in 1 .. n : f[k] = f[k - 1] \o Data(ps[k])

Joins(ps, f, n) == f = [k \in 0 .. n |-> IF k = 0 THEN <<>> ELSE f[k - 1] \o Data(ps[k])]

\* A set of natural numbers that is not empty has a smallest one.
LEMMA SmallestNumber ==
  ASSUME NEW N \in SUBSET Nat, N # {}
  PROVE  \E n \in N : \A m \in N : n <= m
<1>1. PICK n \in N : \A m \in N : <<m, n>> \notin OpToRel(<, Nat)
  BY WFMin, NatLessThanWellFounded
<1>2. ASSUME NEW m \in N PROVE n <= m
  <2>1. m \in Nat /\ n \in Nat
    OBVIOUS
  <2>2. ~(m < n)
    BY <1>1, <2>1 DEF OpToRel
  <2> QED BY <2>1, <2>2
<1> QED BY <1>2

\* The data of any number of payloads can be put together.
LEMMA JoinsExist ==
  ASSUME NEW ps, NEW n \in Nat
  PROVE  \E f : Joins(ps, f, n)
<1> DEFINE N == {k \in Nat : ~\E f : Joins(ps, f, k)}
<1> SUFFICES ASSUME N # {} PROVE FALSE
  OBVIOUS
<1>1. PICK k \in N : \A m \in N : k <= m
  <2>1. N \in SUBSET Nat
    OBVIOUS
  <2> HIDE DEF N
  <2> QED BY <2>1, SmallestNumber
<1>2. CASE k = 0
  <2> DEFINE f == [m \in 0 .. k |-> <<>>]
  <2>1. \A m \in 0 .. k : m = 0
    BY <1>2
  <2>2. Joins(ps, f, k)
    BY <2>1 DEF Joins
  <2> QED BY <1>1, <2>2
<1>3. CASE k # 0
  <2>1. k - 1 \in Nat /\ k \in Nat /\ k - 1 \notin N
    <3>1. k \in Nat /\ k - 1 \in Nat /\ ~(k <= k - 1)
      BY <1>1, <1>3
    <3> HIDE DEF N
    <3> QED BY <1>1, <3>1
  <2>2. PICK f : Joins(ps, f, k - 1)
    BY <2>1
  <2> DEFINE last == f[k - 1] \o Data(ps[k])
             g == [m \in 0 .. k |-> IF m = k THEN last ELSE f[m]]
             step(h, m) == IF m = 0 THEN <<>> ELSE h[m - 1] \o Data(ps[m])
  <2>3. \A m \in 0 .. k - 1 : f[m] = step(f, m)
    BY <2>1, <2>2 DEF Joins
  <2>4. ASSUME NEW m \in 0 .. k
        PROVE  g[m] = step(g, m)
    <3>1. CASE m = k
      <4>1. k - 1 \in 0 .. k /\ k - 1 # k /\ k \in 0 .. k
        BY <2>1
      <4>2. g[k] = last /\ g[k - 1] = f[k - 1]
        BY <4>1
      <4> QED BY <1>3, <3>1, <4>2
    <3>2. CASE m # k
      <4>1. m \in 0 .. k - 1 /\ (m # 0 => m - 1 \in 0 .. k /\ m - 1 # k)
        BY <2>1, <3>2
      <4>2. g[m] = f[m] /\ (m # 0 => g[m - 1] = f[m - 1])
        BY <3>2, <4>1
      <4>3. f[m] = step(f, m)
        BY <2>3, <4>1
      <4> QED BY <4>2, <4>3
    <3> QED BY <3>1, <3>2
  <2>5. g = [m \in 0 .. k |-> g[m]]
    OBVIOUS
  <2> HIDE DEF g
  <2>6. Joins(ps, g, k)
    BY <2>4, <2>5 DEF Joins
  <2> QED BY <1>1, <2>6
<1> QED BY <1>2, <1>3

\* Of two lists that begin alike, the data that begin them are alike.
LEMMA SameBeginning ==
  ASSUME NEW ps, NEW qs, NEW n \in Nat, \A k \in 1 .. n : ps[k] = qs[k],
         NEW f, NEW g, JoinSteps(ps, f, n), JoinSteps(qs, g, n)
  PROVE  f[n] = g[n]
<1> DEFINE N == {k \in 0 .. n : f[k] # g[k]}
<1>1. N = {}
  <2> SUFFICES ASSUME N # {} PROVE FALSE
    OBVIOUS
  <2>1. PICK k \in N : \A m \in N : k <= m
    <3>1. N \in SUBSET Nat
      OBVIOUS
    <3> HIDE DEF N
    <3> QED BY <3>1, SmallestNumber
  <2>2. k \in 1 .. n /\ k - 1 \in 0 .. n /\ ~(k <= k - 1)
    <3>1. k \in 0 .. n /\ k # 0
      BY <2>1 DEF JoinSteps
    <3> HIDE DEF N
    <3> QED BY <3>1
  <2>3. k - 1 \notin N
    <3> HIDE DEF N
    <3> QED BY <2>1, <2>2
  <2>4. f[k - 1] = g[k - 1]
    BY <2>2, <2>3
  <2>5. f[k] = f[k - 1] \o Data(ps[k]) /\ g[k] = g[k - 1] \o Data(qs[k]) /\ ps[k] = qs[k]
    BY <2>2 DEF JoinSteps
  <2> QED BY <2>1, <2>4, <2>5
<1>2. n \in 0 .. n
  OBVIOUS
<1> QED BY <1>1, <1>2

\* Joined as its recursion says.
LEMMA JoinedSteps ==
  ASSUME NEW S, NEW ps \in Seq(S)
  PROVE  \E f : Joined(ps) = f[Len(ps)] /\ JoinSteps(ps, f, Len(ps))
<1> DEFINE L == Len(ps)
           f == CHOOSE g : Joins(ps, g, L)
<1>1. L \in Nat
  BY LenProperties
<1>2. Joins(ps, f, L)
  BY <1>1, JoinsExist
<1>3. Joined(ps) = f[L]
  BY DEF Joined, Joins
<1> HIDE DEF f
<1>4. f[0] = <<>> /\ \A k \in 1 .. L : f[k] = f[k - 1] \o Data(ps[k])
  <2>1. \A k \in 0 .. L : f[k] = IF k = 0 THEN <<>> ELSE f[k - 1] \o Data(ps[k])
    BY <1>2 DEF Joins
  <2>2. 0 \in 0 .. L /\ \A k \in 1 .. L : k \in 0 .. L /\ k # 0
    BY <1>1
  <2> QED BY <2>1, <2>2
<1> QED BY <1>3, <1>4 DEF JoinSteps

\* Before the first payload there is no data.
LEMMA JoinedNothing == Joined(<<>>) = <<>>
<1>1. <<>> \in Seq({}) /\ Len(<<>>) = 0
  OBVIOUS
<1>2. PICK f : Joined(<<>>) = f[Len(<<>>)] /\ JoinSteps(<<>>, f, Len(<<>>))
  BY <1>1, JoinedSteps
<1> QED BY <1>1, <1>2 DEF JoinSteps

\* A payload's data comes after those of the payloads before.
LEMMA JoinedAppend ==
  ASSUME NEW S, NEW ps \in Seq(S), NEW p \in S
  PROVE  Joined(Append(ps, p)) = Joined(ps) \o Data(p)
<1> DEFINE qs == Append(ps, p)
           n == Len(ps)
<1>1. n \in Nat /\ qs \in Seq(S) /\ Len(qs) = n + 1 /\ qs[n + 1] = p /\ \A k \in 1 .. n : qs[k] = ps[k]
  BY AppendProperties, LenProperties
<1> HIDE DEF qs
<1>2. PICK f : Joined(ps) = f[n] /\ JoinSteps(ps, f, n)
  BY JoinedSteps
<1>3. PICK g : Joined(qs) = g[n + 1] /\ JoinSteps(qs, g, n + 1)
  BY <1>1, JoinedSteps
<1>4. JoinSteps(qs, g, n)
  <2>1. 1 .. n \subseteq 1 .. n + 1
    BY <1>1
  <2> QED BY <1>3, <2>1 DEF JoinSteps
<1>5. f[n] = g[n]
  <2>1. \A k \in 1 .. n : ps[k] = qs[k]
    BY <1>1
  <2> QED BY <1>1, <1>2, <1>4, <2>1, SameBeginning
<1>6. n + 1 \in 1 .. n + 1 /\ n + 1 - 1 = n
  BY <1>1
<1>7. g[n + 1] = g[n] \o Data(qs[n + 1])
  <2> DEFINE m == n + 1
  <2>1. \A k \in 1 .. m : g[k] = g[k - 1] \o Data(qs[k])
    BY <1>3 DEF JoinSteps
  <2>2. m \in 1 .. m /\ m - 1 = n
    BY <1>6
  <2> HIDE DEF m, n
  <2>3. g[m] = g[n] \o Data(qs[m])
    BY <2>1, <2>2
  <2> QED BY <2>3 DEF m
<1> QED BY <1>1, <1>2, <1>3, <1>5, <1>7 DEF qs

\* The data of a payload are its bytes after the first two.
LEMMA DataOf ==
  ASSUME NEW S, NEW p \in Seq(S), Len(p) >= 2
  PROVE  Data(p) \in Seq(S) /\ Len(Data(p)) = Len(p) - 2 /\ \A i \in 1 .. Len(p) - 2 : Data(p)[i] = p[i + 2]
<1>1. Len(p) \in Nat /\ 3 \in Int /\ Len(p) \in Int /\ \A i \in 3 .. Len(p) : p[i] \in S
  BY LenProperties, ElementOfSeq
<1>2. /\ Data(p) \in Seq(S)
      /\ Len(Data(p)) = IF 3 <= Len(p) THEN Len(p) - 3 + 1 ELSE 0
      /\ \A i \in 1 .. Len(p) - 3 + 1 : Data(p)[i] = p[3 + i - 1]
  BY <1>1, SubSeqProperties DEF Data
<1>3. Len(Data(p)) = Len(p) - 2 /\ Len(p) - 3 + 1 = Len(p) - 2
  <2> DEFINE n == Len(p)
             m == Len(Data(p))
  <2>1. n \in Nat /\ n >= 2 /\ m = IF 3 <= n THEN n - 3 + 1 ELSE 0
    BY <1>1, <1>2
  <2> HIDE DEF n, m
  <2>2. m = n - 2 /\ n - 3 + 1 = n - 2
    BY <2>1
  <2> QED BY <2>2 DEF n, m
<1>4. \A i \in 1 .. Len(p) - 2 : 3 + i - 1 = i + 2
  BY <1>1
<1> QED BY <1>2, <1>3, <1>4

-----------------------------------------------------------------------------
\* What the three kinds of payload say of themselves, and which bytes they hold.
LEMMA WholeCarries ==
  ASSUME NEW b, NEW v \in 2 .. MaxFrame + 1, \A i \in 1 .. v - 1 : b[i] = Nal(i)
  PROVE  Whole(b, v).bytes = [i \in 1 .. v - 1 |-> Nal(i)] /\ Whole(b, v).next = v
<1>1. Whole(b, v).bytes = Slice(b, 1, v - 1) /\ Whole(b, v).next = v
  BY DEF Whole, Payload
<1>2. \A i \in 1 .. v - 1 : b[1 + i - 1] = Nal(i)
  <2>1. \A i \in 1 .. v - 1 : 1 + i - 1 = i
    BY SizeAssumption
  <2> QED BY <2>1
<1>3. Slice(b, 1, v - 1) = [i \in 1 .. v - 1 |-> Nal(i)]
  BY <1>2 DEF Slice
<1> QED BY <1>1, <1>3

LEMMA FirstCarries ==
  ASSUME NEW b \in [0 .. MaxFrame -> Bytes], NEW v \in 2 .. MaxFrame + 1,
         v - 1 > fMaxOutputPacketSize, \A i \in 1 .. v - 1 : b[i] = Nal(i),
         NEW p, p = FirstFragment(b, v)
  PROVE  /\ p.next = fMaxOutputPacketSize
         /\ p.bytes \in Seq(Bytes) /\ Len(p.bytes) = fMaxOutputPacketSize
         /\ p.bytes[1] = Indicator /\ p.bytes[2] = FuHeader({"S"})
         /\ \A i \in 1 .. fMaxOutputPacketSize - 2 : p.bytes[i + 2] = Nal(i + 1)
<1> DEFINE h == [b EXCEPT ![0] = Indicator, ![1] = FuHeader({"S"})]
           F == fMaxOutputPacketSize
<1>1. F \in Nat /\ F >= 4 /\ F <= MaxFrame /\ MaxFrame \in Nat /\ v \in Nat /\ v - 1 > F
  BY SizeAssumption
<1>2. h \in [0 .. MaxFrame -> Bytes]
  BY ByteKinds
<1>3. h[0] = Indicator /\ h[1] = FuHeader({"S"}) /\ \A i \in 2 .. v - 1 : h[i] = Nal(i)
  BY <1>1
<1>4. p.next = F /\ p.bytes = Slice(h, 0, F)
  BY DEF FirstFragment, Payload
<1> HIDE DEF h
<1>5. p.bytes \in Seq(Bytes) /\ Len(p.bytes) = F
  <2>1. 0 \in Nat /\ 0 + F <= MaxFrame + 1
    BY <1>1
  <2>2. Slice(h, 0, F) \in Seq(Bytes) /\ Len(Slice(h, 0, F)) = F
    BY <1>1, <1>2, <2>1, SliceIsSequence
  <2> QED BY <1>4, <2>2
<1>6. \A i \in 1 .. F : p.bytes[i] = h[0 + i - 1]
  BY <1>4 DEF Slice
<1>7. p.bytes[1] = Indicator /\ p.bytes[2] = FuHeader({"S"})
  <2>1. 1 \in 1 .. F /\ 2 \in 1 .. F /\ 0 + 1 - 1 = 0 /\ 0 + 2 - 1 = 1
    BY <1>1
  <2> QED BY <1>3, <1>6, <2>1
<1>8. ASSUME NEW i \in 1 .. F - 2
      PROVE  p.bytes[i + 2] = Nal(i + 1)
  <2>1. i + 2 \in 1 .. F /\ 0 + (i + 2) - 1 = i + 1 /\ i + 1 \in 2 .. v - 1
    BY <1>1
  <2> QED BY <1>3, <1>6, <2>1
<1> QED BY <1>4, <1>5, <1>7, <1>8

\* What p says of itself, and the bytes it holds, as a fragment cut at offset o of a
\* NAL unit that ends at v.
CarriesNext(p, v, o) ==
  /\ p.bytes \in Seq(Bytes) /\ Len(p.bytes) >= 3 /\ p.next = o + Len(p.bytes) - 2 /\ p.next <= v
  /\ p.bytes[1] = Indicator
  /\ p.bytes[2] = FuHeader(IF p.next = v THEN {"E"} ELSE {})
  /\ \A i \in 1 .. Len(p.bytes) - 2 : p.bytes[i + 2] = Nal(o + i - 1)

\* A later fragment holds the bytes that follow, and E when it is the last.
LEMMA NextCarries ==
  ASSUME NEW b \in [0 .. MaxFrame -> Bytes], NEW v \in 2 .. MaxFrame + 1,
         NEW o \in 1 .. v - 1, fMaxOutputPacketSize <= o, Marked(b),
         \A i \in o .. v - 1 : b[i] = Nal(i),
         NEW p, p = NextFragment(b, v, o)
  PROVE  CarriesNext(p, v, o)
<1> DEFINE F      == fMaxOutputPacketSize
           length == IF IsLastFragment(v, o) THEN 2 + (v - o) ELSE F
           bits   == (b[1].bits \ {"S"}) \cup IF IsLastFragment(v, o) THEN {"E"} ELSE {}
           h      == [b EXCEPT ![o - 2] = b[0], ![o - 1] = FuHeader(bits)]
<1>1. /\ F \in Nat /\ F >= 4 /\ MaxFrame \in Nat
      /\ o \in Nat /\ v \in Nat /\ v <= MaxFrame + 1 /\ o < v /\ F <= o
  BY SizeAssumption
<1>2. /\ length \in Nat /\ length >= 3 /\ length <= F /\ length <= 2 + (v - o)
      /\ IsLastFragment(v, o) <=> length = 2 + (v - o)
  BY <1>1 DEF IsLastFragment
<1>3. bits = (IF IsLastFragment(v, o) THEN {"E"} ELSE {}) /\ bits \in SUBSET {"S", "E"}
  BY DEF Marked, FuHeader
<1>4. FuHeader(bits) \in Bytes /\ b[0] \in Bytes /\ b[0] = Indicator
  BY <1>1, <1>3, ByteKinds DEF Marked
<1>5. p.next = o + length - 2 /\ p.bytes = Slice(h, o - 2, length)
  BY DEF NextFragment, Payload
<1> HIDE DEF length, bits
<1>6. h \in [0 .. MaxFrame -> Bytes]
  BY <1>4
<1>7. h[o - 2] = Indicator /\ h[o - 1] = FuHeader(bits) /\ \A i \in o .. v - 1 : h[i] = Nal(i)
  BY <1>1, <1>4
<1> HIDE DEF h
<1>8. p.bytes \in Seq(Bytes) /\ Len(p.bytes) = length
  <2>1. o - 2 \in Nat /\ (o - 2) + length <= MaxFrame + 1
    BY <1>1, <1>2
  <2>2. Slice(h, o - 2, length) \in Seq(Bytes) /\ Len(Slice(h, o - 2, length)) = length
    BY <1>2, <1>6, <2>1, SliceIsSequence
  <2> QED BY <1>5, <2>2
<1>9. \A i \in 1 .. length : p.bytes[i] = h[o - 2 + i - 1]
  BY <1>5 DEF Slice
<1>10. p.next <= v /\ (p.next = v <=> IsLastFragment(v, o))
  BY <1>1, <1>2, <1>5
<1>11. p.bytes[1] = Indicator /\ p.bytes[2] = FuHeader(bits)
  <2>1. 1 \in 1 .. length /\ 2 \in 1 .. length /\ o - 2 + 1 - 1 = o - 2 /\ o - 2 + 2 - 1 = o - 1
    BY <1>1, <1>2
  <2> QED BY <1>7, <1>9, <2>1
<1>12. ASSUME NEW i \in 1 .. length - 2
       PROVE  p.bytes[i + 2] = Nal(o + i - 1)
  <2>1. i + 2 \in 1 .. length /\ o - 2 + (i + 2) - 1 = o + i - 1 /\ o + i - 1 \in o .. v - 1
    BY <1>1, <1>2
  <2> QED BY <1>7, <1>9, <2>1
<1>13. p.bytes[2] = FuHeader(IF p.next = v THEN {"E"} ELSE {})
  BY <1>3, <1>10, <1>11
<1> QED BY <1>2, <1>5, <1>8, <1>10, <1>11, <1>12, <1>13 DEF CarriesNext

\* The sequence of the NAL unit's bytes after its header.
LEMMA BytesInOrder ==
  ASSUME NEW s \in Seq(Bytes), NEW n \in Nat, Len(s) = n, \A i \in 1 .. n : s[i] = Nal(i + 1)
  PROVE  s = [i \in 1 .. n |-> Nal(i + 1)]
<1>1. s = [i \in 1 .. n |-> s[i]]
  OBVIOUS
<1> QED BY <1>1

\* With a NAL unit in the buffer there is a payload of it.
RejoinInv == (valid > 1 => payloads # <<>>) /\ FragmentsRejoin

\* The first payload of a NAL unit, the only one or the first of several.
LEMMA FirstRejoins ==
  ASSUME FInv, NEW b \in [0 .. MaxFrame -> Bytes], NEW v \in 2 .. MaxFrame + 1,
         \A i \in 1 .. v - 1 : b[i] = Nal(i), DeliverPayload(b, v, 1), size' = v - 1
  PROVE  RejoinInv'
<1>1. /\ fMaxOutputPacketSize \in Nat /\ fMaxOutputPacketSize >= 4 /\ v \in Nat /\ v >= 2
  BY SizeAssumption
<1>2. PICK p : p = Cut(b, v, 1)
  OBVIOUS
<1>3. /\ payloads' = Append(<<>>, p.bytes)
      /\ valid' = IF p.next >= v THEN 1 ELSE v
      /\ offset' = IF p.next >= v THEN 1 ELSE p.next
  BY <1>2 DEF DeliverPayload
<1>4. p.bytes \in Seq(Bytes)
  <2>1. 1 \in 1 .. v - 1
    BY <1>1
  <2> QED BY <1>2, <2>1, CutIsGood DEF Good
<1>5. payloads' # <<>> /\ Len(payloads') = 1 /\ payloads'[1] = p.bytes
  BY <1>3, <1>4
<1>6. CASE v - 1 <= fMaxOutputPacketSize
  <2>1. p.bytes = [i \in 1 .. v - 1 |-> Nal(i)] /\ p.next = v
    BY <1>2, <1>6, WholeCarries DEF Cut
  <2>2. valid' = 1
    BY <1>1, <1>3, <2>1
  <2>3. FragmentsRejoin'
    BY <1>5, <2>1, <2>2 DEF FragmentsRejoin
  <2> QED BY <1>5, <2>3 DEF RejoinInv
<1>7. CASE ~(v - 1 <= fMaxOutputPacketSize)
  <2>1. p = FirstFragment(b, v) /\ v - 1 > fMaxOutputPacketSize
    BY <1>1, <1>2, <1>7 DEF Cut
  <2>2. /\ p.next = fMaxOutputPacketSize
        /\ p.bytes \in Seq(Bytes) /\ Len(p.bytes) = fMaxOutputPacketSize
        /\ p.bytes[1] = Indicator /\ p.bytes[2] = FuHeader({"S"})
        /\ \A i \in 1 .. fMaxOutputPacketSize - 2 : p.bytes[i + 2] = Nal(i + 1)
    BY <2>1, FirstCarries
  <2>3. valid' = v /\ offset' = fMaxOutputPacketSize /\ v # 1
    BY <1>1, <1>3, <2>1, <2>2
  <2>4. /\ Data(p.bytes) \in Seq(Bytes) /\ Len(Data(p.bytes)) = fMaxOutputPacketSize - 2
        /\ \A i \in 1 .. fMaxOutputPacketSize - 2 : Data(p.bytes)[i] = Nal(i + 1)
    <3>1. PICK q : q = p.bytes
      OBVIOUS
    <3>2. q \in Seq(Bytes) /\ Len(q) >= 2 /\ Len(q) = fMaxOutputPacketSize
      BY <1>1, <2>2, <3>1
    <3>3. /\ Data(q) \in Seq(Bytes) /\ Len(Data(q)) = Len(q) - 2
          /\ \A i \in 1 .. Len(q) - 2 : Data(q)[i] = q[i + 2]
      BY <3>2, DataOf
    <3>4. \A i \in 1 .. fMaxOutputPacketSize - 2 : Data(q)[i] = Nal(i + 1)
      BY <2>2, <3>1, <3>2, <3>3
    <3> QED BY <3>1, <3>2, <3>3, <3>4
  <2>5. Joined(payloads') = Data(p.bytes)
    <3>1. <<>> \in Seq(Seq(Bytes))
      OBVIOUS
    <3>2. Joined(Append(<<>>, p.bytes)) = Joined(<<>>) \o Data(p.bytes)
      BY <1>4, <3>1, JoinedAppend
    <3>3. <<>> \o Data(p.bytes) = Data(p.bytes)
      BY <2>4, ConcatEmptySeq
    <3> QED BY <1>3, <3>2, <3>3, JoinedNothing
  <2>6. Joined(payloads') = [i \in 1 .. fMaxOutputPacketSize - 2 |-> Nal(i + 1)]
    <3>1. fMaxOutputPacketSize - 2 \in Nat
      BY <1>1
    <3> QED BY <2>4, <2>5, <3>1, BytesInOrder
  <2>7. fMaxOutputPacketSize - 2 = offset' - 1 - 1
    BY <1>1, <2>3
  <2>8. \A k \in 1 .. Len(payloads') :
          /\ payloads'[k][1] = Indicator
          /\ payloads'[k][2] = FuHeader(IF k = 1 THEN {"S"}
                                        ELSE IF k = Len(payloads') /\ valid' = 1 THEN {"E"} ELSE {})
    <3>1. \A k \in 1 .. 1 : k = 1
      OBVIOUS
    <3> QED BY <1>5, <2>2, <3>1
  <2>9. FragmentsRejoin'
    BY <2>3, <2>6, <2>7, <2>8 DEF FragmentsRejoin
  <2> QED BY <1>5, <2>9 DEF RejoinInv
<1> QED BY <1>6, <1>7

\* A later fragment, whose data follows on from what the ones before it held.
LEMMA NextRejoins ==
  ASSUME FInv, RejoinInv, valid > 1, DeliverPayload(buffer, valid, offset), UNCHANGED size
  PROVE  RejoinInv'
<1>1. /\ fMaxOutputPacketSize \in Nat /\ fMaxOutputPacketSize >= 4 /\ MaxFrame \in Nat
      /\ valid \in 2 .. MaxFrame + 1 /\ offset \in 1 .. valid - 1 /\ size = valid - 1
      /\ fMaxOutputPacketSize <= offset /\ Marked(buffer) /\ offset # 1
      /\ \A i \in offset .. valid - 1 : buffer[i] = Nal(i)
      /\ buffer \in [0 .. MaxFrame -> Bytes] /\ payloads \in Seq(Seq(Bytes)) /\ valid # 1
  BY SizeAssumption DEF FInv, TypeOK, OffsetsInvariant, Marked
<1>2. PICK p : p = NextFragment(buffer, valid, offset)
  OBVIOUS
<1>3. PICK v : v = valid
  OBVIOUS
<1>4. PICK o : o = offset
  OBVIOUS
<1>5. /\ payloads' = Append(payloads, p.bytes)
      /\ valid' = IF p.next >= v THEN 1 ELSE v
      /\ offset' = IF p.next >= v THEN 1 ELSE p.next
  BY <1>1, <1>2, <1>3, <1>4 DEF DeliverPayload, Cut
<1>6. /\ p.bytes \in Seq(Bytes) /\ Len(p.bytes) >= 3 /\ p.next = o + Len(p.bytes) - 2 /\ p.next <= v
      /\ p.bytes[1] = Indicator
      /\ p.bytes[2] = FuHeader(IF p.next = v THEN {"E"} ELSE {})
      /\ \A i \in 1 .. Len(p.bytes) - 2 : p.bytes[i + 2] = Nal(o + i - 1)
  <2>1. /\ buffer \in [0 .. MaxFrame -> Bytes] /\ v \in 2 .. MaxFrame + 1 /\ o \in 1 .. v - 1
        /\ fMaxOutputPacketSize <= o /\ Marked(buffer) /\ p = NextFragment(buffer, v, o)
    BY <1>1, <1>2, <1>3, <1>4
  <2>2. \A i \in o .. v - 1 : buffer[i] = Nal(i)
    BY <1>1, <1>3, <1>4
  <2>3. PICK b : b = buffer
    OBVIOUS
  <2>4. /\ b \in [0 .. MaxFrame -> Bytes] /\ Marked(b) /\ p = NextFragment(b, v, o)
        /\ \A i \in o .. v - 1 : b[i] = Nal(i)
    BY <2>1, <2>2, <2>3
  <2>5. CarriesNext(p, v, o)
    BY <2>1, <2>4, NextCarries
  <2> QED BY <2>5 DEF CarriesNext
<1> DEFINE L == Len(payloads)
           n == Len(p.bytes) - 2
<1>7. /\ L \in Nat /\ L # 0 /\ payloads # <<>> /\ Len(payloads') = L + 1 /\ payloads'[L + 1] = p.bytes
      /\ \A k \in 1 .. L : payloads'[k] = payloads[k]
  <2>1. payloads # <<>>
    BY DEF RejoinInv
  <2>2. L \in Nat /\ L # 0
    BY <1>1, <2>1
  <2> QED BY <1>1, <1>5, <1>6, <2>1, <2>2, AppendProperties
<1>8. n \in Nat /\ n >= 1 /\ o \in Nat /\ v \in Nat /\ o >= 4 /\ o < v /\ o - 2 \in Nat
  BY <1>1, <1>3, <1>4, <1>6, LenProperties
<1>9. /\ valid' = 1 <=> p.next = v
      /\ (IF valid' = 1 THEN size ELSE offset' - 1) - 1 = (o - 2) + n
  <2>1. p.next = o + n
    BY <1>6, <1>8
  <2> HIDE DEF n
  <2>2. size = v - 1 /\ p.next <= v
    BY <1>1, <1>3, <1>6
  <2>3. CASE p.next = v
    BY <1>5, <1>8, <2>1, <2>2, <2>3
  <2>4. CASE p.next < v
    BY <1>5, <1>8, <2>1, <2>2, <2>4
  <2> QED BY <1>8, <2>1, <2>2, <2>3, <2>4
<1>10. /\ \A k \in 1 .. L :
            /\ payloads[k][1] = Indicator
            /\ payloads[k][2] = FuHeader(IF k = 1 THEN {"S"} ELSE {})
       /\ Joined(payloads) = [i \in 1 .. o - 1 - 1 |-> Nal(i + 1)]
  BY <1>1, <1>4, <1>7 DEF RejoinInv, FragmentsRejoin
<1>11. \A k \in 1 .. L + 1 :
         /\ payloads'[k][1] = Indicator
         /\ payloads'[k][2] = FuHeader(IF k = 1 THEN {"S"}
                                       ELSE IF k = L + 1 /\ valid' = 1 THEN {"E"} ELSE {})
  <2> SUFFICES ASSUME NEW k \in 1 .. L + 1
               PROVE  /\ payloads'[k][1] = Indicator
                      /\ payloads'[k][2] = FuHeader(IF k = 1 THEN {"S"}
                                                    ELSE IF k = L + 1 /\ valid' = 1 THEN {"E"} ELSE {})
    OBVIOUS
  <2>1. CASE k \in 1 .. L
    <3>1. k # L + 1 /\ payloads'[k] = payloads[k]
      BY <1>7, <2>1
    <3> QED BY <1>10, <2>1, <3>1
  <2>2. CASE k = L + 1
    <3>1. k # 1 /\ payloads'[k] = p.bytes
      BY <1>7, <2>2
    <3> QED BY <1>6, <1>9, <2>2, <3>1
  <2> QED BY <1>7, <2>1, <2>2
<1>12. Joined(payloads') = [i \in 1 .. (o - 2) + n |-> Nal(i + 1)]
  <2>1. /\ Data(p.bytes) \in Seq(Bytes) /\ Len(Data(p.bytes)) = n
        /\ \A i \in 1 .. n : Data(p.bytes)[i] = Nal(o + i - 1)
    <3>1. Len(p.bytes) >= 2
      BY <1>6, <1>8
    <3>2. /\ Data(p.bytes) \in Seq(Bytes) /\ Len(Data(p.bytes)) = n
          /\ \A i \in 1 .. n : Data(p.bytes)[i] = p.bytes[i + 2]
      BY <1>6, <3>1, DataOf
    <3> QED BY <1>6, <3>2
  <2>2. Joined(payloads') = Joined(payloads) \o Data(p.bytes)
    BY <1>1, <1>5, <1>6, JoinedAppend
  <2>3. PICK j : j = Joined(payloads)
    OBVIOUS
  <2>4. PICK d : d = Data(p.bytes)
    OBVIOUS
  <2>5. j \in Seq(Bytes) /\ Len(j) = o - 2 /\ \A i \in 1 .. o - 2 : j[i] = Nal(i + 1)
    <3>1. o - 1 - 1 = o - 2
      BY <1>8
    <3>2. j = [i \in 1 .. o - 2 |-> Nal(i + 1)]
      BY <1>10, <2>3, <3>1
    <3>3. \A i \in 1 .. o - 2 : i + 1 \in 0 .. MaxFrame
      BY <1>1, <1>3, <1>8
    <3>4. \A i \in 1 .. o - 2 : Nal(i + 1) \in Bytes
      BY <3>3, ByteKinds
    <3>5. j \in [1 .. o - 2 -> Bytes]
      BY <3>2, <3>4
    <3>6. j \in Seq(Bytes)
      BY <1>8, <3>5, SeqDef
    <3>7. Len(j) = o - 2
      <4>1. DOMAIN j = 1 .. Len(j) /\ Len(j) \in Nat /\ DOMAIN j = 1 .. o - 2
        BY <3>5, <3>6, LenProperties
      <4> QED BY <1>8, <4>1
    <3> QED BY <3>2, <3>6, <3>7
  <2>6. /\ j \o d \in Seq(Bytes) /\ Len(j \o d) = Len(j) + Len(d)
        /\ \A i \in 1 .. Len(j) + Len(d) : (j \o d)[i] = IF i <= Len(j) THEN j[i] ELSE d[i - Len(j)]
    BY <2>1, <2>4, <2>5, ConcatProperties
  <2> HIDE DEF n
  <2>7. (o - 2) + n \in Nat /\ Len(j \o d) = (o - 2) + n
    BY <1>8, <2>1, <2>4, <2>5, <2>6
  <2>8. ASSUME NEW i \in 1 .. (o - 2) + n
        PROVE  (j \o d)[i] = Nal(i + 1)
    <3>1. (j \o d)[i] = IF i <= o - 2 THEN j[i] ELSE d[i - (o - 2)]
      BY <2>1, <2>4, <2>5, <2>6
    <3>2. CASE i <= o - 2
      <4>1. i \in 1 .. o - 2
        BY <1>8, <3>2
      <4> QED BY <2>5, <3>1, <3>2, <4>1
    <3>3. CASE ~(i <= o - 2)
      <4>1. i - (o - 2) \in 1 .. n /\ o + (i - (o - 2)) - 1 = i + 1
        BY <1>8, <3>3
      <4>2. d[i - (o - 2)] = Nal(o + (i - (o - 2)) - 1)
        BY <2>1, <2>4, <4>1
      <4> QED BY <3>1, <3>3, <4>1, <4>2
    <3> QED BY <3>2, <3>3
  <2>9. j \o d = [i \in 1 .. (o - 2) + n |-> Nal(i + 1)]
    BY <2>6, <2>7, <2>8, BytesInOrder
  <2> QED BY <2>2, <2>3, <2>4, <2>9
<1>13. L + 1 # 1 /\ payloads' # <<>>
  BY <1>5, <1>7
<1>14. FragmentsRejoin'
  <2> HIDE DEF L, n
  <2> QED BY <1>7, <1>9, <1>11, <1>12, <1>13 DEF FragmentsRejoin
<1> QED BY <1>13, <1>14 DEF RejoinInv

LEMMA RejoinStep ==
  ASSUME FInv, RejoinInv, [Next]_vars
  PROVE  RejoinInv'
<1>1. CASE AskSource \/ UNCHANGED vars
  BY <1>1 DEF AskSource, vars, bufferVars, RejoinInv, FragmentsRejoin
<1>2. CASE AskForMore
  BY <1>2, NextRejoins DEF AskForMore
<1>3. ASSUME NEW n \in 1 .. MaxFrame, SourceDelivers(n) PROVE RejoinInv'
  <2> DEFINE filled == [i \in 0 .. MaxFrame |-> IF i \in 1 .. n THEN Nal(i) ELSE buffer[i]]
  <2>1. filled \in [0 .. MaxFrame -> Bytes]
    BY ByteKinds DEF FInv, TypeOK
  <2>2. 1 + n \in 2 .. MaxFrame + 1 /\ (1 + n) - 1 = n
    BY SizeAssumption
  <2>3. \A i \in 1 .. n : filled[i] = Nal(i)
    BY SizeAssumption
  <2>4. DeliverPayload(filled, 1 + n, 1) /\ size' = n
    BY <1>3 DEF SourceDelivers
  <2> HIDE DEF filled
  <2> QED BY <2>1, <2>2, <2>3, <2>4, FirstRejoins
<1>4. CASE StopGettingFrames
  BY <1>4 DEF StopGettingFrames, RejoinInv, FragmentsRejoin
<1> QED BY <1>1, <1>2, <1>3, <1>4 DEF Next

\* What the sink is given of a NAL unit, for every size of unit and payload, is the
\* unit itself, or fragments that start and end as their headers say and whose data
\* are its bytes in their order, none lost to the header written in place.
THEOREM FragmentsAreTheUnit == Spec => []FragmentsRejoin
<1>1. Init => RejoinInv
  BY DEF Init, RejoinInv, FragmentsRejoin
<1>2. FInv /\ RejoinInv /\ [Next]_vars => RejoinInv'
  BY RejoinStep
<1>3. RejoinInv => FragmentsRejoin
  BY DEF RejoinInv
<1> QED BY FragmenterInit, FragmenterInductive, <1>1, <1>2, <1>3, PTL DEF Spec
=============================================================================
