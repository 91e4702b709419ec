-------------------------- MODULE DelayQueueProofs --------------------------
(***************************************************************************)
(* Proofs about DelayQueue, for every set of delays and every bound.       *)
(*                                                                         *)
(* Ahead is defined by recursion on the place in the list.  What it gives  *)
(* for a list of any length is proved by least counterexample: a set of    *)
(* numbers that is not empty has a smallest one.                           *)
(***************************************************************************)
EXTENDS DelayQueue, FiniteSetTheorems, SequenceTheorems, WellFoundedInduction, TLAPS

Lists(T) == Seq([token : T, delta : Nat])

-----------------------------------------------------------------------------
(* Numbers and sums.                                                       *)

\* A set of natural numbers that is not empty has a smallest one.
LEMMA SmallestNumber ==
  ASSUME NEW N \in SUBSET Nat, N # {}
  PROVE  \E n \in N : \A m \in N : n <= m
  <1>1. PICK n \in N : \A m \in N : <<m, n>> \notin OpToRel(<, Nat)
    BY WFMin, NatLessThanWellFounded
  <1>2. ASSUME NEW m \in N PROVE n <= m
    <2>1. m \in Nat /\ n \in Nat
      OBVIOUS
    <2>2. ~(m < n)
      BY <1>1, <2>1 DEF OpToRel
    <2>3. QED BY <2>1, <2>2
  <1>3. QED BY <1>2

\* The sums of the first deltas exist for a list of any length.
LEMMA SumsExist ==
  ASSUME NEW q, NEW n \in Nat
  PROVE  \E f : f = [j \in 0 .. n |-> IF j = 0 THEN 0 ELSE f[j - 1] + q[j].delta]
  <1> DEFINE Sums(f, k) == f = [j \in 0 .. k |-> IF j = 0 THEN 0 ELSE f[j - 1] + q[j].delta]
             N == {k \in Nat : ~\E f : Sums(f, k)}
  <1>1. SUFFICES ASSUME N # {} PROVE FALSE
    OBVIOUS
  <1>2. PICK k \in N : \A m \in N : k <= m
    BY <1>1, SmallestNumber
  <1>3. CASE k = 0
    <2> DEFINE f == [j \in 0 .. k |-> 0]
    <2>1. \A j \in 0 .. k : f[j] = IF j = 0 THEN 0 ELSE f[j - 1] + q[j].delta
      BY <1>3
    <2>2. f = [j \in 0 .. k |-> f[j]]
      OBVIOUS
    <2> HIDE DEF f
    <2>3. f = [j \in 0 .. k |-> IF j = 0 THEN 0 ELSE f[j - 1] + q[j].delta]
      BY <2>1, <2>2
    <2>4. Sums(f, k)
      BY <2>3
    <2> HIDE DEF Sums
    <2>5. QED BY <1>2, <2>4
  <1>4. CASE k # 0
    <2>1. k - 1 \in Nat /\ k \in Nat /\ k - 1 \notin N
      <3>1. k \in Nat /\ k - 1 \in Nat /\ ~(k <= k - 1)
        BY <1>2, <1>4
      <3> HIDE DEF N
      <3>2. QED BY <1>2, <3>1
    <2>2. PICK f : Sums(f, k - 1)
      BY <2>1
    <2> DEFINE g == [j \in 0 .. k |-> IF j = k THEN f[k - 1] + q[k].delta ELSE f[j]]
    <2>3. ASSUME NEW j \in 0 .. k
          PROVE  g[j] = IF j = 0 THEN 0 ELSE g[j - 1] + q[j].delta
      <3>1. CASE j = k
        <4>1. k - 1 \in 0 .. k /\ k - 1 # k
          BY <2>1
        <4>2. g[j] = f[k - 1] + q[k].delta /\ g[j - 1] = f[k - 1]
          BY <3>1, <4>1
        <4>3. QED BY <1>4, <3>1, <4>2
      <3>2. CASE j = 0
        <4>1. j \in 0 .. k - 1 /\ j # k
          BY <1>4, <2>1, <3>2
        <4>2. f[j] = 0
          BY <2>2, <3>2, <4>1
        <4>3. QED BY <3>2, <4>1, <4>2
      <3>3. CASE j # k /\ j # 0
        <4>1. j \in 0 .. k - 1 /\ j - 1 \in 0 .. k /\ j - 1 # k
          BY <2>1, <3>3
        <4>2. f[j] = f[j - 1] + q[j].delta
          BY <2>2, <3>3, <4>1
        <4>3. g[j] = f[j] /\ g[j - 1] = f[j - 1]
          BY <3>3, <4>1
        <4>4. QED BY <3>3, <4>2, <4>3
      <3>4. QED BY <3>1, <3>2, <3>3
    <2>4. DOMAIN g = 0 .. k /\ g = [j \in 0 .. k |-> g[j]]
      OBVIOUS
    <2> HIDE DEF g
    <2>5. g = [j \in 0 .. k |-> IF j = 0 THEN 0 ELSE g[j - 1] + q[j].delta]
      BY <2>3, <2>4
    <2>6. Sums(g, k)
      BY <2>5
    <2> HIDE DEF Sums
    <2>7. QED BY <1>2, <2>6
  <1>5. QED BY <1>3, <1>4

\* The parts of a list and of its entries.
LEMMA EntryTyped ==
  ASSUME NEW T, NEW q \in Lists(T)
  PROVE  /\ Len(q) \in Nat /\ DOMAIN q = 1 .. Len(q)
         /\ \A i \in 1 .. Len(q) : q[i].token \in T /\ q[i].delta \in Nat
  <1>1. \A i \in 1 .. Len(q) : q[i] \in [token : T, delta : Nat]
    BY ElementOfSeq DEF Lists
  <1>2. Len(q) \in Nat /\ DOMAIN q = 1 .. Len(q)
    BY LenProperties DEF Lists
  <1>3. QED BY <1>1, <1>2

\* Ahead is the sum of the deltas up to a place, and a natural number.
LEMMA AheadSteps ==
  ASSUME NEW T, NEW q \in Lists(T)
  PROVE  /\ Ahead(q, 0) = 0
         /\ \A i \in 1 .. Len(q) : Ahead(q, i) = Ahead(q, i - 1) + q[i].delta
  <1> DEFINE n == Len(q)
             Sums(f) == f = [j \in 0 .. n |-> IF j = 0 THEN 0 ELSE f[j - 1] + q[j].delta]
             sum == CHOOSE f : Sums(f)
  <1>1. n \in Nat
    BY EntryTyped
  <1>2. \E f : Sums(f)
    BY <1>1, SumsExist
  <1>3. Sums(sum)
    BY <1>2
  <1>4. \A i : Ahead(q, i) = sum[i]
    BY DEF Ahead
  <1> HIDE DEF sum
  <1>5. sum[0] = 0 /\ \A i \in 1 .. n : sum[i] = sum[i - 1] + q[i].delta
    BY <1>1, <1>3
  <1>6. QED BY <1>4, <1>5

\* Ahead is the only function of the place with these steps.
LEMMA AheadIs ==
  ASSUME NEW T, NEW q \in Lists(T), NEW f, f[0] = 0,
         \A i \in 1 .. Len(q) : f[i] = f[i - 1] + q[i].delta
  PROVE  \A i \in 0 .. Len(q) : Ahead(q, i) = f[i]
  <1> DEFINE N == {i \in 0 .. Len(q) : Ahead(q, i) # f[i]}
  <1>0. Len(q) \in Nat
    BY EntryTyped
  <1>1. SUFFICES ASSUME N # {} PROVE FALSE
    OBVIOUS
  <1>2. PICK i \in N : \A m \in N : i <= m
    <2>1. N \in SUBSET Nat
      BY <1>0
    <2> HIDE DEF N
    <2>2. QED BY <1>1, <2>1, SmallestNumber
  <1>3. i \in 1 .. Len(q) /\ i - 1 \in 0 .. Len(q)
    BY <1>0, <1>2, AheadSteps
  <1>4. Ahead(q, i - 1) = f[i - 1]
    BY <1>2, <1>3
  <1>5. QED BY <1>2, <1>3, <1>4, AheadSteps

\* What is left until an entry is due is a natural number.
LEMMA AheadTyped ==
  ASSUME NEW T, NEW q \in Lists(T)
  PROVE  \A i \in 0 .. Len(q) : Ahead(q, i) \in Nat
  <1> DEFINE N == {i \in 0 .. Len(q) : Ahead(q, i) \notin Nat}
  <1>0. Len(q) \in Nat /\ \A i \in 1 .. Len(q) : q[i].delta \in Nat
    BY EntryTyped
  <1>1. SUFFICES ASSUME N # {} PROVE FALSE
    OBVIOUS
  <1>2. PICK i \in N : \A m \in N : i <= m
    <2>1. N \in SUBSET Nat
      BY <1>0
    <2> HIDE DEF N
    <2>2. QED BY <1>1, <2>1, SmallestNumber
  <1>3. i \in 1 .. Len(q) /\ i - 1 \in 0 .. Len(q)
    BY <1>0, <1>2, AheadSteps
  <1>4. Ahead(q, i - 1) \in Nat
    BY <1>2, <1>3
  <1>5. QED BY <1>0, <1>2, <1>3, <1>4, AheadSteps

\* No entry is due before one that stands ahead of it.
LEMMA AheadGrows ==
  ASSUME NEW T, NEW q \in Lists(T), NEW i \in 0 .. Len(q)
  PROVE  \A j \in i .. Len(q) : Ahead(q, i) <= Ahead(q, j)
  <1> DEFINE N == {j \in i .. Len(q) : ~(Ahead(q, i) <= Ahead(q, j))}
  <1>0. Len(q) \in Nat /\ \A j \in 1 .. Len(q) : q[j].delta \in Nat
    BY EntryTyped
  <1>1. SUFFICES ASSUME N # {} PROVE FALSE
    OBVIOUS
  <1>2. PICK j \in N : \A m \in N : j <= m
    <2>1. N \in SUBSET Nat
      BY <1>0
    <2> HIDE DEF N
    <2>2. QED BY <1>1, <2>1, SmallestNumber
  <1>3. Ahead(q, i) \in Nat /\ j # i
    BY <1>2, AheadTyped
  <1>4. j \in 1 .. Len(q) /\ j - 1 \in i .. Len(q) /\ j - 1 \in 0 .. Len(q)
    BY <1>0, <1>2, <1>3
  <1>5. Ahead(q, i) <= Ahead(q, j - 1) /\ Ahead(q, j - 1) \in Nat
    BY <1>2, <1>4, AheadTyped
  <1>6. QED BY <1>0, <1>2, <1>3, <1>4, <1>5, AheadSteps

-----------------------------------------------------------------------------
(* The calls on the list.                                                  *)

\* Time that passes is taken from every entry, down to nothing.
LEMMA ConsumeFacts ==
  ASSUME NEW T, NEW q \in Lists(T), NEW passed \in Nat
  PROVE  LET r == Consume(q, passed)
         IN /\ r \in Lists(T) /\ Len(r) = Len(q)
            /\ \A i \in 1 .. Len(q) :
                 /\ r[i].token = q[i].token
                 /\ Ahead(r, i) = IF Ahead(q, i) > passed THEN Ahead(q, i) - passed ELSE 0
  <1> DEFINE r == Consume(q, passed)
             Left(i) == passed - Ahead(q, i - 1)
             New(i) == IF Left(i) <= 0 THEN q[i].delta
                       ELSE IF Left(i) >= q[i].delta THEN 0 ELSE q[i].delta - Left(i)
             f == [i \in 0 .. Len(q) |->
                     IF Ahead(q, i) > passed THEN Ahead(q, i) - passed ELSE 0]
  <1>1. Len(q) \in Nat /\ DOMAIN q = 1 .. Len(q)
        /\ \A i \in 1 .. Len(q) : q[i] \in [token : T, delta : Nat]
    BY EntryTyped, ElementOfSeq DEF Lists
  <1>2. \A i \in 1 .. Len(q) :
          /\ i - 1 \in 0 .. Len(q) /\ Ahead(q, i - 1) \in Nat /\ Ahead(q, i) \in Nat
          /\ Ahead(q, i) = Ahead(q, i - 1) + q[i].delta
    BY <1>1, AheadTyped, AheadSteps
  <1>3. ASSUME NEW i \in 1 .. Len(q)
        PROVE  /\ r[i] = [q[i] EXCEPT !.delta = New(i)]
               /\ New(i) \in Nat
    BY <1>1, <1>2 DEF Consume
  <1>4. ASSUME NEW i \in 1 .. Len(q)
        PROVE  r[i] \in [token : T, delta : Nat] /\ r[i].token = q[i].token /\ r[i].delta = New(i)
    <2> HIDE DEF r, New
    <2>1. QED BY <1>1, <1>3
  <1>5. r \in [1 .. Len(q) -> [token : T, delta : Nat]]
    <2>1. r = [i \in 1 .. Len(q) |-> r[i]]
      BY <1>1 DEF Consume
    <2> HIDE DEF r
    <2>2. QED BY <1>4, <2>1
  <1>6. r \in Lists(T) /\ Len(r) = Len(q)
    <2> HIDE DEF r
    <2>1. QED BY <1>1, <1>5 DEF Lists
  <1>7. f[0] = 0
    BY <1>1, AheadSteps
  <1>8. ASSUME NEW i \in 1 .. Len(r) PROVE f[i] = f[i - 1] + r[i].delta
    <2>1. i \in 1 .. Len(q) /\ i \in 0 .. Len(q) /\ i - 1 \in 0 .. Len(q)
      BY <1>1, <1>6
    <2>2. r[i].delta = New(i)
      BY <1>4, <2>1
    <2>3. f[i] = (IF Ahead(q, i) > passed THEN Ahead(q, i) - passed ELSE 0)
          /\ f[i - 1] = IF Ahead(q, i - 1) > passed THEN Ahead(q, i - 1) - passed ELSE 0
      BY <2>1
    <2>4. q[i].delta \in Nat
      BY <1>1, <2>1
    <2>5. Ahead(q, i - 1) \in Nat /\ Ahead(q, i) = Ahead(q, i - 1) + q[i].delta
      BY <1>2, <2>1
    <2> HIDE DEF r, f
    <2>6. CASE Left(i) <= 0
      <3>1. New(i) = q[i].delta /\ ~(Ahead(q, i - 1) < passed)
        BY <2>4, <2>5, <2>6
      <3> HIDE DEF New, Left
      <3>2. QED BY <2>2, <2>3, <2>4, <2>5, <3>1
    <2>7. CASE ~(Left(i) <= 0) /\ Left(i) >= q[i].delta
      <3>1. New(i) = 0 /\ ~(Ahead(q, i) > passed) /\ ~(Ahead(q, i - 1) > passed)
        BY <2>4, <2>5, <2>7
      <3> HIDE DEF New, Left
      <3>2. QED BY <2>2, <2>3, <2>4, <2>5, <3>1
    <2>8. CASE ~(Left(i) <= 0) /\ ~(Left(i) >= q[i].delta)
      <3>1. New(i) = q[i].delta - (passed - Ahead(q, i - 1)) /\ Ahead(q, i) > passed
            /\ ~(Ahead(q, i - 1) > passed)
        BY <2>4, <2>5, <2>8
      <3> HIDE DEF New, Left
      <3>2. QED BY <2>2, <2>3, <2>4, <2>5, <3>1
    <2>9. QED BY <2>6, <2>7, <2>8
  <1>9. \A i \in 0 .. Len(r) : Ahead(r, i) = f[i]
    <2> HIDE DEF r, f
    <2>1. QED BY <1>6, <1>7, <1>8, AheadIs
  <1>10. ASSUME NEW i \in 1 .. Len(q)
         PROVE  Ahead(r, i) = IF Ahead(q, i) > passed THEN Ahead(q, i) - passed ELSE 0
    <2>1. i \in 0 .. Len(r) /\ i \in 0 .. Len(q)
      BY <1>1, <1>6
    <2> HIDE DEF r
    <2>2. QED BY <1>9, <2>1
  <1> HIDE DEF r
  <1>11. QED BY <1>4, <1>6, <1>10 DEF r

\* Putting e into a list at place p moves the entries from p on by one.
LEMMA EntryInserted ==
  ASSUME NEW S, NEW h \in Seq(S), NEW p \in 1 .. Len(h) + 1, NEW e \in S
  PROVE  LET r == InsertAt(h, p, e)
         IN /\ r \in Seq(S) /\ Len(r) = Len(h) + 1
            /\ \A i \in 1 .. Len(h) + 1 :
                 r[i] = IF i < p THEN h[i] ELSE IF i = p THEN e ELSE h[i - 1]
  <1> DEFINE a == SubSeq(h, 1, p - 1)
             b == SubSeq(h, p, Len(h))
             c == a \o <<e>>
  <1>1. p \in 1 .. Len(h) + 1 /\ Len(h) \in Nat
    BY LenProperties
  <1>2. a \in Seq(S) /\ Len(a) = p - 1 /\ \A i \in 1 .. p - 1 : a[i] = h[i]
    BY <1>1, ElementOfSeq, SubSeqProperties
  <1>3. b \in Seq(S) /\ Len(b) = Len(h) - p + 1 /\ \A i \in 1 .. Len(h) - p + 1 : b[i] = h[p + i - 1]
    BY <1>1, ElementOfSeq, SubSeqProperties
  <1> HIDE DEF a, b
  <1>4. <<e>> \in Seq(S) /\ Len(<<e>>) = 1 /\ <<e>>[1] = e
    OBVIOUS
  <1>5. c \in Seq(S) /\ Len(c) = p /\ \A i \in 1 .. p : c[i] = IF i < p THEN h[i] ELSE e
    <2>1. c \in Seq(S) /\ Len(c) = p
      <3>1. c \in Seq(S) /\ Len(c) = Len(a) + Len(<<e>>)
        BY <1>2, <1>4, ConcatProperties
      <3>2. QED BY <1>1, <1>2, <1>4, <3>1
    <2>2. ASSUME NEW i \in 1 .. p PROVE c[i] = IF i < p THEN h[i] ELSE e
      <3>1. c[i] = IF i <= Len(a) THEN a[i] ELSE <<e>>[i - Len(a)]
        <4>1. i \in 1 .. Len(a) + Len(<<e>>)
          BY <1>1, <1>2, <1>4
        <4>2. QED BY <1>2, <1>4, <4>1, ConcatProperties
      <3>2. CASE i < p
        BY <1>1, <1>2, <3>1, <3>2
      <3>3. CASE i = p
        <4>1. i - Len(a) = 1 /\ ~(i <= Len(a))
          BY <1>1, <1>2, <3>3
        <4>2. QED BY <1>4, <3>1, <3>3, <4>1
      <3>4. i < p \/ i = p
        BY <1>1
      <3> HIDE DEF c
      <3>5. QED BY <3>2, <3>3, <3>4
    <2>3. QED BY <2>1, <2>2
  <1> HIDE DEF c
  <1>6. c \o b \in Seq(S) /\ Len(c \o b) = Len(h) + 1
    <2>1. c \o b \in Seq(S) /\ Len(c \o b) = Len(c) + Len(b)
      BY <1>3, <1>5, ConcatProperties
    <2>2. QED BY <1>1, <1>3, <1>5, <2>1
  <1>7. ASSUME NEW i \in 1 .. Len(h) + 1
        PROVE  (c \o b)[i] = IF i < p THEN h[i] ELSE IF i = p THEN e ELSE h[i - 1]
    <2>1. CASE i <= p
      <3>1. (c \o b)[i] = c[i]
        BY <1>1, <1>3, <1>5, <2>1, ConcatProperties
      <3>2. QED BY <1>1, <1>5, <2>1, <3>1
    <2>2. CASE ~(i <= p)
      <3>1. (c \o b)[i] = b[i - p]
        BY <1>1, <1>3, <1>5, <2>2, ConcatProperties
      <3>2. i - p \in 1 .. Len(h) - p + 1 /\ p + (i - p) - 1 = i - 1
        BY <1>1, <2>2
      <3>3. QED BY <1>1, <1>3, <2>2, <3>1, <3>2
    <2>3. QED BY <2>1, <2>2
  <1>8. InsertAt(h, p, e) = c \o b
    BY DEF InsertAt, a, b, c
  <1>9. QED BY <1>6, <1>7, <1>8

\* Taking the entry at p out of a list moves the later ones by one.
LEMMA EntryRemoved ==
  ASSUME NEW S, NEW h \in Seq(S), NEW p \in 1 .. Len(h)
  PROVE  LET r == RemoveAt(h, p)
         IN /\ r \in Seq(S) /\ Len(r) = Len(h) - 1
            /\ \A i \in 1 .. Len(h) - 1 : r[i] = IF i < p THEN h[i] ELSE h[i + 1]
  <1> DEFINE a == SubSeq(h, 1, p - 1)
             b == SubSeq(h, p + 1, Len(h))
  <1>1. p \in 1 .. Len(h) /\ Len(h) \in Nat
    BY LenProperties
  <1>2. a \in Seq(S) /\ Len(a) = p - 1 /\ \A i \in 1 .. p - 1 : a[i] = h[i]
    BY <1>1, ElementOfSeq, SubSeqProperties
  <1>3. b \in Seq(S) /\ Len(b) = Len(h) - p /\ \A i \in 1 .. Len(h) - p : b[i] = h[p + i]
    BY <1>1, ElementOfSeq, SubSeqProperties
  <1> HIDE DEF a, b
  <1>4. a \o b \in Seq(S) /\ Len(a \o b) = Len(h) - 1
    <2>1. a \o b \in Seq(S) /\ Len(a \o b) = Len(a) + Len(b)
      BY <1>2, <1>3, ConcatProperties
    <2>2. QED BY <1>1, <1>2, <1>3, <2>1
  <1>5. ASSUME NEW i \in 1 .. Len(h) - 1
        PROVE  (a \o b)[i] = IF i < p THEN h[i] ELSE h[i + 1]
    <2>1. CASE i < p
      BY <1>1, <1>2, <1>3, <2>1, ConcatProperties
    <2>2. CASE ~(i < p)
      <3>1. (a \o b)[i] = b[i - (p - 1)]
        BY <1>1, <1>2, <1>3, <2>2, ConcatProperties
      <3>2. i - (p - 1) \in 1 .. Len(h) - p /\ p + (i - (p - 1)) = i + 1
        BY <1>1, <2>2
      <3>3. QED BY <1>3, <2>2, <3>1, <3>2
    <2>3. QED BY <2>1, <2>2
  <1>6. QED BY <1>4, <1>5 DEF RemoveAt, a, b

\* r is q with a new entry at p, behind those that are due no later: each entry
\* stays as far from being due as it was, and the new one is due after d.
StandsAt(p, r, q, t, d) ==
  /\ Len(r) = Len(q) + 1
  /\ \A i \in 1 .. Len(q) : Ahead(q, i) <= d <=> i < p
  /\ \A i \in 1 .. Len(q) + 1 :
       /\ r[i].token = IF i < p THEN q[i].token ELSE IF i = p THEN t ELSE q[i - 1].token
       /\ Ahead(r, i) = IF i < p THEN Ahead(q, i) ELSE IF i = p THEN d ELSE Ahead(q, i - 1)

LEMMA InsertedFacts ==
  ASSUME NEW T, NEW q \in Lists(T), NEW t \in T, NEW d \in Nat,
         NEW r, r = Inserted(q, t, d)
  PROVE  r \in Lists(T) /\ \E p \in 1 .. Len(q) + 1 : StandsAt(p, r, q, t, d)
  <1> DEFINE E == [token : T, delta : Nat]
             N == {i \in 1 .. Len(q) + 1 : i = Len(q) + 1 \/ Ahead(q, i) > d}
  <1>1. /\ q \in Seq(E) /\ Len(q) \in Nat /\ DOMAIN q = 1 .. Len(q)
        /\ \A i \in 1 .. Len(q) : q[i] \in E /\ q[i].token \in T /\ q[i].delta \in Nat
    BY EntryTyped, ElementOfSeq DEF Lists
  <1>2. /\ Ahead(q, 0) = 0
        /\ \A i \in 0 .. Len(q) : Ahead(q, i) \in Nat
        /\ \A i \in 1 .. Len(q) : Ahead(q, i) = Ahead(q, i - 1) + q[i].delta
    BY AheadTyped, AheadSteps
  <1>3. PICK p \in N : \A i \in N : p <= i
    <2>1. N \in SUBSET Nat /\ Len(q) + 1 \in N
      BY <1>1
    <2> HIDE DEF N
    <2>2. QED BY <2>1, SmallestNumber
  <1>4. p \in 1 .. Len(q) + 1
    OBVIOUS
  <1>5. ASSUME NEW i \in 1 .. Len(q) PROVE Ahead(q, i) <= d <=> i < p
    <2>1. CASE i < p
      <3>1. i \notin N
        BY <1>1, <1>3, <1>4, <2>1
      <3>2. QED BY <1>1, <1>2, <2>1, <3>1
    <2>2. CASE ~(i < p)
      <3>1. p \in 1 .. Len(q) /\ i \in p .. Len(q) /\ p \in 0 .. Len(q) /\ i \in 0 .. Len(q)
        BY <1>1, <1>4, <2>2
      <3>2. Ahead(q, p) > d /\ Ahead(q, p) <= Ahead(q, i)
        BY <1>1, <3>1, AheadGrows
      <3>3. QED BY <1>2, <2>2, <3>1, <3>2
    <2>3. QED BY <2>1, <2>2
  <1> HIDE DEF N
  <1>6. Cardinality({i \in DOMAIN q : Ahead(q, i) <= d}) + 1 = p
    <2> DEFINE before == {i \in DOMAIN q : Ahead(q, i) <= d}
    <2>1. before = 1 .. p - 1
      BY <1>1, <1>4, <1>5
    <2>2. Cardinality(1 .. p - 1) = p - 1
      <3>1. 1 \in Int /\ p - 1 \in Int /\ p \in Nat /\ p >= 1
        BY <1>1, <1>4
      <3>2. Cardinality(1 .. p - 1) = IF 1 > p - 1 THEN 0 ELSE p - 1 - 1 + 1
        BY <3>1, FS_Interval
      <3>3. QED BY <3>1, <3>2
    <2> HIDE DEF before
    <2>3. Cardinality(before) + 1 = p
      BY <1>1, <1>4, <2>1, <2>2
    <2>4. QED BY <2>3 DEF before
  <1> DEFINE delta == d - Ahead(q, p - 1)
             e == [token |-> t, delta |-> delta]
             rest == IF p > Len(q) THEN q ELSE [q EXCEPT ![p].delta = @ - delta]
  <1>7. r = InsertAt(rest, p, e)
    BY <1>6 DEF Inserted
  <1>8. delta \in Nat /\ p - 1 \in 0 .. Len(q) /\ Ahead(q, p - 1) \in Nat
    <2>1. p - 1 \in 0 .. Len(q)
      BY <1>1, <1>4
    <2>2. Ahead(q, p - 1) <= d
      BY <1>1, <1>2, <1>4, <1>5, <2>1
    <2>3. QED BY <1>2, <2>1, <2>2
  <1>9. p <= Len(q) => q[p].delta - delta \in Nat /\ q[p].delta - delta = Ahead(q, p) - d
    <2>1. SUFFICES ASSUME p <= Len(q) PROVE q[p].delta - delta \in Nat /\ q[p].delta - delta = Ahead(q, p) - d
      OBVIOUS
    <2>2. p \in 1 .. Len(q) /\ p \in 0 .. Len(q)
      BY <1>1, <1>4, <2>1
    <2>3. Ahead(q, p) = Ahead(q, p - 1) + q[p].delta /\ ~(Ahead(q, p) <= d)
      BY <1>2, <1>5, <2>2
    <2>4. QED BY <1>1, <1>2, <1>8, <2>2, <2>3
  <1>10. /\ rest \in Seq(E) /\ Len(rest) = Len(q)
         /\ \A i \in 1 .. Len(q) :
              /\ rest[i].token = q[i].token
              /\ rest[i].delta = IF i = p THEN q[p].delta - delta ELSE q[i].delta
    <2>1. CASE p > Len(q)
      BY <1>1, <1>4, <2>1
    <2>2. CASE ~(p > Len(q))
      <3> DEFINE x == [q[p] EXCEPT !.delta = q[p].delta - delta]
      <3>1. p \in 1 .. Len(q)
        BY <1>1, <1>4, <2>2
      <3>2. q[p] \in E /\ q[p].delta - delta \in Nat
        BY <1>1, <1>9, <2>2, <3>1
      <3>3. x \in E /\ x.token = q[p].token /\ x.delta = q[p].delta - delta
        <4> HIDE DEF delta
        <4>1. QED BY <3>2
      <3>4. rest = [q EXCEPT ![p] = x]
        BY <2>2
      <3> HIDE DEF x, rest, E
      <3>5. QED BY <1>1, <3>1, <3>3, <3>4, ExceptSeq
    <2>3. QED BY <2>1, <2>2
  <1>11. e \in E /\ e.token = t /\ e.delta = delta
    <2> HIDE DEF delta
    <2>1. QED BY <1>8
  <1> HIDE DEF E, e, rest
  <1>12. /\ r \in Seq(E) /\ Len(r) = Len(q) + 1
         /\ \A i \in 1 .. Len(q) + 1 :
              r[i] = IF i < p THEN rest[i] ELSE IF i = p THEN e ELSE rest[i - 1]
    <2>1. rest \in Seq(E) /\ p \in 1 .. Len(rest) + 1 /\ e \in E
      BY <1>4, <1>10, <1>11
    <2>2. /\ r \in Seq(E) /\ Len(r) = Len(rest) + 1
          /\ \A i \in 1 .. Len(rest) + 1 :
               r[i] = IF i < p THEN rest[i] ELSE IF i = p THEN e ELSE rest[i - 1]
      BY <1>7, <2>1, EntryInserted
    <2>3. QED BY <1>10, <2>2
  <1> DEFINE f == [i \in 0 .. Len(q) + 1 |-> IF i < p THEN Ahead(q, i)
                                             ELSE IF i = p THEN d ELSE Ahead(q, i - 1)]
  <1>13. r \in Lists(T)
    BY <1>12 DEF Lists, E
  <1>14. ASSUME NEW i \in 1 .. Len(q) + 1
         PROVE  /\ r[i].token = IF i < p THEN q[i].token
                                ELSE IF i = p THEN t ELSE q[i - 1].token
                /\ r[i].delta = IF i < p THEN q[i].delta
                                ELSE IF i = p THEN delta
                                ELSE IF i = p + 1 THEN q[p].delta - delta
                                ELSE q[i - 1].delta
    <2> HIDE DEF delta
    <2>1. CASE i < p
      <3>1. i \in 1 .. Len(q)
        BY <1>1, <1>4, <2>1
      <3>2. r[i] = rest[i]
        BY <1>12, <2>1
      <3>3. QED BY <1>10, <2>1, <3>1, <3>2
    <2>2. CASE i = p
      <3>1. r[i] = e /\ ~(i < p)
        BY <1>1, <1>4, <1>12, <2>2
      <3>2. QED BY <1>11, <2>2, <3>1
    <2>3. CASE i > p
      <3>1. i - 1 \in 1 .. Len(q) /\ ~(i < p) /\ i # p /\ (i - 1 = p <=> i = p + 1)
        BY <1>1, <1>4, <2>3
      <3>2. r[i] = rest[i - 1]
        BY <1>12, <3>1
      <3>3. QED BY <1>10, <3>1, <3>2
    <2>4. QED BY <1>1, <1>4, <2>1, <2>2, <2>3
  <1>15. f[0] = 0
    BY <1>1, <1>2, <1>4
  <1>16. ASSUME NEW i \in 1 .. Len(r) PROVE f[i] = f[i - 1] + r[i].delta
    <2>1. i \in 1 .. Len(q) + 1 /\ i \in 0 .. Len(q) + 1 /\ i - 1 \in 0 .. Len(q) + 1
      BY <1>1, <1>12
    <2>2. CASE i < p
      <3>1. i \in 1 .. Len(q) /\ i - 1 < p
        BY <1>1, <1>4, <2>1, <2>2
      <3>2. f[i] = Ahead(q, i) /\ f[i - 1] = Ahead(q, i - 1) /\ r[i].delta = q[i].delta
        BY <1>14, <2>1, <2>2, <3>1
      <3> HIDE DEF f
      <3>3. QED BY <1>2, <3>1, <3>2
    <2>3. CASE i = p
      <3>1. i - 1 < p /\ ~(i < p)
        BY <1>1, <1>4, <2>3
      <3>2. f[i] = d /\ f[i - 1] = Ahead(q, p - 1) /\ r[i].delta = delta
        BY <1>14, <2>1, <2>3, <3>1
      <3> HIDE DEF f
      <3>3. QED BY <1>8, <3>2
    <2>4. CASE i = p + 1
      <3>1. i - 1 = p /\ ~(i < p) /\ i # p /\ ~(p < p) /\ p <= Len(q) /\ p \in 0 .. Len(q)
        BY <1>1, <1>4, <2>1, <2>4
      <3>2. f[i] = Ahead(q, p) /\ f[i - 1] = d /\ r[i].delta = q[p].delta - delta
        BY <1>14, <2>1, <2>4, <3>1
      <3> HIDE DEF f, delta
      <3>3. QED BY <1>2, <1>9, <3>1, <3>2
    <2>5. CASE i > p + 1
      <3>1. /\ i - 1 \in 1 .. Len(q) /\ ~(i < p) /\ i # p /\ i # p + 1
            /\ ~(i - 1 < p) /\ i - 1 # p /\ i - 1 - 1 = i - 2
        BY <1>1, <1>4, <2>1, <2>5
      <3>2. f[i] = Ahead(q, i - 1) /\ f[i - 1] = Ahead(q, i - 1 - 1) /\ r[i].delta = q[i - 1].delta
        BY <1>14, <2>1, <3>1
      <3> HIDE DEF f
      <3>3. QED BY <1>2, <3>1, <3>2
    <2>6. QED BY <1>1, <1>4, <2>1, <2>2, <2>3, <2>4, <2>5
  <1>17. \A i \in 0 .. Len(r) : Ahead(r, i) = f[i]
    <2> HIDE DEF f
    <2>1. QED BY <1>13, <1>15, <1>16, AheadIs
  <1>18. ASSUME NEW i \in 1 .. Len(q) + 1
         PROVE  Ahead(r, i) = IF i < p THEN Ahead(q, i) ELSE IF i = p THEN d ELSE Ahead(q, i - 1)
    <2>1. i \in 0 .. Len(r) /\ i \in 0 .. Len(q) + 1
      BY <1>1, <1>12
    <2>2. QED BY <1>17, <2>1
  <1> HIDE DEF delta, f
  <1>19. StandsAt(p, r, q, t, d)
    BY <1>5, <1>12, <1>14, <1>18 DEF StandsAt
  <1>20. QED BY <1>4, <1>13, <1>19

\* Without the entry at place p each other entry stays as far from being due.
LEMMA RemovedFacts ==
  ASSUME NEW T, NEW q \in Lists(T), NEW p \in 1 .. Len(q)
  PROVE  LET r == Removed(q, p)
         IN /\ r \in Lists(T) /\ Len(r) = Len(q) - 1
            /\ \A i \in 1 .. Len(q) - 1 :
                 /\ r[i].token = IF i < p THEN q[i].token ELSE q[i + 1].token
                 /\ Ahead(r, i) = IF i < p THEN Ahead(q, i) ELSE Ahead(q, i + 1)
  <1> DEFINE E == [token : T, delta : Nat]
             rest == IF p = Len(q) THEN q ELSE [q EXCEPT ![p + 1].delta = @ + q[p].delta]
             r == RemoveAt(rest, p)
             f == [i \in 0 .. Len(q) - 1 |-> IF i < p THEN Ahead(q, i) ELSE Ahead(q, i + 1)]
  <1>1. /\ q \in Seq(E) /\ Len(q) \in Nat /\ DOMAIN q = 1 .. Len(q)
        /\ \A i \in 1 .. Len(q) : q[i] \in E /\ q[i].token \in T /\ q[i].delta \in Nat
    BY EntryTyped, ElementOfSeq DEF Lists
  <1>2. /\ Ahead(q, 0) = 0
        /\ \A i \in 0 .. Len(q) : Ahead(q, i) \in Nat
        /\ \A i \in 1 .. Len(q) : Ahead(q, i) = Ahead(q, i - 1) + q[i].delta
    BY AheadTyped, AheadSteps
  <1>3. Removed(q, p) = r
    BY DEF Removed
  <1>4. /\ rest \in Seq(E) /\ Len(rest) = Len(q)
        /\ \A i \in 1 .. Len(q) :
             /\ rest[i].token = q[i].token
             /\ rest[i].delta = IF i = p + 1 THEN q[i].delta + q[p].delta ELSE q[i].delta
    <2>1. CASE p = Len(q)
      BY <1>1, <2>1
    <2>2. CASE p # Len(q)
      <3> DEFINE s == q[p + 1].delta + q[p].delta
                 x == [q[p + 1] EXCEPT !.delta = s]
      <3>1. p + 1 \in 1 .. Len(q)
        <4>1. Len(q) \in Nat
          BY <1>1
        <4>2. QED BY <2>2, <4>1
      <3>2. q[p + 1] \in E /\ s \in Nat
        BY <1>1, <3>1
      <3>3. x \in E /\ x.token = q[p + 1].token /\ x.delta = s
        <4> HIDE DEF s
        <4>1. QED BY <3>2
      <3>4. rest = [q EXCEPT ![p + 1] = x]
        BY <2>2
      <3> HIDE DEF x, rest, E
      <3>5. QED BY <1>1, <3>1, <3>3, <3>4, ExceptSeq
    <2>3. QED BY <2>1, <2>2
  <1> HIDE DEF rest, E
  <1>5. /\ r \in Seq(E) /\ Len(r) = Len(q) - 1
        /\ \A i \in 1 .. Len(q) - 1 : r[i] = IF i < p THEN rest[i] ELSE rest[i + 1]
    BY <1>4, EntryRemoved
  <1> HIDE DEF r
  <1>6. r \in Lists(T)
    BY <1>5 DEF Lists, E
  <1>7. ASSUME NEW i \in 1 .. Len(q) - 1
        PROVE  /\ r[i].token = IF i < p THEN q[i].token ELSE q[i + 1].token
               /\ r[i].delta = IF i < p THEN q[i].delta
                               ELSE IF i = p THEN q[p + 1].delta + q[p].delta
                               ELSE q[i + 1].delta
    <2>1. i \in 1 .. Len(q) /\ i + 1 \in 1 .. Len(q) /\ (i < p => i # p + 1) /\ (i = p <=> i + 1 = p + 1)
      BY <1>1
    <2>2. r[i] = IF i < p THEN rest[i] ELSE rest[i + 1]
      BY <1>5
    <2>3. QED BY <1>4, <2>1, <2>2
  <1>8. f[0] = 0
    BY <1>1, <1>2
  <1>9. ASSUME NEW i \in 1 .. Len(r) PROVE f[i] = f[i - 1] + r[i].delta
    <2>1. /\ i \in 1 .. Len(q) - 1 /\ i \in 0 .. Len(q) - 1 /\ i - 1 \in 0 .. Len(q) - 1
          /\ i \in 1 .. Len(q) /\ i + 1 \in 1 .. Len(q) /\ (i + 1) - 1 = i /\ (i - 1) + 1 = i
      BY <1>1, <1>5
    <2>2. f[i] = (IF i < p THEN Ahead(q, i) ELSE Ahead(q, i + 1))
          /\ f[i - 1] = IF i - 1 < p THEN Ahead(q, i - 1) ELSE Ahead(q, i)
      BY <2>1
    <2>3. /\ Ahead(q, i) = Ahead(q, i - 1) + q[i].delta
          /\ Ahead(q, i + 1) = Ahead(q, i) + q[i + 1].delta
          /\ Ahead(q, i - 1) \in Nat /\ q[i].delta \in Nat /\ q[i + 1].delta \in Nat
      BY <1>1, <1>2, <2>1
    <2> HIDE DEF f
    <2>4. CASE i < p
      BY <1>1, <1>7, <2>1, <2>2, <2>3, <2>4
    <2>5. CASE i = p
      BY <1>1, <1>7, <2>1, <2>2, <2>3, <2>5
    <2>6. CASE i > p
      BY <1>1, <1>7, <2>1, <2>2, <2>3, <2>6
    <2>7. QED BY <1>1, <2>1, <2>4, <2>5, <2>6
  <1>10. \A i \in 0 .. Len(r) : Ahead(r, i) = f[i]
    <2> HIDE DEF f
    <2>1. QED BY <1>6, <1>8, <1>9, AheadIs
  <1>11. ASSUME NEW i \in 1 .. Len(q) - 1
         PROVE  Ahead(r, i) = IF i < p THEN Ahead(q, i) ELSE Ahead(q, i + 1)
    <2>1. i \in 0 .. Len(r) /\ i \in 0 .. Len(q) - 1
      BY <1>1, <1>5
    <2>2. QED BY <1>10, <2>1
  <1> HIDE DEF f
  <1>12. /\ r \in Lists(T) /\ Len(r) = Len(q) - 1
         /\ \A i \in 1 .. Len(q) - 1 :
              /\ r[i].token = IF i < p THEN q[i].token ELSE q[i + 1].token
              /\ Ahead(r, i) = IF i < p THEN Ahead(q, i) ELSE Ahead(q, i + 1)
    BY <1>5, <1>6, <1>7, <1>11
  <1>13. QED BY <1>3, <1>12

-----------------------------------------------------------------------------
(* The inductive invariant.                                                *)

\* In list q, at time e of the service, each entry is as far from being due as
\* its deadline says.
Matches(q, deadline, e) ==
  \A i \in 1 .. Len(q) :
    Ahead(q, i) = IF deadline[q[i].token] > e THEN deadline[q[i].token] - e ELSE 0

Earlier(deadline, t, u) == deadline[t] < deadline[u] \/ (deadline[t] = deadline[u] /\ t < u)

\* The entries stand in the order of their deadlines, those with the same
\* deadline in the order of their tokens, and no token stands twice.
Sorted(q, deadline) ==
  \A i, j \in 1 .. Len(q) : i < j => Earlier(deadline, q[i].token, q[j].token)

TokensOf(q) == {q[i].token : i \in DOMAIN q}

\* The queue has not seen more time than there was, and the deadline of a task
\* in the queue's time is not ahead of the one in real time: a clock that goes
\* back only takes time from the queue.
Clock ==
  /\ now <= real /\ real - now <= MaxBack
  /\ elapsed + Passed <= real
  /\ \A t \in Tokens : /\ due[t] <= MaxTime
                       /\ notBefore[t] - due[t] <= real - (elapsed + Passed)

Types ==
  /\ TypeOK
  /\ due \in Seq(Nat) /\ Len(due) = tokenCounter
  /\ notBefore \in Seq(Nat) /\ Len(notBefore) = tokenCounter

TimerInv ==
  /\ Types
  /\ Clock
  /\ Matches(queue, due, elapsed)
  /\ Sorted(queue, due)
  /\ NeverEarly
  /\ SleepEndsInTime

\* Synchronizing a list keeps its entries where they are and moves its time.
LEMMA ConsumeKeeps ==
  ASSUME NEW T, NEW q \in Lists(T), NEW deadline, \A t \in T : deadline[t] \in Nat,
         NEW e \in Nat, NEW passed \in Nat,
         Matches(q, deadline, e), Sorted(q, deadline)
  PROVE  LET r == Consume(q, passed)
         IN /\ r \in Lists(T) /\ Len(r) = Len(q)
            /\ \A i \in 1 .. Len(q) : r[i].token = q[i].token
            /\ Matches(r, deadline, e + passed) /\ Sorted(r, deadline)
            /\ TokensOf(r) = TokensOf(q)
  <1> DEFINE r == Consume(q, passed)
  <1>1. /\ r \in Lists(T) /\ Len(r) = Len(q)
        /\ \A i \in 1 .. Len(q) :
             /\ r[i].token = q[i].token
             /\ Ahead(r, i) = IF Ahead(q, i) > passed THEN Ahead(q, i) - passed ELSE 0
    BY ConsumeFacts
  <1> HIDE DEF r
  <1>2. Len(q) \in Nat /\ DOMAIN q = 1 .. Len(q) /\ DOMAIN r = 1 .. Len(r)
        /\ \A i \in 1 .. Len(q) : q[i].token \in T
    BY <1>1, EntryTyped
  <1>3. Matches(r, deadline, e + passed)
    <2>1. ASSUME NEW i \in 1 .. Len(q)
          PROVE  Ahead(r, i) = IF deadline[r[i].token] > e + passed
                                 THEN deadline[r[i].token] - (e + passed) ELSE 0
      <3> DEFINE x == deadline[q[i].token]
      <3>1. x \in Nat /\ deadline[r[i].token] = x
        BY <1>1, <1>2
      <3>2. Ahead(q, i) = IF x > e THEN x - e ELSE 0
        BY DEF Matches
      <3> HIDE DEF x
      <3>3. QED BY <1>1, <3>1, <3>2
    <2>2. QED BY <1>1, <2>1 DEF Matches
  <1>4. Sorted(r, deadline)
    BY <1>1, <1>2 DEF Sorted
  <1>5. TokensOf(r) = TokensOf(q)
    BY <1>1, <1>2 DEF TokensOf
  <1>6. QED BY <1>1, <1>3, <1>4, <1>5 DEF r

\* Inserting a new token with a delay of d gives it the deadline e + d.
LEMMA InsertedKeeps ==
  ASSUME NEW n \in Nat, NEW q \in Lists(1 .. n), NEW deadline \in Seq(Nat), Len(deadline) = n,
         NEW e \in Nat, NEW d \in Nat,
         Matches(q, deadline, e), Sorted(q, deadline)
  PROVE  LET r == Inserted(q, n + 1, d)
             later == Append(deadline, e + d)
         IN /\ r \in Lists(1 .. n + 1)
            /\ Matches(r, later, e) /\ Sorted(r, later)
            /\ TokensOf(r) = TokensOf(q) \cup {n + 1}
  <1> DEFINE T == 1 .. n + 1
             t == n + 1
             r == Inserted(q, t, d)
             later == Append(deadline, e + d)
  <1>1. later[t] = e + d /\ \A u \in 1 .. n : later[u] = deadline[u] /\ deadline[u] \in Nat
    OBVIOUS
  <1>2. /\ q \in Lists(T) /\ t \in T /\ Len(q) \in Nat
        /\ DOMAIN q = 1 .. Len(q) /\ \A i \in 1 .. Len(q) : q[i].token \in 1 .. n
    <2>1. [token : 1 .. n, delta : Nat] \subseteq [token : T, delta : Nat]
      OBVIOUS
    <2>2. q \in Lists(T)
      BY <2>1, SeqMonotonic DEF Lists
    <2>3. QED BY <2>2, EntryTyped
  <1> HIDE DEF T, later, t, r
  <1>3. PICK p \in 1 .. Len(q) + 1 : StandsAt(p, r, q, t, d)
    <2>1. r = Inserted(q, t, d)
      BY DEF r
    <2>2. QED BY <1>2, <2>1, InsertedFacts
  <1>4. r \in Lists(T)
    <2>1. r = Inserted(q, t, d)
      BY DEF r
    <2>2. QED BY <1>2, <2>1, InsertedFacts
  <1> USE DEF t, StandsAt
  <1> DEFINE Old(i) == IF i < p THEN i ELSE i - 1
  <1>5. \A i \in 1 .. Len(r) : i # p =>
          /\ Old(i) \in 1 .. Len(q)
          /\ r[i].token = q[Old(i)].token /\ Ahead(r, i) = Ahead(q, Old(i))
          /\ r[i].token \in 1 .. n /\ r[i].token # t
          /\ later[r[i].token] = deadline[q[Old(i)].token] /\ deadline[q[Old(i)].token] \in Nat
    <2> SUFFICES ASSUME NEW i \in 1 .. Len(r), i # p
                 PROVE  /\ Old(i) \in 1 .. Len(q)
                        /\ r[i].token = q[Old(i)].token /\ Ahead(r, i) = Ahead(q, Old(i))
                        /\ r[i].token \in 1 .. n /\ r[i].token # t
                        /\ later[r[i].token] = deadline[q[Old(i)].token]
                        /\ deadline[q[Old(i)].token] \in Nat
      OBVIOUS
    <2>1. Old(i) \in 1 .. Len(q) /\ i \in 1 .. Len(q) + 1
      BY <1>2, <1>3
    <2>2. r[i].token = q[Old(i)].token /\ Ahead(r, i) = Ahead(q, Old(i))
      BY <1>3, <2>1
    <2> HIDE DEF Old
    <2>3. q[Old(i)].token \in 1 .. n /\ q[Old(i)].token # t
      BY <1>2, <2>1
    <2>4. QED BY <1>1, <2>1, <2>2, <2>3
  <1>6. p \in 1 .. Len(r) /\ r[p].token = t /\ Ahead(r, p) = d /\ later[t] = e + d
    BY <1>1, <1>2, <1>3
  <1>7. Matches(r, later, e)
    <2>1. ASSUME NEW i \in 1 .. Len(r)
          PROVE  Ahead(r, i) = IF later[r[i].token] > e THEN later[r[i].token] - e ELSE 0
      <3>1. CASE i = p
        BY <1>6, <3>1
      <3>2. CASE i # p
        <4>1. Old(i) \in 1 .. Len(q)
          BY <1>5, <3>2
        <4> HIDE DEF Old
        <4>2. QED BY <1>5, <3>2, <4>1 DEF Matches
      <3>3. QED BY <3>1, <3>2
    <2>2. QED BY <2>1 DEF Matches
  <1>8. Sorted(r, later)
    <2> SUFFICES ASSUME NEW i \in 1 .. Len(r), NEW j \in 1 .. Len(r), i < j
                 PROVE  Earlier(later, r[i].token, r[j].token)
      BY DEF Sorted
    <2>1. CASE i # p /\ j # p
      <3>1. Old(i) < Old(j) /\ Old(i) \in 1 .. Len(q) /\ Old(j) \in 1 .. Len(q)
        BY <1>2, <1>3, <1>5, <2>1
      <3> HIDE DEF Old
      <3>2. Earlier(deadline, q[Old(i)].token, q[Old(j)].token)
        BY <3>1 DEF Sorted
      <3>3. QED BY <1>5, <2>1, <3>2 DEF Earlier
    <2>2. CASE j = p
      <3>1. i < p /\ i # p /\ Old(i) = i /\ i \in 1 .. Len(q)
        BY <1>2, <1>3, <2>2
      <3>2. Ahead(q, i) <= d
        BY <1>3, <3>1
      <3>3. deadline[q[i].token] \in Nat /\ later[r[i].token] = deadline[q[i].token]
            /\ r[i].token \in 1 .. n
        BY <1>5, <3>1
      <3>4. deadline[q[i].token] <= e + d
        BY <3>1, <3>2, <3>3 DEF Matches
      <3>5. r[i].token < t
        BY <3>3
      <3>6. later[r[j].token] = e + d /\ r[j].token = t
        BY <1>6, <2>2
      <3>7. later[r[i].token] \in Nat /\ later[r[i].token] <= later[r[j].token]
            /\ r[i].token < r[j].token
        BY <3>3, <3>4, <3>5, <3>6
      <3>8. later[r[j].token] \in Nat
        BY <3>6
      <3>9. QED BY <3>7, <3>8 DEF Earlier
    <2>3. CASE i = p
      <3>1. ~(j < p) /\ j # p /\ j - 1 \in 1 .. Len(q) /\ ~(j - 1 < p) /\ Old(j) = j - 1
        BY <1>2, <1>3, <2>3
      <3>2. ~(Ahead(q, j - 1) <= d)
        BY <1>3, <3>1
      <3> DEFINE x == deadline[q[j - 1].token]
      <3>3. x \in Nat /\ later[r[j].token] = x
        BY <1>5, <3>1
      <3>4. Ahead(q, j - 1) = IF x > e THEN x - e ELSE 0
        BY <3>1 DEF Matches
      <3> HIDE DEF x
      <3>5. e + d < x
        BY <3>2, <3>3, <3>4
      <3>6. QED BY <1>6, <2>3, <3>3, <3>5 DEF Earlier
    <2>4. QED BY <2>1, <2>2, <2>3
  <1>9. TokensOf(r) = TokensOf(q) \cup {t}
    <2>1. DOMAIN r = 1 .. Len(r)
      BY <1>4, EntryTyped
    <2>2. ASSUME NEW u \in TokensOf(r) PROVE u \in TokensOf(q) \cup {t}
      <3>1. PICK i \in 1 .. Len(r) : u = r[i].token
        BY <2>1 DEF TokensOf
      <3>2. CASE i = p
        BY <1>6, <3>1, <3>2
      <3>3. CASE i # p
        <4>1. Old(i) \in 1 .. Len(q) /\ u = q[Old(i)].token
          BY <1>5, <3>1, <3>3
        <4> HIDE DEF Old
        <4>2. QED BY <1>2, <4>1 DEF TokensOf
      <3>4. QED BY <3>2, <3>3
    <2>3. ASSUME NEW u \in TokensOf(q) PROVE u \in TokensOf(r)
      <3>1. PICK i \in 1 .. Len(q) : u = q[i].token
        BY <1>2 DEF TokensOf
      <3>2. PICK k \in 1 .. Len(r) : r[k].token = q[i].token
        <4>1. CASE i < p
          <5>1. i \in 1 .. Len(r) /\ i \in 1 .. Len(q) + 1
            BY <1>2, <1>3
          <5>2. QED BY <1>3, <4>1, <5>1
        <4>2. CASE ~(i < p)
          <5>1. i + 1 \in 1 .. Len(r) /\ i + 1 \in 1 .. Len(q) + 1 /\ ~(i + 1 < p) /\ i + 1 # p
                /\ (i + 1) - 1 = i
            BY <1>2, <1>3, <4>2
          <5>2. QED BY <1>3, <5>1
        <4>3. QED BY <4>1, <4>2
      <3>3. QED BY <2>1, <3>1, <3>2 DEF TokensOf
    <2>4. t \in TokensOf(r)
      BY <1>6, <2>1 DEF TokensOf
    <2>5. QED BY <2>2, <2>3, <2>4
  <1>10. QED BY <1>4, <1>7, <1>8, <1>9 DEF r, T, later

\* Removing an entry takes its token out and leaves the others as they are.
LEMMA RemovedKeeps ==
  ASSUME NEW T, NEW q \in Lists(T), NEW p \in 1 .. Len(q), T \subseteq Nat,
         NEW deadline, \A t \in T : deadline[t] \in Nat, NEW e,
         Matches(q, deadline, e), Sorted(q, deadline)
  PROVE  LET r == Removed(q, p)
         IN /\ r \in Lists(T)
            /\ Matches(r, deadline, e) /\ Sorted(r, deadline)
            /\ TokensOf(r) = TokensOf(q) \ {q[p].token}
  <1> DEFINE r == Removed(q, p)
             Old(i) == IF i < p THEN i ELSE i + 1
  <1>1. Len(q) \in Nat /\ DOMAIN q = 1 .. Len(q) /\ \A i \in 1 .. Len(q) : q[i].token \in T
    BY EntryTyped
  <1>2. /\ r \in Lists(T) /\ Len(r) = Len(q) - 1
        /\ \A i \in 1 .. Len(q) - 1 :
             /\ r[i].token = IF i < p THEN q[i].token ELSE q[i + 1].token
             /\ Ahead(r, i) = IF i < p THEN Ahead(q, i) ELSE Ahead(q, i + 1)
    BY RemovedFacts
  <1> HIDE DEF r
  <1>3. DOMAIN r = 1 .. Len(r)
    BY <1>2, EntryTyped
  <1>4. \A i \in 1 .. Len(r) :
          /\ Old(i) \in 1 .. Len(q) /\ Old(i) # p
          /\ r[i].token = q[Old(i)].token /\ Ahead(r, i) = Ahead(q, Old(i))
    BY <1>1, <1>2
  <1>5. \A i, j \in 1 .. Len(r) : i < j => Old(i) < Old(j)
    BY <1>1, <1>2
  <1>6. \A k \in 1 .. Len(q) : k # p => \E i \in 1 .. Len(r) : Old(i) = k
    <2> SUFFICES ASSUME NEW k \in 1 .. Len(q), k # p PROVE \E i \in 1 .. Len(r) : Old(i) = k
      OBVIOUS
    <2>1. CASE k < p
      <3>1. k \in 1 .. Len(r) /\ Old(k) = k
        BY <1>1, <1>2, <2>1
      <3>2. QED BY <3>1
    <2>2. CASE k > p
      <3>1. k - 1 \in 1 .. Len(r) /\ Old(k - 1) = k
        BY <1>1, <1>2, <2>2
      <3>2. QED BY <3>1
    <2>3. QED BY <1>1, <2>1, <2>2
  <1> HIDE DEF Old
  <1>7. Matches(r, deadline, e)
    BY <1>4 DEF Matches
  <1>8. Sorted(r, deadline)
    BY <1>4, <1>5 DEF Sorted
  <1>9. \A k \in 1 .. Len(q) : k # p => q[k].token # q[p].token
    <2> SUFFICES ASSUME NEW k \in 1 .. Len(q), k # p PROVE q[k].token # q[p].token
      OBVIOUS
    <2>1. Earlier(deadline, q[k].token, q[p].token) \/ Earlier(deadline, q[p].token, q[k].token)
      BY <1>1 DEF Sorted
    <2>2. q[k].token \in Nat /\ q[p].token \in Nat
          /\ deadline[q[k].token] \in Nat /\ deadline[q[p].token] \in Nat
      BY <1>1
    <2>3. QED BY <2>1, <2>2 DEF Earlier
  <1>10. TokensOf(r) = TokensOf(q) \ {q[p].token}
    <2>1. ASSUME NEW u \in TokensOf(r) PROVE u \in TokensOf(q) /\ u # q[p].token
      <3>1. PICK i \in 1 .. Len(r) : u = r[i].token
        BY <1>3 DEF TokensOf
      <3>2. Old(i) \in 1 .. Len(q) /\ Old(i) # p /\ u = q[Old(i)].token
        BY <1>4, <3>1
      <3>3. QED BY <1>1, <1>9, <3>2 DEF TokensOf
    <2>2. ASSUME NEW u \in TokensOf(q), u # q[p].token PROVE u \in TokensOf(r)
      <3>1. PICK k \in 1 .. Len(q) : u = q[k].token
        BY <1>1 DEF TokensOf
      <3>2. PICK i \in 1 .. Len(r) : Old(i) = k
        BY <1>6, <2>2, <3>1
      <3>3. u = r[i].token
        BY <1>4, <3>1, <3>2
      <3>4. QED BY <1>3, <3>3 DEF TokensOf
    <2>3. QED BY <2>1, <2>2
  <1>11. QED BY <1>2, <1>7, <1>8, <1>10 DEF r

-----------------------------------------------------------------------------
(* The invariant holds.                                                    *)

\* The invariant holds before anything is scheduled.
LEMMA InitInv == Init => TimerInv
  <1> SUFFICES ASSUME Init PROVE TimerInv
    OBVIOUS
  <1> USE DelayAssumption DEF Init
  <1>1. <<>> \in Seq(Nat) /\ Len(<<>>) = 0 /\ Tokens = {} /\ Passed = 0
    BY DEF Tokens, Passed
  <1>2. Types
    BY <1>1 DEF Types, TypeOK
  <1>3. Clock
    BY <1>1 DEF Clock
  <1>4. Matches(queue, due, elapsed) /\ Sorted(queue, due)
    BY <1>1 DEF Matches, Sorted
  <1>5. NeverEarly /\ SleepEndsInTime
    BY <1>1 DEF NeverEarly, SleepEndsInTime
  <1>6. QED BY <1>2, <1>3, <1>4, <1>5 DEF TimerInv

\* What the types say of the variables.
LEMMA Typed ==
  ASSUME TimerInv
  PROVE  /\ queue \in Lists(Tokens) /\ Len(queue) \in Nat /\ DOMAIN queue = 1 .. Len(queue)
         /\ \A i \in 1 .. Len(queue) : queue[i].token \in Tokens
         /\ tokenCounter \in Nat /\ Tokens = 1 .. tokenCounter
         /\ \A t \in Tokens : t \in Nat /\ due[t] \in Nat /\ notBefore[t] \in Nat
         /\ now \in Int /\ fLastSyncTime \in Int /\ Passed \in Nat
         /\ real \in Nat /\ elapsed \in Nat /\ sleep \in Nat
         /\ run \in Seq(Tokens) /\ DOMAIN run = 1 .. Len(run) /\ Len(run) \in Nat
         /\ \A i \in 1 .. Len(run) : run[i] \in Tokens
  <1>1. Types
    BY DEF TimerInv
  <1>2. now \in Int /\ fLastSyncTime \in Int /\ tokenCounter \in Nat
        /\ real \in Nat /\ elapsed \in Nat /\ sleep \in Nat /\ run \in Seq(Tokens)
    BY <1>1, DelayAssumption DEF Types, TypeOK
  <1>3. Passed \in Nat
    BY <1>2 DEF Passed
  <1>4. queue \in Lists(Tokens)
    BY <1>1 DEF Types, TypeOK, Lists
  <1>5. Len(queue) \in Nat /\ DOMAIN queue = 1 .. Len(queue)
        /\ \A i \in 1 .. Len(queue) : queue[i].token \in Tokens
    BY <1>4, EntryTyped
  <1>6. \A t \in Tokens : t \in Nat /\ due[t] \in Nat /\ notBefore[t] \in Nat
    BY <1>1, <1>2, ElementOfSeq DEF Types, Tokens
  <1>7. DOMAIN run = 1 .. Len(run) /\ Len(run) \in Nat /\ \A i \in 1 .. Len(run) : run[i] \in Tokens
    BY <1>2, ElementOfSeq, LenProperties
  <1>8. QED BY <1>2, <1>3, <1>4, <1>5, <1>6, <1>7 DEF Tokens

\* The queue after synchronize.
LEMMA Synced ==
  ASSUME TimerInv
  PROVE  /\ Synchronized \in Lists(Tokens) /\ Len(Synchronized) = Len(queue)
         /\ \A i \in 1 .. Len(queue) : Synchronized[i].token = queue[i].token
         /\ Matches(Synchronized, due, elapsed + Passed) /\ Sorted(Synchronized, due)
         /\ TokensOf(Synchronized) = TokensOf(queue)
  <1>1. Matches(queue, due, elapsed) /\ Sorted(queue, due)
    BY DEF TimerInv
  <1>2. \A t \in Tokens : due[t] \in Nat
    BY Typed
  <1>3. queue \in Lists(Tokens) /\ elapsed \in Nat /\ Passed \in Nat
    BY Typed
  <1>4. QED BY <1>1, <1>2, <1>3, ConsumeKeeps DEF Synchronized

\* The queue that timeToNextAlarm and handleAlarm look at: they leave out
\* synchronize when the head is due already.
Looked == IF Head0(queue) THEN queue ELSE Synchronized
SyncTimes ==
  IF Head0(queue) THEN UNCHANGED <<fLastSyncTime, elapsed>>
                  ELSE fLastSyncTime' = now /\ elapsed' = elapsed + Passed

\* What the invariant says of the list that is looked at.
LEMMA LookedFacts ==
  ASSUME TimerInv, SyncTimes, now' = now
  PROVE  /\ Looked \in Lists(Tokens) /\ Len(Looked) = Len(queue)
         /\ DOMAIN Looked = 1 .. Len(Looked)
         /\ \A i \in 1 .. Len(queue) : Looked[i].token = queue[i].token
         /\ Matches(Looked, due, elapsed') /\ Sorted(Looked, due)
         /\ TokensOf(Looked) = TokensOf(queue)
         /\ elapsed' \in Nat /\ Passed' \in Nat /\ elapsed <= elapsed'
         /\ elapsed' + Passed' = elapsed + Passed
  <1>1. CASE Head0(queue)
    <2>1. Looked = queue /\ fLastSyncTime' = fLastSyncTime /\ elapsed' = elapsed
      BY <1>1 DEF Looked, SyncTimes
    <2>2. Passed' = Passed
      BY <2>1 DEF Passed
    <2>3. Matches(queue, due, elapsed) /\ Sorted(queue, due)
      BY DEF TimerInv
    <2>4. QED BY <2>1, <2>2, <2>3, Typed
  <1>2. CASE ~Head0(queue)
    <2>1. Looked = Synchronized /\ fLastSyncTime' = now /\ elapsed' = elapsed + Passed
      BY <1>2 DEF Looked, SyncTimes
    <2>2. Passed' = 0
      BY <2>1, Typed DEF Passed
    <2>3. DOMAIN Synchronized = 1 .. Len(Synchronized)
      BY Synced, EntryTyped
    <2>4. elapsed' \in Nat /\ elapsed <= elapsed' /\ elapsed' + Passed' = elapsed + Passed
      BY <2>1, <2>2, Typed
    <2>5. QED BY <2>1, <2>2, <2>3, <2>4, Synced
  <1>3. QED BY <1>1, <1>2

\* What is left until the head is due, is what the head keeps.
LEMMA HeadMatches ==
  ASSUME NEW T, NEW q \in Lists(T), q # <<>>, NEW deadline, NEW e, Matches(q, deadline, e)
  PROVE  /\ 1 \in 1 .. Len(q)
         /\ q[1].delta = IF deadline[q[1].token] > e THEN deadline[q[1].token] - e ELSE 0
  <1>1. 1 \in 1 .. Len(q) /\ q[1].delta \in Nat /\ Len(q) \in Nat
    BY EmptySeq, EntryTyped DEF Lists
  <1>2. Ahead(q, 1) = q[1].delta
    BY <1>1, AheadSteps
  <1>3. QED BY <1>1, <1>2 DEF Matches

\* The bounds of the clock stay as they are while no time passes.
LEMMA ClockKept ==
  ASSUME TimerInv, UNCHANGED <<now, real, due, notBefore, tokenCounter>>,
         elapsed' + Passed' = elapsed + Passed
  PROVE  Clock'
  BY DEF TimerInv, Clock, Tokens

\* scheduleDelayedTask keeps the invariant and adds its token.
LEMMA ScheduleKeeps ==
  ASSUME TimerInv, NEW d \in Delays, Schedule(d)
  PROVE  TimerInv' /\ TokensOf(queue') = TokensOf(queue) \cup {tokenCounter'}
  <1> DEFINE t == tokenCounter + 1
             e == elapsed + Passed
  <1>1. d \in Nat /\ MaxTime \in Nat /\ MaxBack \in Nat /\ MaxTasks \in Nat
    BY DelayAssumption
  <1>2. /\ tokenCounter' = t /\ t \in Nat /\ tokenCounter < MaxTasks /\ real + d + MaxBack <= MaxTime
        /\ queue' = Inserted(Synchronized, t, d) /\ fLastSyncTime' = now /\ elapsed' = e
        /\ due' = Append(due, e + d) /\ notBefore' = Append(notBefore, real + d)
        /\ UNCHANGED <<pc, now, real, sleep, run>> /\ pc # "select"
    BY Typed DEF Schedule, Calling, clockVars
  <1>3. due \in Seq(Nat) /\ Len(due) = tokenCounter /\ notBefore \in Seq(Nat)
        /\ Len(notBefore) = tokenCounter /\ TypeOK /\ Clock
    BY DEF TimerInv, Types
  <1>4. e \in Nat /\ e <= real /\ Passed' = 0
    <2>1. e \in Nat /\ now \in Int
      BY Typed
    <2>2. e <= real
      BY <1>3 DEF Clock
    <2>3. Passed' = 0
      BY <1>2, <2>1 DEF Passed
    <2>4. QED BY <2>1, <2>2, <2>3
  <1>5. Tokens' = 1 .. tokenCounter + 1 /\ Tokens = 1 .. tokenCounter /\ Tokens \subseteq Tokens'
    BY <1>2, Typed DEF Tokens
  <1>6. /\ due' \in Seq(Nat) /\ Len(due') = t /\ notBefore' \in Seq(Nat) /\ Len(notBefore') = t
        /\ due'[t] = e + d /\ notBefore'[t] = real + d
        /\ \A u \in Tokens : due'[u] = due[u] /\ notBefore'[u] = notBefore[u]
    <2>1. e + d \in Nat /\ real + d \in Nat
      BY <1>1, <1>4, Typed
    <2> HIDE DEF e
    <2>2. QED BY <1>2, <1>3, <1>5, <2>1, AppendProperties
  <1>7. /\ queue' \in Lists(Tokens') /\ Matches(queue', due', elapsed') /\ Sorted(queue', due')
        /\ TokensOf(queue') = TokensOf(queue) \cup {t}
    <2> HIDE DEF e
    <2>1. /\ Synchronized \in Lists(1 .. tokenCounter) /\ Matches(Synchronized, due, e)
          /\ Sorted(Synchronized, due) /\ TokensOf(Synchronized) = TokensOf(queue)
      BY <1>5, Synced DEF e
    <2>2. tokenCounter \in Nat
      BY Typed
    <2>3. /\ Inserted(Synchronized, tokenCounter + 1, d) \in Lists(1 .. tokenCounter + 1)
          /\ Matches(Inserted(Synchronized, tokenCounter + 1, d), Append(due, e + d), e)
          /\ Sorted(Inserted(Synchronized, tokenCounter + 1, d), Append(due, e + d))
          /\ TokensOf(Inserted(Synchronized, tokenCounter + 1, d))
               = TokensOf(Synchronized) \cup {tokenCounter + 1}
      BY <1>1, <1>3, <1>4, <2>1, <2>2, InsertedKeeps
    <2>4. QED BY <1>2, <1>5, <2>1, <2>3
  <1>8. Clock'
    <2>1. ASSUME NEW u \in Tokens'
          PROVE  due'[u] <= MaxTime /\ notBefore'[u] - due'[u] <= real' - (elapsed' + Passed')
      <3>1. CASE u = t
        <4>1. due'[u] = e + d /\ notBefore'[u] = real + d /\ elapsed' + Passed' = e /\ real' = real
          BY <1>2, <1>4, <1>6, <3>1
        <4>2. real \in Nat /\ real + d + MaxBack <= MaxTime
          BY <1>2, Typed
        <4> HIDE DEF e
        <4>3. QED BY <1>1, <1>4, <4>1, <4>2
      <3>2. CASE u # t
        <4>1. u \in Tokens
          BY <1>5, <3>2, Typed
        <4>2. due'[u] = due[u] /\ notBefore'[u] = notBefore[u] /\ real' = real
          BY <1>2, <1>6, <4>1
        <4>3. elapsed' + Passed' = e
          BY <1>2, <1>4
        <4>4. due[u] <= MaxTime /\ notBefore[u] - due[u] <= real - e
          BY <1>3, <4>1 DEF Clock
        <4>5. QED BY <4>2, <4>3, <4>4
      <3>3. QED BY <3>1, <3>2
    <2>2. now' <= real' /\ real' - now' <= MaxBack /\ elapsed' + Passed' <= real'
      BY <1>2, <1>3, <1>4 DEF Clock
    <2>3. QED BY <2>1, <2>2 DEF Clock
  <1>9. Types'
    <2>1. due' \in [Tokens' -> Nat] /\ notBefore' \in [Tokens' -> Nat]
      BY <1>5, <1>6, LenProperties
    <2>2. run' \in Seq(Tokens')
      BY <1>2, <1>5, Typed, SeqMonotonic
    <2>3. queue' \in Seq([token : Tokens', delta : Nat])
      BY <1>7 DEF Lists
    <2>4. /\ pc' \in {"setup", "poll", "select", "alarm", "task"} /\ sleep' \in 0 .. MaxTime
          /\ now' \in -MaxBack .. MaxTime /\ fLastSyncTime' \in -MaxBack .. MaxTime
          /\ real' \in 0 .. MaxTime /\ tokenCounter' \in 0 .. MaxTasks
      BY <1>1, <1>2, <1>3, Typed DEF TypeOK
    <2>5. elapsed' \in 0 .. MaxTime
      <3>1. real \in 0 .. MaxTime
        BY <1>3 DEF TypeOK
      <3> HIDE DEF e
      <3>2. QED BY <1>1, <1>2, <1>4, <3>1
    <2>6. TypeOK'
      BY <2>1, <2>2, <2>3, <2>4, <2>5 DEF TypeOK
    <2>7. QED BY <1>2, <1>6, <2>6 DEF Types
  <1>10. NeverEarly'
    <2>1. ASSUME NEW i \in DOMAIN run' PROVE notBefore'[run'[i]] <= real'
      <3>1. i \in 1 .. Len(run) /\ run'[i] \in Tokens /\ run'[i] = run[i] /\ real' = real
        BY <1>2, Typed
      <3>2. notBefore[run[i]] <= real
        BY <3>1, Typed DEF TimerInv, NeverEarly
      <3>3. QED BY <1>6, <3>1, <3>2
    <2>2. QED BY <2>1 DEF NeverEarly
  <1>11. SleepEndsInTime'
    BY <1>2 DEF SleepEndsInTime
  <1>12. QED BY <1>2, <1>7, <1>8, <1>9, <1>10, <1>11 DEF TimerInv

\* unscheduleDelayedTask keeps the invariant and takes its token out.
LEMMA UnscheduleKeeps ==
  ASSUME TimerInv, NEW t \in Tokens, Unschedule(t)
  PROVE  TimerInv' /\ t \in TokensOf(queue) /\ TokensOf(queue') = TokensOf(queue) \ {t}
  <1>1. PICK i \in DOMAIN queue : queue[i].token = t /\ queue' = Removed(queue, i)
    BY DEF Unschedule
  <1>2. /\ UNCHANGED <<pc, now, real, fLastSyncTime, elapsed, tokenCounter, sleep, due, notBefore, run>>
        /\ pc # "select"
    BY DEF Unschedule, Calling, clockVars, histVars
  <1>3. i \in 1 .. Len(queue) /\ queue \in Lists(Tokens) /\ Tokens \subseteq Nat
        /\ \A u \in Tokens : due[u] \in Nat
    BY <1>1, Typed
  <1>4. Matches(queue, due, elapsed) /\ Sorted(queue, due)
    BY DEF TimerInv
  <1>5. /\ queue' \in Lists(Tokens) /\ Matches(queue', due, elapsed) /\ Sorted(queue', due)
        /\ TokensOf(queue') = TokensOf(queue) \ {t}
    BY <1>1, <1>3, <1>4, RemovedKeeps
  <1>6. Types'
    BY <1>2, <1>5 DEF TimerInv, Types, TypeOK, Lists, Tokens
  <1>7. Passed' = Passed
    BY <1>2 DEF Passed
  <1>8. Clock'
    BY <1>2, <1>7, ClockKept
  <1>9. NeverEarly' /\ SleepEndsInTime'
    BY <1>2 DEF TimerInv, NeverEarly, SleepEndsInTime
  <1>10. t \in TokensOf(queue)
    BY <1>1 DEF TokensOf
  <1>11. QED BY <1>2, <1>5, <1>6, <1>8, <1>9, <1>10 DEF TimerInv

\* timeToNextAlarm keeps the invariant; select's timeout is no longer than what
\* is left until the head is due.
LEMMA TimeToNextAlarmKeeps ==
  ASSUME TimerInv, TimeToNextAlarm
  PROVE  TimerInv' /\ SyncTimes /\ queue' = Looked
  <1>1. /\ SyncTimes /\ queue' = Looked /\ pc' = "select"
        /\ UNCHANGED <<now, real, tokenCounter, due, notBefore, run>>
        /\ sleep' = IF Head0(queue) THEN 0 ELSE IF queue = <<>> THEN MaxTime ELSE queue'[1].delta
    BY DEF TimeToNextAlarm, SyncTimes, Looked, listVars, clockVars, histVars
  <1>2. /\ queue' \in Lists(Tokens) /\ Len(queue') = Len(queue)
        /\ Matches(queue', due, elapsed') /\ Sorted(queue', due)
        /\ elapsed' \in Nat /\ Passed' \in Nat /\ elapsed' + Passed' = elapsed + Passed
    BY <1>1, LookedFacts
  <1>3. Clock'
    BY <1>1, <1>2, ClockKept
  <1>4. queue # <<>> =>
          /\ queue' # <<>> /\ queue'[1].token \in Tokens
          /\ queue'[1].delta = IF due[queue'[1].token] > elapsed'
                                 THEN due[queue'[1].token] - elapsed' ELSE 0
    <2> SUFFICES ASSUME queue # <<>>
                 PROVE  /\ queue' # <<>> /\ queue'[1].token \in Tokens
                        /\ queue'[1].delta = IF due[queue'[1].token] > elapsed'
                                               THEN due[queue'[1].token] - elapsed' ELSE 0
      OBVIOUS
    <2>1. Len(queue) # 0
      BY Typed, EmptySeq DEF Lists
    <2>2. queue' # <<>>
      BY <1>2, <2>1
    <2>3. /\ 1 \in 1 .. Len(queue')
          /\ queue'[1].delta = IF due[queue'[1].token] > elapsed'
                                 THEN due[queue'[1].token] - elapsed' ELSE 0
      BY <1>2, <2>2, HeadMatches
    <2>4. queue'[1].token \in Tokens
      BY <1>2, <2>3, EntryTyped
    <2>5. QED BY <2>2, <2>3, <2>4
  <1>5. sleep' \in 0 .. MaxTime
    <2>1. CASE Head0(queue) \/ queue = <<>>
      BY <1>1, <2>1, DelayAssumption
    <2>2. CASE ~Head0(queue) /\ queue # <<>>
      <3>1. sleep' = queue'[1].delta /\ queue'[1].token \in Tokens
        BY <1>1, <1>4, <2>2
      <3>2. due[queue'[1].token] \in Nat /\ due[queue'[1].token] <= MaxTime
        BY <3>1, Typed DEF TimerInv, Clock
      <3>3. QED BY <1>2, <1>4, <2>2, <3>1, <3>2, DelayAssumption
    <2>3. QED BY <2>1, <2>2
  <1>6. Types'
    <2>1. TypeOK /\ fLastSyncTime' \in -MaxBack .. MaxTime
      BY <1>1 DEF TimerInv, Types, TypeOK, SyncTimes
    <2>2. elapsed' \in 0 .. MaxTime
      <3>1. elapsed + Passed <= real /\ real \in 0 .. MaxTime
        BY <2>1 DEF TimerInv, Clock, TypeOK
      <3>2. QED BY <1>2, <3>1, DelayAssumption, Typed
    <2>3. TypeOK'
      BY <1>1, <1>2, <1>5, <2>1, <2>2 DEF TypeOK, Lists, Tokens
    <2>4. QED BY <1>1, <2>3 DEF TimerInv, Types
  <1>7. NeverEarly'
    BY <1>1 DEF TimerInv, NeverEarly
  <1>8. SleepEndsInTime'
    <2> SUFFICES ASSUME queue' # <<>>
                 PROVE  sleep' <= (IF due[queue'[1].token] > elapsed' + Passed'
                                     THEN due[queue'[1].token] - (elapsed' + Passed') ELSE 0)
      BY <1>1 DEF SleepEndsInTime
    <2>1. queue # <<>>
      <3>1. Len(queue') # 0
        BY <1>2, EmptySeq DEF Lists
      <3>2. QED BY <1>2, <3>1
    <2> DEFINE x == due[queue'[1].token]
               e == elapsed'
               b == elapsed' + Passed'
    <2>2. x \in Nat
      BY <1>4, <2>1, Typed
    <2>3. e \in Nat /\ b \in Nat /\ e <= b
      <3> DEFINE p == Passed'
      <3>1. e \in Nat /\ p \in Nat /\ b = e + p
        BY <1>2
      <3> HIDE DEF e, b, p
      <3>2. QED BY <3>1
    <2>4. CASE Head0(queue)
      <3>1. sleep' = 0
        BY <1>1, <2>4
      <3> HIDE DEF x, b, e
      <3>2. sleep' <= IF x > b THEN x - b ELSE 0
        BY <2>2, <2>3, <3>1
      <3>3. QED BY <3>2 DEF x, b
    <2>5. CASE ~Head0(queue)
      <3>1. b = e
        BY <1>1, <1>2, <2>5, Typed DEF SyncTimes, Passed
      <3>2. sleep' = IF x > e THEN x - e ELSE 0
        BY <1>1, <1>4, <2>1, <2>5
      <3> HIDE DEF x, b, e
      <3>3. sleep' <= IF x > b THEN x - b ELSE 0
        BY <2>2, <2>3, <3>1, <3>2
      <3>4. QED BY <3>3 DEF x, b
    <2>6. QED BY <2>4, <2>5
  <1>9. QED BY <1>1, <1>2, <1>3, <1>6, <1>7, <1>8 DEF TimerInv

\* The head of the list that handleAlarm looked at is due, and due first.
HeadRun == LET t == Looked[1].token
           IN /\ t \in TokensOf(queue) /\ due[t] <= elapsed'
              /\ \A u \in TokensOf(queue) \ {t} : Earlier(due, t, u)
              /\ TokensOf(queue') = TokensOf(queue) \ {t}
              /\ run' = Append(run, t)

\* handleAlarm keeps the invariant, and runs the head only when it is due.
LEMMA HandleAlarmKeeps ==
  ASSUME TimerInv, HandleAlarm
  PROVE  /\ TimerInv' /\ SyncTimes
         /\ IF Head0(Looked) THEN HeadRun ELSE queue' = Looked /\ run' = run
  <1>1. /\ SyncTimes /\ pc' \in {"task", "poll"}
        /\ UNCHANGED <<now, real, tokenCounter, sleep, due, notBefore>>
        /\ IF Head0(Looked) THEN run' = Append(run, Looked[1].token) /\ queue' = Removed(Looked, 1)
                            ELSE run' = run /\ queue' = Looked
    BY DEF HandleAlarm, SyncTimes, Looked, clockVars
  <1>2. /\ Looked \in Lists(Tokens) /\ Len(Looked) = Len(queue)
        /\ DOMAIN Looked = 1 .. Len(Looked)
        /\ Matches(Looked, due, elapsed') /\ Sorted(Looked, due)
        /\ TokensOf(Looked) = TokensOf(queue)
        /\ elapsed' \in Nat /\ Passed' \in Nat /\ elapsed' + Passed' = elapsed + Passed
    BY <1>1, LookedFacts
  <1>3. Clock'
    BY <1>1, <1>2, ClockKept
  <1>4. SleepEndsInTime'
    BY <1>1 DEF SleepEndsInTime
  <1>5. TypeOK /\ fLastSyncTime' \in -MaxBack .. MaxTime /\ elapsed' \in 0 .. MaxTime
    <2>1. TypeOK /\ fLastSyncTime' \in -MaxBack .. MaxTime
      BY <1>1 DEF TimerInv, Types, TypeOK, SyncTimes
    <2>2. elapsed + Passed <= real /\ real \in 0 .. MaxTime
      BY <2>1 DEF TimerInv, Clock, TypeOK
    <2>3. QED BY <1>2, <2>1, <2>2, DelayAssumption, Typed
  <1>6. ASSUME queue' \in Lists(Tokens), run' \in Seq(Tokens) PROVE Types'
    <2>1. TypeOK'
      BY <1>1, <1>5, <1>6 DEF TypeOK, Lists, Tokens
    <2>2. QED BY <1>1, <2>1 DEF TimerInv, Types
  <1>7. CASE ~Head0(Looked)
    <2>1. NeverEarly'
      BY <1>1, <1>7 DEF TimerInv, NeverEarly
    <2>2. Types'
      BY <1>1, <1>2, <1>6, <1>7, Typed
    <2>3. QED BY <1>1, <1>2, <1>3, <1>4, <1>7, <2>1, <2>2 DEF TimerInv
  <1>8. CASE Head0(Looked)
    <2> DEFINE t == Looked[1].token
    <2>1. /\ 1 \in 1 .. Len(Looked) /\ Looked[1].delta = 0
          /\ Looked[1].delta = IF due[t] > elapsed' THEN due[t] - elapsed' ELSE 0
      BY <1>2, <1>8, HeadMatches DEF Head0
    <2>2. t \in Tokens /\ Tokens \subseteq Nat /\ \A u \in Tokens : due[u] \in Nat
      BY <1>2, <2>1, EntryTyped, Typed
    <2>3. due[t] <= elapsed'
      BY <1>2, <2>1, <2>2
    <2>4. /\ queue' \in Lists(Tokens) /\ Matches(queue', due, elapsed') /\ Sorted(queue', due)
          /\ TokensOf(queue') = TokensOf(queue) \ {t}
      <3> DEFINE r == Removed(Looked, 1)
      <3>1. /\ r \in Lists(Tokens) /\ Matches(r, due, elapsed') /\ Sorted(r, due)
            /\ TokensOf(r) = TokensOf(Looked) \ {t}
        BY <1>2, <2>1, <2>2, RemovedKeeps
      <3>2. queue' = r
        BY <1>1, <1>8
      <3> HIDE DEF r
      <3>3. QED BY <1>2, <3>1, <3>2
    <2>5. ASSUME NEW u \in TokensOf(queue) \ {t} PROVE Earlier(due, t, u)
      <3>1. PICK i \in 1 .. Len(Looked) : u = Looked[i].token
        BY <1>2 DEF TokensOf
      <3>2. 1 < i
        BY <2>1, <3>1
      <3>3. QED BY <1>2, <2>1, <3>1, <3>2 DEF Sorted
    <2>6. t \in TokensOf(queue)
      BY <1>2, <2>1 DEF TokensOf
    <2>7. run' = Append(run, t) /\ run' \in Seq(Tokens) /\ Len(run') = Len(run) + 1
          /\ run'[Len(run) + 1] = t /\ \A i \in 1 .. Len(run) : run'[i] = run[i]
      <3>1. run' = Append(run, t)
        BY <1>1, <1>8
      <3>2. t \in Tokens /\ run \in Seq(Tokens)
        BY <2>2, Typed
      <3> HIDE DEF t
      <3>3. QED BY <3>1, <3>2, AppendProperties
    <2>8. HeadRun
      BY <2>3, <2>4, <2>5, <2>6, <2>7 DEF HeadRun
    <2>9. notBefore[t] <= real
      <3>1. notBefore[t] - due[t] <= real - (elapsed + Passed)
        BY <2>2 DEF TimerInv, Clock
      <3>2. due[t] \in Nat /\ notBefore[t] \in Nat /\ real \in Nat
        BY <2>2, Typed
      <3>3. /\ elapsed' \in Nat /\ Passed' \in Nat
            /\ elapsed' + Passed' = elapsed + Passed
        BY <1>2
      <3> HIDE DEF t
      <3>4. QED BY <2>3, <3>1, <3>2, <3>3
    <2>10. NeverEarly'
      <3>1. ASSUME NEW i \in DOMAIN run' PROVE notBefore'[run'[i]] <= real'
        <4>1. i \in 1 .. Len(run) + 1
          BY <2>7, LenProperties
        <4>2. CASE i = Len(run) + 1
          BY <1>1, <2>7, <2>9, <4>2
        <4>3. CASE i # Len(run) + 1
          <5>1. i \in 1 .. Len(run)
            BY <4>1, <4>3, Typed
          <5>2. notBefore[run[i]] <= real
            BY <5>1, Typed DEF TimerInv, NeverEarly
          <5>3. QED BY <1>1, <2>7, <5>1, <5>2
        <4>4. QED BY <4>2, <4>3
      <3>2. QED BY <3>1 DEF NeverEarly
    <2>11. Types'
      BY <1>6, <2>4, <2>7
    <2>12. QED BY <1>1, <1>3, <1>4, <1>8, <2>4, <2>8, <2>10, <2>11 DEF TimerInv
  <1>9. QED BY <1>7, <1>8

\* The steps that leave the list alone.
Waits == SelectTimesOut \/ SelectReturnsEarly \/ TaskReturns \/ Tick \/ SetBack \/ UNCHANGED vars

\* The loop that waits, time that passes and a clock that is set back keep the
\* invariant.
LEMMA WaitsKeeps ==
  ASSUME TimerInv, Waits
  PROVE  TimerInv' /\ UNCHANGED <<queue, fLastSyncTime, elapsed, tokenCounter, due, notBefore, run>>
  <1>1. UNCHANGED <<queue, fLastSyncTime, elapsed, tokenCounter, due, notBefore, run>>
    BY DEF Waits, SelectTimesOut, SelectReturnsEarly, TaskReturns, Tick, SetBack, vars, listVars,
           histVars
  <1>2. Matches(queue', due', elapsed') /\ Sorted(queue', due') /\ Tokens' = Tokens
    BY <1>1 DEF TimerInv, Tokens
  <1>3. /\ real <= real' /\ Passed' <= Passed + (real' - real) /\ Passed' \in Nat
        /\ now' <= real' /\ real' - now' <= MaxBack /\ real' \in 0 .. MaxTime
        /\ now' \in -MaxBack .. MaxTime
    <2>1. Types /\ now <= real /\ real - now <= MaxBack /\ MaxBack \in Nat /\ MaxTime \in Nat
      BY DelayAssumption DEF TimerInv, Clock
    <2>2. /\ now \in Int /\ real \in 0 .. MaxTime /\ now \in -MaxBack .. MaxTime
          /\ fLastSyncTime \in Int
      BY <2>1, Typed DEF Types, TypeOK
    <2>3. CASE Tick
      <3>1. real' = real + 1 /\ now' = now + 1 /\ real < MaxTime
        BY <2>3 DEF Tick
      <3>2. QED BY <1>1, <2>1, <2>2, <3>1 DEF Passed
    <2>4. CASE SetBack
      <3>1. real' = real /\ now' = now - 1 /\ real - now < MaxBack
        BY <2>4 DEF SetBack
      <3>2. QED BY <1>1, <2>1, <2>2, <3>1 DEF Passed
    <2>5. CASE UNCHANGED <<now, real>>
      BY <1>1, <2>1, <2>2, <2>5 DEF Passed
    <2>6. QED
      BY <2>3, <2>4, <2>5 DEF Waits, SelectTimesOut, SelectReturnsEarly, TaskReturns, vars, clockVars
  <1>4. /\ pc' \in {"setup", "poll", "select", "alarm", "task"}
        /\ sleep' \in 0 .. MaxTime
        /\ pc' = "select" =>
             /\ pc = "select" /\ sleep' \in Nat
             /\ sleep' <= (IF sleep > real' - real THEN sleep - (real' - real) ELSE 0)
    <2>1. pc \in {"setup", "poll", "select", "alarm", "task"} /\ sleep \in 0 .. MaxTime
          /\ real \in Nat /\ MaxTime \in Nat
      BY DelayAssumption, Typed DEF TimerInv, Types, TypeOK
    <2>2. CASE Tick
      BY <2>1, <2>2 DEF Tick
    <2>3. CASE ~Tick
      BY <2>1, <2>3 DEF Waits, SelectTimesOut, SelectReturnsEarly, TaskReturns, SetBack, vars,
                        clockVars
    <2>4. QED BY <2>2, <2>3
  <1>5. Types'
    <2>1. TypeOK /\ pc' \in {"setup", "poll", "select", "alarm", "task"} /\ sleep' \in 0 .. MaxTime
          /\ real' \in 0 .. MaxTime /\ now' \in -MaxBack .. MaxTime
      BY <1>3, <1>4 DEF TimerInv, Types
    <2>2. TypeOK'
      BY <1>1, <1>2, <2>1 DEF TypeOK
    <2>3. QED BY <1>1, <2>2 DEF TimerInv, Types
  <1>6. elapsed' + Passed' <= (elapsed + Passed) + (real' - real) /\ real' - real \in Nat
    <2> DEFINE e == elapsed
               p == Passed
               r == Passed'
               k == real' - real
    <2>1. e \in Nat /\ p \in Nat /\ elapsed' = e
      BY <1>1, Typed
    <2>2. r \in Nat /\ r <= p + k
      BY <1>3
    <2>3. k \in Nat
      <3> DEFINE u == real
                 v == real'
      <3>1. u \in Nat /\ v \in Int /\ u <= v
        BY <1>3, Typed
      <3> HIDE DEF u, v
      <3>2. v - u \in Nat
        BY <3>1
      <3>3. QED BY <3>2 DEF u, v
    <2> HIDE DEF e, p, r, k
    <2>4. elapsed' + r <= (e + p) + k
      BY <2>1, <2>2, <2>3
    <2>5. QED BY <2>3, <2>4 DEF e, p, r, k
  <1>7. Clock'
    <2>1. elapsed + Passed <= real /\ real \in Nat /\ real' \in Nat /\ elapsed + Passed \in Nat
          /\ elapsed' + Passed' \in Nat
      BY <1>1, <1>3, Typed, DelayAssumption DEF TimerInv, Clock
    <2>2. elapsed' + Passed' <= real'
      BY <1>6, <2>1
    <2>3. ASSUME NEW t \in Tokens'
          PROVE  due'[t] <= MaxTime /\ notBefore'[t] - due'[t] <= real' - (elapsed' + Passed')
      <3>1. /\ due[t] <= MaxTime /\ notBefore[t] - due[t] <= real - (elapsed + Passed)
            /\ due[t] \in Nat /\ notBefore[t] \in Nat /\ due' = due /\ notBefore' = notBefore
        BY <1>1, <1>2, Typed DEF TimerInv, Clock
      <3>2. QED BY <1>6, <2>1, <3>1
    <2>4. QED BY <1>3, <2>2, <2>3 DEF Clock
  <1>8. NeverEarly'
    <2>1. ASSUME NEW i \in DOMAIN run' PROVE notBefore'[run'[i]] <= real'
      <3>1. run' = run /\ notBefore' = notBefore /\ i \in DOMAIN run
        BY <1>1
      <3>2. run[i] \in Tokens
        BY <3>1, Typed
      <3>3. notBefore[run[i]] \in Nat /\ real \in Nat
        BY <3>2, Typed
      <3>4. notBefore[run[i]] <= real
        BY <3>1 DEF TimerInv, NeverEarly
      <3>5. real <= real' /\ real' \in Int
        BY <1>3
      <3>6. QED BY <3>1, <3>3, <3>4, <3>5
    <2>2. QED BY <2>1 DEF NeverEarly
  <1>9. SleepEndsInTime'
    <2> SUFFICES ASSUME pc' = "select", queue' # <<>>
                 PROVE  sleep' <= (IF due'[queue'[1].token] > elapsed' + Passed'
                                     THEN due'[queue'[1].token] - (elapsed' + Passed') ELSE 0)
      BY DEF SleepEndsInTime
    <2> DEFINE x == due[queue[1].token]
               a == elapsed + Passed
               b == elapsed' + Passed'
               k == real' - real
    <2>1. 1 \in 1 .. Len(queue)
      BY <1>1, Typed, EmptySeq DEF Lists
    <2>2. x \in Nat /\ a \in Nat /\ b \in Nat /\ k \in Nat /\ b <= a + k /\ sleep \in Nat
      <3>1. x \in Nat /\ a \in Nat /\ sleep \in Nat
        BY <2>1, Typed
      <3>2. b \in Nat
        BY <1>1, <1>3, Typed
      <3>3. QED BY <1>6, <3>1, <3>2
    <2>5. pc = "select" /\ queue # <<>> /\ sleep' \in Nat
          /\ sleep' <= (IF sleep > real' - real THEN sleep - (real' - real) ELSE 0)
      BY <1>1, <1>4
    <2>3. sleep <= IF x > a THEN x - a ELSE 0
      BY <2>5 DEF TimerInv, SleepEndsInTime
    <2>4. sleep' <= (IF sleep > k THEN sleep - k ELSE 0) /\ sleep' \in Nat
      BY <2>5
    <2> HIDE DEF x, a, b, k
    <2>6. sleep' <= IF x > b THEN x - b ELSE 0
      BY <2>2, <2>3, <2>4
    <2>7. QED BY <1>1, <2>6 DEF x, b
  <1>10. QED BY <1>1, <1>2, <1>5, <1>7, <1>8, <1>9 DEF TimerInv

\* Every step keeps the invariant.
LEMMA NextInv == TimerInv /\ [Next]_vars => TimerInv'
  <1> SUFFICES ASSUME TimerInv, [Next]_vars PROVE TimerInv'
    OBVIOUS
  <1>1. CASE \E d \in Delays : Schedule(d)
    BY <1>1, ScheduleKeeps
  <1>2. CASE \E t \in Tokens : Unschedule(t)
    BY <1>2, UnscheduleKeeps
  <1>3. CASE TimeToNextAlarm
    BY <1>3, TimeToNextAlarmKeeps
  <1>4. CASE HandleAlarm
    BY <1>4, HandleAlarmKeeps
  <1>5. CASE Waits
    BY <1>5, WaitsKeeps
  <1>6. QED BY <1>1, <1>2, <1>3, <1>4, <1>5 DEF Next, SingleStep, Waits

\* The invariant holds in every state.
LEMMA AlwaysInv == Spec => []TimerInv
  BY InitInv, NextInv, PTL DEF Spec

-----------------------------------------------------------------------------
(* The properties of the list.                                             *)

\* Whatever is scheduled, unscheduled and run, in any order, and whatever the
\* clock does meanwhile, the differences that the list keeps add up to what the
\* deadlines say, and the entries stand in the order of their deadlines.
THEOREM ListSafety == Spec => []ListInv
  <1>1. TimerInv => ListInv
    <2> SUFFICES ASSUME TimerInv PROVE ListInv
      OBVIOUS
    <2>1. ASSUME NEW i \in DOMAIN queue
          PROVE  LET left == due[queue[i].token] - elapsed
                 IN /\ Ahead(queue, i) = IF left > 0 THEN left ELSE 0
                    /\ \A j \in 1 .. i - 1 : due[queue[j].token] <= due[queue[i].token]
      <3> DEFINE x == due[queue[i].token]
      <3>1. i \in 1 .. Len(queue) /\ Len(queue) \in Nat /\ elapsed \in Nat
        BY Typed
      <3>2. x \in Nat
        BY <3>1, Typed
      <3>3. Ahead(queue, i) = IF x > elapsed THEN x - elapsed ELSE 0
        BY <3>1 DEF TimerInv, Matches
      <3>4. ASSUME NEW j \in 1 .. i - 1 PROVE due[queue[j].token] <= x
        <4>1. j \in 1 .. Len(queue) /\ j < i
          BY <3>1
        <4>2. Earlier(due, queue[j].token, queue[i].token)
          BY <3>1, <4>1 DEF TimerInv, Sorted
        <4>3. due[queue[j].token] \in Nat
          BY <4>1, Typed
        <4>4. QED BY <3>2, <4>2, <4>3 DEF Earlier
      <3>5. Ahead(queue, i) = IF x - elapsed > 0 THEN x - elapsed ELSE 0
        <4> HIDE DEF x
        <4>1. QED BY <3>1, <3>2, <3>3
      <3>6. QED BY <3>4, <3>5
    <2>2. DeltasMatchDeadlines
      BY <2>1 DEF DeltasMatchDeadlines
    <2>3. QED BY <2>2 DEF TimerInv, Types, ListInv
  <1>2. QED BY <1>1, AlwaysInv, PTL

\* No task is run before its delay has passed in real time, however often and
\* by how much the clock is set back.
THEOREM RunsNoTaskEarly == Spec => []NeverEarly
  <1>1. TimerInv => NeverEarly
    BY DEF TimerInv
  <1>2. QED BY <1>1, AlwaysInv, PTL

\* select is never given a timeout that ends after the first entry is due.
THEOREM SleepsNoLonger == Spec => []SleepEndsInTime
  <1>1. TimerInv => SleepEndsInTime
    BY DEF TimerInv
  <1>2. QED BY <1>1, AlwaysInv, PTL

-----------------------------------------------------------------------------
(* The list implements the service: each step of the list is a step of the *)
(* service or none.                                                        *)

RunSet == {run[i] : i \in DOMAIN run}

\* The empty list is the service that has just started.
LEMMA ServiceStarts == Init => Timer!Init
  <1> SUFFICES ASSUME Init PROVE Timer!Init
    OBVIOUS
  <1>1. queue = <<>> /\ run = <<>> /\ elapsed = 0 /\ tokenCounter = 0 /\ due = <<>>
    BY DEF Init
  <1>2. Waiting = {} /\ {run[i] : i \in DOMAIN run} = {}
    BY <1>1 DEF Waiting
  <1>3. QED BY <1>1, <1>2 DEF Timer!Init

\* A step that only lets the queue see time is an advance of the service.
LEMMA ServiceAdvances ==
  ASSUME TimerInv, elapsed' \in Nat, elapsed <= elapsed', Waiting' = Waiting, RunSet' = RunSet,
         UNCHANGED <<tokenCounter, due>>
  PROVE  [Timer!Next]_(Timer!vars)
  <1>1. CASE elapsed' = elapsed
    BY <1>1 DEF Timer!vars, RunSet
  <1>2. CASE elapsed' # elapsed
    <2>1. elapsed' > elapsed
      BY <1>2, Typed
    <2>2. Timer!Advance
      BY <2>1 DEF Timer!Advance, RunSet
    <2>3. QED BY <2>2 DEF Timer!Next
  <1>3. QED BY <1>1, <1>2

\* The list schedules as the service does.
LEMMA ServiceSchedules ==
  ASSUME TimerInv, NEW d \in Delays, Schedule(d)
  PROVE  Timer!Schedule(d)
  <1>1. /\ tokenCounter' = tokenCounter + 1 /\ elapsed' = elapsed + Passed
        /\ due' = Append(due, elapsed' + d) /\ run' = run
    BY DEF Schedule
  <1>2. tokenCounter \in Nat /\ elapsed' \in Nat /\ elapsed' >= elapsed
    BY <1>1, Typed
  <1>3. Waiting' = Waiting \cup {tokenCounter'}
    BY ScheduleKeeps DEF Waiting, TokensOf
  <1>4. due' = [t \in 1 .. tokenCounter' |-> IF t = tokenCounter' THEN elapsed' + d ELSE due[t]]
    <2> DEFINE n == tokenCounter + 1
               x == elapsed' + d
    <2>1. due \in Seq(Nat) /\ Len(due) = tokenCounter /\ x \in Nat
      <3>1. d \in Nat
        BY DelayAssumption
      <3> DEFINE e == elapsed'
      <3>2. e \in Nat
        BY <1>2
      <3> HIDE DEF e
      <3>3. e + d \in Nat
        BY <3>1, <3>2
      <3>4. QED BY <3>3 DEF TimerInv, Types, e
    <2> HIDE DEF x
    <2>2. /\ Append(due, x) \in Seq(Nat) /\ Len(Append(due, x)) = n
          /\ Append(due, x)[n] = x /\ \A t \in 1 .. tokenCounter : Append(due, x)[t] = due[t]
      BY <2>1, AppendProperties
    <2> DEFINE later == Append(due, x)
    <2> HIDE DEF later
    <2>3. later = [t \in 1 .. n |-> later[t]]
      BY <2>2, LenProperties DEF later
    <2>4. \A t \in 1 .. n : later[t] = IF t = n THEN x ELSE due[t]
      BY <1>2, <2>2 DEF later
    <2>5. later = [t \in 1 .. n |-> IF t = n THEN x ELSE due[t]]
      BY <2>3, <2>4
    <2>6. QED BY <1>1, <2>5 DEF later, x
  <1>5. QED BY <1>1, <1>2, <1>3, <1>4 DEF Timer!Schedule

\* The list unschedules as the service does.
LEMMA ServiceUnschedules ==
  ASSUME TimerInv, NEW t \in Tokens, Unschedule(t)
  PROVE  t \in Waiting /\ Timer!Unschedule(t)
  <1>1. t \in Waiting /\ Waiting' = Waiting \ {t}
    BY UnscheduleKeeps DEF Waiting, TokensOf
  <1>2. UNCHANGED <<elapsed, tokenCounter, due, run>>
    BY DEF Unschedule, histVars
  <1>3. QED BY <1>1, <1>2 DEF Timer!Unschedule

\* The head that handleAlarm runs is the task the service would run.
LEMMA ServiceRuns ==
  ASSUME TimerInv, HandleAlarm, Head0(Looked)
  PROVE  \E t \in Waiting : Timer!RunTask(t)
  <1>0. PICK t : t = Looked[1].token
    OBVIOUS
  <1>1. HeadRun /\ SyncTimes
    BY HandleAlarmKeeps
  <1>2. UNCHANGED <<tokenCounter, due, now>>
    BY DEF HandleAlarm, clockVars
  <1>3. elapsed' \in Nat /\ elapsed' >= elapsed
    BY <1>1, <1>2, LookedFacts, Typed
  <1>4. /\ t \in Waiting /\ due[t] <= elapsed' /\ Waiting' = Waiting \ {t}
        /\ \A u \in Waiting \ {t} : Timer!Earlier(t, u)
    BY <1>0, <1>1 DEF HeadRun, Waiting, TokensOf, Earlier, Timer!Earlier
  <1>5. {run[i] : i \in DOMAIN run}' = {run[i] : i \in DOMAIN run} \cup {t}
    <2>1. t \in Tokens /\ run' = Append(run, t)
      <3>1. t \in TokensOf(queue) /\ run' = Append(run, t)
        BY <1>0, <1>1 DEF HeadRun
      <3>2. QED BY <3>1, Typed DEF TokensOf
    <2>2. /\ run' \in Seq(Tokens) /\ Len(run') = Len(run) + 1
          /\ run'[Len(run) + 1] = t /\ \A i \in 1 .. Len(run) : run'[i] = run[i]
          /\ Len(run) \in Nat /\ DOMAIN run = 1 .. Len(run) /\ DOMAIN run' = 1 .. Len(run) + 1
      <3>1. run \in Seq(Tokens) /\ Len(run) \in Nat /\ DOMAIN run = 1 .. Len(run)
        BY Typed
      <3>2. /\ run' \in Seq(Tokens) /\ Len(run') = Len(run) + 1
            /\ run'[Len(run) + 1] = t /\ \A i \in 1 .. Len(run) : run'[i] = run[i]
        BY <2>1, <3>1, AppendProperties
      <3>3. DOMAIN run' = 1 .. Len(run) + 1
        BY <3>2, LenProperties
      <3>4. QED BY <3>1, <3>2, <3>3
    <2>3. ASSUME NEW u \in {run'[i] : i \in DOMAIN run'}
          PROVE  u \in {run[i] : i \in DOMAIN run} \cup {t}
      <3>1. PICK i \in 1 .. Len(run) + 1 : u = run'[i]
        BY <2>2
      <3>2. CASE i = Len(run) + 1
        BY <2>2, <3>1, <3>2
      <3>3. CASE i # Len(run) + 1
        <4>1. i \in 1 .. Len(run)
          BY <2>2, <3>3
        <4>2. QED BY <2>2, <3>1, <4>1
      <3>4. QED BY <3>2, <3>3
    <2>4. ASSUME NEW u \in {run[i] : i \in DOMAIN run} PROVE u \in {run'[i] : i \in DOMAIN run'}
      <3>1. PICK i \in 1 .. Len(run) : u = run[i]
        BY <2>2
      <3>2. i \in 1 .. Len(run) + 1 /\ u = run'[i]
        BY <2>2, <3>1
      <3>3. QED BY <2>2, <3>2
    <2>5. t \in {run'[i] : i \in DOMAIN run'}
      <3>1. Len(run) + 1 \in DOMAIN run'
        BY <2>2
      <3>2. QED BY <2>2, <3>1
    <2>6. QED BY <2>3, <2>4, <2>5
  <1>6. Timer!RunTask(t)
    <2>1. {run'[i] : i \in DOMAIN run'} = {run[i] : i \in DOMAIN run} \cup {t}
      BY <1>5
    <2>2. QED BY <1>2, <1>3, <1>4, <2>1 DEF Timer!RunTask
  <1>7. QED BY <1>4, <1>6

\* Each step of the list is one of the service, or none.
LEMMA ServiceSteps == TimerInv /\ [Next]_vars => [Timer!Next]_(Timer!vars)
  <1> SUFFICES ASSUME TimerInv, [Next]_vars PROVE [Timer!Next]_(Timer!vars)
    OBVIOUS
  <1>1. ASSUME NEW d \in Delays, Schedule(d) PROVE Timer!Next
    BY <1>1, ServiceSchedules DEF Timer!Next
  <1>2. ASSUME NEW t \in Tokens, Unschedule(t) PROVE Timer!Next
    BY <1>2, ServiceUnschedules DEF Timer!Next
  <1>3. CASE TimeToNextAlarm
    <2>1. SyncTimes /\ queue' = Looked
      BY <1>3, TimeToNextAlarmKeeps
    <2>2. UNCHANGED <<now, tokenCounter, due, run>>
      BY <1>3 DEF TimeToNextAlarm, clockVars, histVars
    <2>3. elapsed' \in Nat /\ elapsed <= elapsed' /\ TokensOf(Looked) = TokensOf(queue)
      BY <2>1, <2>2, LookedFacts
    <2>4. Waiting' = Waiting /\ RunSet' = RunSet
      BY <2>1, <2>2, <2>3 DEF Waiting, TokensOf, RunSet
    <2>5. QED BY <2>2, <2>3, <2>4, ServiceAdvances
  <1>4. CASE HandleAlarm
    <2>1. CASE Head0(Looked)
      BY <1>4, <2>1, ServiceRuns DEF Timer!Next
    <2>2. CASE ~Head0(Looked)
      <3>1. SyncTimes /\ queue' = Looked /\ run' = run
        BY <1>4, <2>2, HandleAlarmKeeps
      <3>2. UNCHANGED <<now, tokenCounter, due>>
        BY <1>4 DEF HandleAlarm, clockVars
      <3>3. elapsed' \in Nat /\ elapsed <= elapsed' /\ TokensOf(Looked) = TokensOf(queue)
        BY <3>1, <3>2, LookedFacts
      <3>4. Waiting' = Waiting /\ RunSet' = RunSet
        BY <3>1, <3>3 DEF Waiting, TokensOf, RunSet
      <3>5. QED BY <3>2, <3>3, <3>4, ServiceAdvances
    <2>3. QED BY <2>1, <2>2
  <1>5. CASE Waits
    <2>1. UNCHANGED <<queue, elapsed, tokenCounter, due, run>>
      BY <1>5, WaitsKeeps
    <2>2. QED BY <2>1 DEF Timer!vars, Waiting
  <1>6. QED BY <1>1, <1>2, <1>3, <1>4, <1>5 DEF Next, SingleStep, Waits

\* The list of differences, brought up to date when it is looked at, implements
\* the service: a task runs once, when it is due, in the order of the deadlines,
\* and not after it has been unscheduled.
THEOREM ImplementsService == Spec => ImplementsTimerService
  <1>1. Init => Timer!Init
    BY ServiceStarts
  <1>2. TimerInv /\ [Next]_vars => [Timer!Next]_(Timer!vars)
    BY ServiceSteps
  <1>3. QED BY <1>1, <1>2, AlwaysInv, PTL DEF Spec, ImplementsTimerService, Timer!Spec
=============================================================================
