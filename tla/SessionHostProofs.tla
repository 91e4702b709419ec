------------------------- MODULE SessionHostProofs -------------------------
(***************************************************************************)
(* Proofs about the session and its groupsock, for all addresses, ports,   *)
(* times-to-live and session ids and for lists of every length.            *)
(*                                                                         *)
(* OwnTtl is inductive together with the types of the variables a write    *)
(* touches; that the list holds nothing but records is not needed, because *)
(* write takes its TTL as one byte.  SessionIsUndone needs to know which   *)
(* objects there are at each point of UnInitialize: the table Existing.    *)
(* DestinationsInv is about the list itself: what each way of editing it   *)
(* leaves of the records it held.                                          *)
(***************************************************************************)
EXTENDS SessionHost, SequenceTheorems, WellFoundedInduction, TLAPS

WriteTypes ==
    /\ socket \in [open : BOOLEAN, ttl : 0 .. MaxTtl]
    /\ fLastSentTTL \in 0 .. NoTtl
    /\ datagram \in [ttl : 0 .. MaxTtl, wanted : 0 .. MaxTtl, excused : BOOLEAN]
    /\ stale \in BOOLEAN

TtlInv == WriteTypes /\ OwnTtl

\* What stands for the last datagram before there is one.
LEMMA NoDatagramIsRight ==
    /\ NoDatagram \in [ttl : 0 .. MaxTtl, wanted : 0 .. MaxTtl, excused : BOOLEAN]
    /\ NoDatagram.ttl = NoDatagram.wanted
<1>1. MaxTtl \in 0 .. MaxTtl
  BY DEF MaxTtl
<1>2. NoDatagram.ttl = MaxTtl /\ NoDatagram.wanted = MaxTtl
  BY DEF NoDatagram
<1> QED BY <1>1, <1>2 DEF NoDatagram

\* The groupsock of a new session satisfies the invariant.
LEMMA CreateIsRight ==
    ASSUME NEW ds, NEW up \in BOOLEAN, Create(ds, up)
    PROVE  TtlInv'
<1>1. SocketTtl \in 0 .. MaxTtl
  BY GroupsockAssumption
<1>2. socket' \in [open : BOOLEAN, ttl : 0 .. MaxTtl]
  BY <1>1 DEF Create
<1>3. datagram' \in [ttl : 0 .. MaxTtl, wanted : 0 .. MaxTtl, excused : BOOLEAN]
      /\ datagram'.ttl = datagram'.wanted
  <2>1. datagram' = NoDatagram
    BY DEF Create
  <2> QED BY <2>1, NoDatagramIsRight
<1>4. fLastSentTTL' \in 0 .. NoTtl /\ fLastSentTTL' = NoTtl /\ stale' \in BOOLEAN
  <2>1. stale' \in BOOLEAN
    BY DEF Create
  <2>2. fLastSentTTL' = NoTtl /\ NoTtl \in 0 .. NoTtl
    BY DEF Create, NoTtl
  <2> QED BY <2>1, <2>2
<1> QED BY <1>2, <1>3, <1>4 DEF TtlInv, WriteTypes, OwnTtl, CacheIsTrue

\* A change of the port leaves the cache behind, and says so.
LEMMA ChangePortIsNoted ==
    ASSUME TtlInv, NEW up \in BOOLEAN, changePort(up),
           UNCHANGED <<fLastSentTTL, datagram>>
    PROVE  TtlInv'
  BY GroupsockAssumption
  DEF changePort, TtlInv, WriteTypes, OwnTtl, CacheIsTrue, MaxTtl, NoTtl

\* Whatever is done to the list, the cache keeps its meaning.
LEMMA EditKeepsTtl ==
    ASSUME TtlInv, Edit
    PROVE  TtlInv'
<1>1. CASE UNCHANGED <<socket, fLastSentTTL, datagram, stale>>
  BY <1>1 DEF TtlInv, WriteTypes, OwnTtl, CacheIsTrue
<1>2. ASSUME NEW a, NEW p, NEW t, NEW s, changeDestinationParameters(a, p, t, s)
      PROVE  TtlInv'
  <2>1. UNCHANGED <<fLastSentTTL, datagram>>
    BY <1>2 DEF changeDestinationParameters
  <2>2. (\E up \in BOOLEAN : changePort(up)) \/ UNCHANGED <<socket, stale>>
    BY <1>2 DEF changeDestinationParameters
  <2> QED BY <1>1, <2>1, <2>2, ChangePortIsNoted
<1> QED
  BY <1>1, <1>2 DEF Edit, addDestination, removeDestination, removeAllDestinations,
    changeDestinationOfNewSession

\* Every outcome of a write keeps the cache's meaning, and what leaves is right.
LEMMA SendKeepsTtl ==
    ASSUME TtlInv, Send
    PROVE  TtlInv'
<1>1. CASE output
  BY <1>1 DEF output, TtlInv, WriteTypes, OwnTtl, CacheIsTrue
<1>2. ASSUME NEW ttl \in Ttls,
             writeSends(ttl) \/ ttlIsRefused(ttl) \/ sendFails(ttl)
      PROVE  TtlInv'
  <2>0. ttl \in 0 .. MaxTtl /\ ttl # NoTtl
    BY GroupsockAssumption DEF MaxTtl, NoTtl
  <2>1. CASE writeSends(ttl)
    BY <2>0, <2>1 DEF writeSends, TtlToSet, TtlInv, WriteTypes, OwnTtl, CacheIsTrue, MaxTtl, NoTtl
  <2>2. CASE ttlIsRefused(ttl)
    BY <2>2 DEF ttlIsRefused, TtlInv, WriteTypes, OwnTtl, CacheIsTrue
  <2>3. CASE sendFails(ttl)
    <3>1. CASE TtlToSet(ttl)
      BY <2>0, <2>3, <3>1 DEF sendFails, TtlInv, WriteTypes, OwnTtl, CacheIsTrue, MaxTtl, NoTtl
    <3>2. CASE ~TtlToSet(ttl)
      BY <2>3, <3>2 DEF sendFails, TtlInv, WriteTypes, OwnTtl, CacheIsTrue
    <3> QED BY <3>1, <3>2
  <2> QED BY <1>2, <2>1, <2>2, <2>3
<1> QED BY <1>1, <1>2 DEF Send

LEMMA TtlInvStep ==
    ASSUME TtlInv, [Next]_vars
    PROVE  TtlInv'
<1>1. CASE UNCHANGED groupsock
  BY <1>1 DEF groupsock, TtlInv, WriteTypes, OwnTtl, CacheIsTrue
<1>2. CASE Initialize
  BY <1>2, CreateIsRight DEF Initialize
<1>3. CASE Edit
  BY <1>3, EditKeepsTtl
<1>4. CASE Send
  BY <1>4, SendKeepsTtl
<1> QED
  BY <1>1, <1>2, <1>3, <1>4 DEF Next, vars, StartVideo, StartAudio, StopPlaying,
    UnInitialize, Close, Delete, Reclaim

\* Every datagram to a multicast address leaves with the TTL its record asks for,
\* whatever other destinations, unicast ones too, made of the socket's option,
\* unless the cache was left behind in one of the two ways that OwnTtl names
\* (OutputSocket::write).
THEOREM OwnTtlHolds == Spec => []OwnTtl
<1>1. ASSUME Init PROVE TtlInv
  <2>1. SocketTtl \in 0 .. MaxTtl
    BY GroupsockAssumption
  <2>2. socket \in [open : BOOLEAN, ttl : 0 .. MaxTtl]
    BY <1>1, <2>1 DEF Init
  <2>3. datagram \in [ttl : 0 .. MaxTtl, wanted : 0 .. MaxTtl, excused : BOOLEAN]
        /\ datagram.ttl = datagram.wanted
    <3>1. datagram = NoDatagram
      BY <1>1 DEF Init
    <3> QED BY <3>1, NoDatagramIsRight
  <2>4. fLastSentTTL \in 0 .. NoTtl /\ fLastSentTTL = NoTtl /\ stale \in BOOLEAN
    <3>1. stale \in BOOLEAN
      BY <1>1 DEF Init
    <3>2. fLastSentTTL = NoTtl /\ NoTtl \in 0 .. NoTtl
      BY <1>1 DEF Init, NoTtl
    <3> QED BY <3>1, <3>2
  <2> QED BY <2>2, <2>3, <2>4 DEF TtlInv, WriteTypes, OwnTtl, CacheIsTrue
<1>2. TtlInv /\ [Next]_vars => TtlInv'
  BY TtlInvStep
<1>3. TtlInv => OwnTtl
  BY DEF TtlInv
<1> QED BY <1>1, <1>2, <1>3, PTL DEF Spec

-----------------------------------------------------------------------------
\* What exists at each point of a session.
Existing ==
    [ down         |-> {},
      ready        |-> Objects \ {"fragmenter"},
      video        |-> Objects,
      playing      |-> Objects,
      videoStopped |-> Objects,
      stopped      |-> Objects,
      noSinkVid    |-> Objects \ {"sinkVid", "fragmenter"},
      noSinks      |-> Objects \ {"sinkVid", "fragmenter", "sinkAud"},
      noSrcVid     |-> {"srcAud", "gsVid", "gsAud", "scheduler", "environment"},
      noMedia      |-> {"gsVid", "gsAud", "scheduler", "environment"},
      noGsVid      |-> {"gsAud", "scheduler", "environment"},
      noGroupsocks |-> {"scheduler", "environment"},
      reclaim      |-> {"environment"} ]

\* What the pointers of a session reach while it is not undone.
Pointers ==
    /\ fSource \in [{"sinkVid", "sinkAud"} -> {Null, "fragmenter", "srcAud"}]
    /\ fSource["sinkVid"] \in {Null, "fragmenter"} /\ fSource["sinkAud"] \in {Null, "srcAud"}
    /\ fInputSource \in {Null, "srcVid"} /\ fOurFragmenter \in {Null, "fragmenter"}
    /\ pc \in {"ready", "stopped"} => \A k \in {"sinkVid", "sinkAud"} : fSource[k] = Null
    /\ pc = "videoStopped" => fSource["sinkVid"] = Null
    /\ pc = "noSinkVid" => fSource["sinkAud"] = Null
    /\ pc \in {"video", "playing", "videoStopped", "stopped"} => fOurFragmenter = "fragmenter"

SessionInv ==
    /\ pc \in DOMAIN Existing
    /\ alive = Existing[pc]
    /\ mediaTable = alive \intersect Media
    /\ hasTable = (mediaTable # {})
    /\ dangling = FALSE
    /\ Pointers

LEMMA SessionInvStep ==
    ASSUME SessionInv, [Next]_vars
    PROVE  SessionInv'
<1> USE DEF SessionInv
<1>1. CASE UNCHANGED session
  BY <1>1 DEF session, Pointers
<1>2. CASE Initialize
  BY <1>2 DEF Initialize, Existing, Objects, Media, Pointers, Null
<1>3. CASE StartVideo
  BY <1>3 DEF StartVideo, Existing, Objects, Media, Pointers, Null
<1>4. CASE StartAudio
  BY <1>4 DEF StartAudio, Existing, Objects, Media, Pointers, Null
<1>5. CASE StopPlaying("sinkVid", "playing", "videoStopped")
  BY <1>5 DEF StopPlaying, Chain, Existing, Objects, Media, Pointers, Null
<1>6. CASE StopPlaying("sinkAud", "videoStopped", "stopped")
  BY <1>6 DEF StopPlaying, Chain, Existing, Objects, Media, Pointers, Null
<1>7. CASE Close("sinkVid", "stopped", "noSinkVid")
  <2>1. GoneWith("sinkVid") = {"sinkVid", "fragmenter"}
    BY <1>7 DEF Close, GoneWith, Pointers, Null
  <2>2. UsedBy("sinkVid") \subseteq Objects
    BY <1>7 DEF Close, UsedBy, Chain, Pointers, Null, Objects, Media
  <2> QED BY <1>7, <2>1, <2>2 DEF Close, Existing, Objects, Media, Pointers, Null
<1>8. CASE Close("sinkAud", "noSinkVid", "noSinks")
  <2>1. GoneWith("sinkAud") = {"sinkAud"}
    BY DEF GoneWith
  <2>2. UsedBy("sinkAud") = {"sinkAud", "environment", "scheduler", "gsAud"}
    BY <1>8 DEF Close, UsedBy, Chain, Pointers, Null
  <2> QED BY <1>8, <2>1, <2>2 DEF Close, Existing, Objects, Media, Pointers, Null
<1>9. CASE Close("srcVid", "noSinks", "noSrcVid")
  BY <1>9 DEF Close, GoneWith, UsedBy, Existing, Objects, Media, Pointers, Null
<1>10. CASE Close("srcAud", "noSrcVid", "noMedia")
  BY <1>10 DEF Close, GoneWith, UsedBy, Existing, Objects, Media, Pointers, Null
<1>11. CASE Delete("gsVid", "noMedia", "noGsVid")
  BY <1>11 DEF Delete, UsedBy, Existing, Objects, Media, Pointers, Null
<1>12. CASE Delete("gsAud", "noGsVid", "noGroupsocks")
  BY <1>12 DEF Delete, UsedBy, Existing, Objects, Media, Pointers, Null
<1>13. CASE Delete("scheduler", "noGroupsocks", "reclaim")
  BY <1>13 DEF Delete, UsedBy, Existing, Objects, Media, Pointers, Null
<1>14. CASE Reclaim
  BY <1>14 DEF Reclaim, Existing, Objects, Media, Pointers, Null
<1> QED
  BY <1>1, <1>2, <1>3, <1>4, <1>5, <1>6, <1>7, <1>8, <1>9, <1>10, <1>11, <1>12,
     <1>13, <1>14 DEF Next, UnInitialize, vars

\* UnInitialize releases everything a session created, each object once and
\* none before the last use of it, whatever the groupsock did in between.
THEOREM SessionIsUndoneHolds == Spec => []SessionIsUndone
<1>1. ASSUME Init PROVE SessionInv
  <2>1. Pointers
    BY <1>1 DEF Init, Pointers, Null
  <2>2. pc = "down" /\ "down" \in DOMAIN Existing /\ Existing[pc] = {}
    BY <1>1 DEF Init, Existing
  <2> QED BY <1>1, <2>1, <2>2 DEF Init, SessionInv
<1>2. SessionInv /\ [Next]_vars => SessionInv'
  BY SessionInvStep
<1>3. SessionInv => SessionIsUndone
  BY DEF SessionInv, SessionIsUndone, Existing
<1> QED BY <1>1, <1>2, <1>3, PTL DEF Spec

-----------------------------------------------------------------------------
(* The list of destinations.  Removed walks it by recursion; what is left   *)
(* of a list of any length is proved by least counterexample.               *)

SameDest(d, e) == d.addr = e.addr /\ d.port = e.port /\ d.id = e.id

DistinctIn(ds) == \A i, j \in DOMAIN ds : SameDest(ds[i], ds[j]) => i = j

\* What the walk has kept of the first n records.
KeptOf(ds, s, n, kept) ==
    /\ kept \in Seq(Dest) /\ Len(kept) <= n
    /\ DistinctIn(kept)
    /\ \A i \in DOMAIN kept : \E k \in 1 .. n : kept[i] = ds[k] /\ ds[k].id # s

Walk(ds, s, f, n) ==
    f = [m \in 0 .. n |->
           IF m = 0 THEN <<>>
           ELSE IF ds[m].id = s THEN f[m - 1] ELSE Append(f[m - 1], ds[m])]

\* A set of natural numbers that is not empty has a smallest one.
LEMMA SmallestNumber ==
    ASSUME NEW N \in SUBSET Nat, N # {}
    PROVE  \E n \in N : \A m \in N : n <= m
<1>1. PICK n \in N : \A m \in N : <<m, n>> \notin OpToRel(<, Nat)
  BY WFMin, NatLessThanWellFounded
<1>2. ASSUME NEW m \in N PROVE n <= m
  <2>1. m \in Nat /\ n \in Nat
    OBVIOUS
  <2>2. ~(m < n)
    BY <1>1, <2>1 DEF OpToRel
  <2> QED BY <2>1, <2>2
<1> QED BY <1>2

\* The walk ends, for a list of any length.
LEMMA WalkExists ==
    ASSUME NEW ds, NEW s, NEW n \in Nat
    PROVE  \E f : Walk(ds, s, f, n)
<1> DEFINE N == {k \in Nat : ~\E f : Walk(ds, s, f, k)}
<1> SUFFICES ASSUME N # {} PROVE FALSE
  OBVIOUS
<1>1. PICK k \in N : \A m \in N : k <= m
  <2>1. N \in SUBSET Nat
    OBVIOUS
  <2> HIDE DEF N
  <2> QED BY <2>1, SmallestNumber
<1>2. CASE k = 0
  <2> DEFINE f == [m \in 0 .. k |-> <<>>]
  <2>1. \A m \in 0 .. k : m = 0
    BY <1>2
  <2>2. Walk(ds, s, f, k)
    BY <2>1 DEF Walk
  <2> QED BY <1>1, <2>2
<1>3. CASE k # 0
  <2>1. k - 1 \in Nat /\ k \in Nat /\ k - 1 \notin N
    <3>1. k \in Nat /\ k - 1 \in Nat /\ ~(k <= k - 1)
      BY <1>1, <1>3
    <3> HIDE DEF N
    <3> QED BY <1>1, <3>1
  <2>2. PICK f : Walk(ds, s, f, k - 1)
    BY <2>1
  <2> DEFINE last == IF ds[k].id = s THEN f[k - 1] ELSE Append(f[k - 1], ds[k])
             g == [m \in 0 .. k |-> IF m = k THEN last ELSE f[m]]
             step(h, m) == IF m = 0 THEN <<>>
                           ELSE IF ds[m].id = s THEN h[m - 1] ELSE Append(h[m - 1], ds[m])
  <2>3. \A m \in 0 .. k - 1 : f[m] = step(f, m)
    BY <2>1, <2>2 DEF Walk
  <2>4. ASSUME NEW m \in 0 .. k
        PROVE  g[m] = step(g, m)
    <3>1. CASE m = k
      <4>1. k - 1 \in 0 .. k /\ k - 1 # k /\ k \in 0 .. k
        BY <2>1
      <4>2. g[k] = last /\ g[k - 1] = f[k - 1]
        BY <4>1
      <4> QED BY <1>3, <3>1, <4>2
    <3>2. CASE m # k
      <4>1. m \in 0 .. k - 1 /\ (m # 0 => m - 1 \in 0 .. k /\ m - 1 # k)
        BY <2>1, <3>2
      <4>2. g[m] = f[m] /\ (m # 0 => g[m - 1] = f[m - 1])
        BY <3>2, <4>1
      <4>3. f[m] = step(f, m)
        BY <2>3, <4>1
      <4> QED BY <4>2, <4>3
    <3> QED BY <3>1, <3>2
  <2>5. g = [m \in 0 .. k |-> g[m]]
    OBVIOUS
  <2> HIDE DEF g
  <2>6. Walk(ds, s, g, k)
    BY <2>4, <2>5 DEF Walk
  <2> QED BY <1>1, <2>6
<1> QED BY <1>2, <1>3

\* One record more.
LEMMA WalkStep ==
    ASSUME NEW ds \in Seq(Dest), DistinctIn(ds), NEW s, NEW n \in 1 .. Len(ds), NEW kept,
           KeptOf(ds, s, n - 1, kept)
    PROVE  KeptOf(ds, s, n, IF ds[n].id = s THEN kept ELSE Append(kept, ds[n]))
<1>1. n \in Nat /\ n - 1 \in Nat /\ Len(ds) \in Nat /\ DOMAIN ds = 1 .. Len(ds) /\ ds[n] \in Dest
  BY LenProperties, ElementOfSeq
<1>2. /\ kept \in Seq(Dest) /\ Len(kept) \in Nat /\ Len(kept) <= n - 1 /\ DOMAIN kept = 1 .. Len(kept)
      /\ DistinctIn(kept)
      /\ \A i \in DOMAIN kept : \E k \in 1 .. n - 1 : kept[i] = ds[k] /\ ds[k].id # s
  BY LenProperties DEF KeptOf
<1>3. 1 .. n - 1 \subseteq 1 .. n /\ \A k \in 1 .. n - 1 : k \in DOMAIN ds /\ k # n
  BY <1>1
<1>4. CASE ds[n].id = s
  BY <1>1, <1>2, <1>3, <1>4 DEF KeptOf
<1>5. CASE ds[n].id # s
  <2> DEFINE more == Append(kept, ds[n])
  <2>1. /\ more \in Seq(Dest) /\ Len(more) = Len(kept) + 1
        /\ \A i \in 1 .. Len(kept) : more[i] = kept[i]
        /\ more[Len(kept) + 1] = ds[n]
    BY <1>1, <1>2, AppendProperties
  <2>2. DOMAIN more = 1 .. Len(kept) + 1
    BY <2>1, LenProperties
  <2> HIDE DEF more
  <2>3. \A i \in DOMAIN more : \/ i \in DOMAIN kept /\ more[i] = kept[i]
                               \/ i = Len(kept) + 1 /\ more[i] = ds[n]
    BY <1>2, <2>1, <2>2
  <2>4. \A i \in DOMAIN more : \E k \in 1 .. n : more[i] = ds[k] /\ ds[k].id # s
    <3> SUFFICES ASSUME NEW i \in DOMAIN more
                 PROVE  \E k \in 1 .. n : more[i] = ds[k] /\ ds[k].id # s
      OBVIOUS
    <3>1. CASE i \in DOMAIN kept /\ more[i] = kept[i]
      BY <1>2, <1>3, <3>1
    <3>2. CASE more[i] = ds[n]
      BY <1>1, <1>5, <3>2
    <3> QED BY <2>3, <3>1, <3>2
  <2>5. ASSUME NEW i \in DOMAIN kept
        PROVE  ~SameDest(kept[i], ds[n]) /\ ~SameDest(ds[n], kept[i])
    <3>1. PICK k \in 1 .. n - 1 : kept[i] = ds[k]
      BY <1>2
    <3>2. k \in DOMAIN ds /\ n \in DOMAIN ds /\ k # n
      BY <1>1, <1>3
    <3> QED BY <3>1, <3>2 DEF DistinctIn
  <2>6. DistinctIn(more)
    BY <1>2, <2>3, <2>5 DEF DistinctIn
  <2>7. Len(more) <= n
    BY <1>1, <1>2, <2>1
  <2> QED BY <1>5, <2>1, <2>4, <2>6, <2>7 DEF KeptOf, more
<1> QED BY <1>4, <1>5

\* removeDestinationFrom leaves the records of other sessions, none of them twice.
LEMMA RemovedKept ==
    ASSUME NEW ds \in Seq(Dest), DistinctIn(ds), NEW s
    PROVE  KeptOf(ds, s, Len(ds), Removed(ds, s))
<1> DEFINE L == Len(ds)
           f == CHOOSE g : Walk(ds, s, g, L)
<1>1. L \in Nat
  BY LenProperties
<1>2. Walk(ds, s, f, L)
  BY <1>1, WalkExists
<1>3. Removed(ds, s) = f[L]
  BY DEF Removed, Walk
<1> HIDE DEF f
<1>4. f[0] = <<>> /\ \A m \in 1 .. L : f[m] = IF ds[m].id = s THEN f[m - 1] ELSE Append(f[m - 1], ds[m])
  <2>1. \A m \in 0 .. L : f[m] = IF m = 0 THEN <<>>
                               ELSE IF ds[m].id = s THEN f[m - 1] ELSE Append(f[m - 1], ds[m])
    BY <1>2 DEF Walk
  <2>2. 0 \in 0 .. L /\ \A m \in 1 .. L : m \in 0 .. L /\ m # 0
    BY <1>1
  <2> QED BY <2>1, <2>2
<1> DEFINE N == {n \in 0 .. L : ~KeptOf(ds, s, n, f[n])}
<1>5. N = {}
  <2> SUFFICES ASSUME N # {} PROVE FALSE
    OBVIOUS
  <2>1. N \in SUBSET Nat
    BY <1>1
  <2>2. PICK n \in N : \A m \in N : n <= m
    <3> HIDE DEF N
    <3> QED BY <2>1, SmallestNumber
  <2>3. n # 0
    <3>1. <<>> \in Seq(Dest) /\ Len(<<>>) = 0 /\ DOMAIN <<>> = {}
      OBVIOUS
    <3>2. KeptOf(ds, s, 0, f[0])
      BY <1>4, <3>1 DEF KeptOf, DistinctIn
    <3> QED BY <3>2
  <2>4. n \in 1 .. L /\ n - 1 \in 0 .. L /\ ~(n <= n - 1)
    BY <1>1, <2>3
  <2>5. n - 1 \notin N
    <3> HIDE DEF N
    <3> QED BY <2>2, <2>4
  <2>6. KeptOf(ds, s, n - 1, f[n - 1])
    BY <2>4, <2>5
  <2>7. f[n] = IF ds[n].id = s THEN f[n - 1] ELSE Append(f[n - 1], ds[n])
    BY <1>4, <2>4
  <2>8. KeptOf(ds, s, n, f[n])
    BY <2>4, <2>6, <2>7, WalkStep
  <2> QED BY <2>8
<1>6. KeptOf(ds, s, L, f[L])
  BY <1>1, <1>5
<1> QED BY <1>3, <1>6

-----------------------------------------------------------------------------
\* A list that is typed, no longer than the bound, and has no destination twice.
ListInv(ds) == ds \in Seq(Dest) /\ Len(ds) <= MaxDests /\ DistinctIn(ds)

GroupsockParts ==
    /\ socket \in [open : BOOLEAN, ttl : 0 .. MaxTtl]
    /\ fLastSentTTL \in Ttls \union {NoTtl}
    /\ fSourcePort \in BOOLEAN
    /\ turn \in 0 .. Len(fDests)
    /\ datagram \in [ttl : 0 .. MaxTtl, wanted : Ttls, excused : BOOLEAN]
    /\ stale \in BOOLEAN

DestinationsParts == GroupsockParts /\ ListInv(fDests)

LEMMA PartsMean == DestinationsParts <=> DestinationsInv
  BY DEF DestinationsParts, GroupsockParts, ListInv, DistinctIn, SameDest, DestinationsInv,
    GroupsockTypeOK, Distinct

\* A record for a session's destination.
LEMMA RecordTyped ==
    ASSUME NEW a \in AnyAddr, NEW p \in AnyPort, NEW t \in Ttls, NEW s \in Ids
    PROVE  /\ destRecord(a, p, t, s) \in Dest
           /\ destRecord(a, p, t, s).addr = a /\ destRecord(a, p, t, s).port = p
           /\ destRecord(a, p, t, s).id = s
  BY DEF destRecord, Dest

\* Two lists without a common destination, one after the other.
LEMMA Joined ==
    ASSUME NEW a \in Seq(Dest), NEW b \in Seq(Dest), DistinctIn(a), DistinctIn(b),
           \A i \in DOMAIN a, j \in DOMAIN b : ~SameDest(a[i], b[j])
    PROVE  /\ a \o b \in Seq(Dest) /\ Len(a \o b) = Len(a) + Len(b) /\ DistinctIn(a \o b)
           /\ \A k \in DOMAIN (a \o b) : \/ k \in DOMAIN a /\ (a \o b)[k] = a[k]
                                         \/ k - Len(a) \in DOMAIN b /\ (a \o b)[k] = b[k - Len(a)]
<1>1. Len(a) \in Nat /\ DOMAIN a = 1 .. Len(a) /\ Len(b) \in Nat /\ DOMAIN b = 1 .. Len(b)
  BY LenProperties
<1> DEFINE c == a \o b
<1>2. /\ c \in Seq(Dest) /\ Len(c) = Len(a) + Len(b)
      /\ \A k \in 1 .. Len(a) + Len(b) : c[k] = IF k <= Len(a) THEN a[k] ELSE b[k - Len(a)]
  BY ConcatProperties
<1> HIDE DEF c
<1>3. DOMAIN c = 1 .. Len(a) + Len(b)
  BY <1>2, LenProperties
<1>4. \A k \in DOMAIN c : \/ k \in DOMAIN a /\ c[k] = a[k]
                          \/ k - Len(a) \in DOMAIN b /\ c[k] = b[k - Len(a)]
  BY <1>1, <1>2, <1>3
<1>5. \A i \in DOMAIN a, j \in DOMAIN b : ~SameDest(b[j], a[i])
  BY DEF SameDest
<1>6. DistinctIn(c)
  <2> SUFFICES ASSUME NEW i \in DOMAIN c, NEW j \in DOMAIN c, SameDest(c[i], c[j])
               PROVE  i = j
    BY DEF DistinctIn
  <2>1. CASE i \in DOMAIN a /\ c[i] = a[i]
    <3>1. j \in DOMAIN a /\ c[j] = a[j]
      BY <1>4, <2>1
    <3> QED BY <2>1, <3>1 DEF DistinctIn
  <2>2. CASE i - Len(a) \in DOMAIN b /\ c[i] = b[i - Len(a)]
    <3>1. j - Len(a) \in DOMAIN b /\ c[j] = b[j - Len(a)]
      BY <1>4, <1>5, <2>2
    <3>2. i - Len(a) = j - Len(a)
      BY <2>2, <3>1 DEF DistinctIn
    <3> QED BY <1>1, <1>3, <3>2
  <2> QED BY <1>4, <2>1, <2>2
<1> QED BY <1>2, <1>4, <1>6 DEF c

\* A record by itself.
LEMMA Single ==
    ASSUME NEW d \in Dest
    PROVE  <<d>> \in Seq(Dest) /\ Len(<<d>>) = 1 /\ DOMAIN <<d>> = {1} /\ <<d>>[1] = d /\ DistinctIn(<<d>>)
  BY DEF DistinctIn

\* A record in front of a list that does not have its destination.
LEMMA InFront ==
    ASSUME NEW ds, ListInv(ds), NEW d \in Dest, Len(ds) < MaxDests,
           \A i \in DOMAIN ds : ~SameDest(ds[i], d)
    PROVE  ListInv(<<d>> \o ds)
<1>1. ds \in Seq(Dest) /\ Len(ds) \in Nat /\ DistinctIn(ds) /\ MaxDests \in Nat
  BY LenProperties, GroupsockAssumption DEF ListInv
<1>2. \A i \in DOMAIN <<d>>, j \in DOMAIN ds : ~SameDest(<<d>>[i], ds[j])
  BY Single DEF SameDest
<1>3. <<d>> \o ds \in Seq(Dest) /\ Len(<<d>> \o ds) = Len(<<d>>) + Len(ds) /\ DistinctIn(<<d>> \o ds)
  BY <1>1, <1>2, Single, Joined
<1>4. Len(<<d>> \o ds) <= MaxDests
  BY <1>1, <1>3, Single
<1> QED BY <1>3, <1>4 DEF ListInv

\* addDestination, of a list that is not full.
LEMMA AddedKeeps ==
    ASSUME NEW ds, ListInv(ds), Len(ds) < MaxDests, NEW a \in AnyAddr, NEW p \in AnyPort, NEW s \in Ids
    PROVE  ListInv(Added(ds, a, p, s))
<1>1. MaxTtl \in Ttls
  BY GroupsockAssumption
<1> DEFINE d == destRecord(a, p, MaxTtl, s)
<1>2. d \in Dest /\ d.addr = a /\ d.port = p /\ d.id = s
  BY <1>1, RecordTyped
<1> HIDE DEF d
<1>3. CASE \E i \in DOMAIN ds : ds[i].addr = a /\ ds[i].port = p /\ ds[i].id = s
  BY <1>3 DEF Added
<1>4. CASE ~\E i \in DOMAIN ds : ds[i].addr = a /\ ds[i].port = p /\ ds[i].id = s
  <2>1. \A i \in DOMAIN ds : ~SameDest(ds[i], d)
    BY <1>2, <1>4 DEF SameDest
  <2>2. ListInv(<<d>> \o ds)
    BY <1>2, <2>1, InFront
  <2> QED BY <1>4, <2>2 DEF Added, d
<1> QED BY <1>3, <1>4

\* The list of a new session.
LEMMA FirstIsRight == ListInv(FirstDests)
<1> DEFINE d == destRecord(GroupAddr, GroupPort, GroupTtl, 0)
<1>1. d \in Dest
  BY GroupsockAssumption, RecordTyped DEF AnyAddr, AnyPort
<1> HIDE DEF d
<1>2. <<d>> \in Seq(Dest) /\ Len(<<d>>) = 1 /\ DOMAIN <<d>> = {1} /\ MaxDests \in Nat /\ 1 < MaxDests
  BY <1>1, GroupsockAssumption
<1>3. ListInv(<<d>>)
  BY <1>2 DEF ListInv, DistinctIn
<1>4. Len(<<d>>) < MaxDests
  BY <1>2
<1>5. ListInv(Added(<<d>>, GroupAddr, RtpPort, 0))
  BY <1>3, <1>4, GroupsockAssumption, RtpPortAssumption, AddedKeeps DEF AnyAddr, AnyPort
<1> QED BY <1>5 DEF FirstDests, d

\* A part of a list without repetitions.
LEMMA PartDistinct ==
    ASSUME NEW ds \in Seq(Dest), DistinctIn(ds), NEW m \in 1 .. Len(ds) + 1, NEW n \in 0 .. Len(ds), m <= n + 1
    PROVE  LET part == SubSeq(ds, m, n)
           IN  /\ part \in Seq(Dest) /\ Len(part) = n - m + 1 /\ DistinctIn(part)
               /\ \A k \in DOMAIN part : k + m - 1 \in m .. n /\ part[k] = ds[k + m - 1]
<1> DEFINE part == SubSeq(ds, m, n)
<1>1. m \in Int /\ n \in Int /\ Len(ds) \in Nat /\ DOMAIN ds = 1 .. Len(ds) /\ m .. n \subseteq 1 .. Len(ds)
  BY LenProperties
<1>2. \A i \in m .. n : ds[i] \in Dest
  BY <1>1, ElementOfSeq
<1>3. /\ part \in Seq(Dest) /\ Len(part) = (IF m <= n THEN n - m + 1 ELSE 0)
      /\ \A i \in 1 .. n - m + 1 : part[i] = ds[m + i - 1]
  BY <1>1, <1>2, SubSeqProperties
<1> HIDE DEF part
<1>4. Len(part) = n - m + 1 /\ DOMAIN part = 1 .. n - m + 1
  BY <1>1, <1>3, LenProperties
<1>5. \A k \in DOMAIN part : k + m - 1 \in m .. n /\ part[k] = ds[k + m - 1]
  <2>1. \A k \in DOMAIN part : k + m - 1 \in m .. n /\ m + k - 1 = k + m - 1
    BY <1>1, <1>4
  <2> QED BY <1>3, <1>4, <2>1
<1>6. DistinctIn(part)
  <2> SUFFICES ASSUME NEW i \in DOMAIN part, NEW j \in DOMAIN part, SameDest(part[i], part[j])
               PROVE  i = j
    BY DEF DistinctIn
  <2>1. i + m - 1 \in DOMAIN ds /\ j + m - 1 \in DOMAIN ds
    BY <1>1, <1>5
  <2>2. i + m - 1 = j + m - 1
    BY <1>5, <2>1 DEF DistinctIn
  <2> QED BY <1>1, <1>4, <2>2
<1> QED BY <1>3, <1>4, <1>5, <1>6 DEF part

\* changeDestinationParameters: the first record of a session is changed, later
\* ones of it go.
LEMMA ChangedKeeps ==
    ASSUME NEW ds, ListInv(ds), NEW i \in DOMAIN ds, NEW s, NEW d \in Dest, d.id = s,
           \A j \in 1 .. i - 1 : ds[j].id # s
    PROVE  ListInv(SubSeq(ds, 1, i - 1) \o <<d>> \o Removed(SubSeq(ds, i + 1, Len(ds)), s))
<1>1. /\ ds \in Seq(Dest) /\ Len(ds) \in Nat /\ DOMAIN ds = 1 .. Len(ds) /\ DistinctIn(ds)
      /\ Len(ds) <= MaxDests /\ MaxDests \in Nat /\ i \in 1 .. Len(ds)
  BY LenProperties, GroupsockAssumption DEF ListInv
<1> DEFINE front == SubSeq(ds, 1, i - 1)
           back == SubSeq(ds, i + 1, Len(ds))
           rest == Removed(back, s)
<1>2. /\ front \in Seq(Dest) /\ Len(front) = i - 1 /\ DistinctIn(front)
      /\ \A k \in DOMAIN front : k \in 1 .. i - 1 /\ front[k] = ds[k]
  <2>1. 1 \in 1 .. Len(ds) + 1 /\ i - 1 \in 0 .. Len(ds) /\ 1 <= i - 1 + 1
    BY <1>1
  <2>2. /\ front \in Seq(Dest) /\ Len(front) = i - 1 - 1 + 1 /\ DistinctIn(front)
        /\ \A k \in DOMAIN front : k + 1 - 1 \in 1 .. i - 1 /\ front[k] = ds[k + 1 - 1]
    BY <1>1, <2>1, PartDistinct
  <2> HIDE DEF front
  <2>3. \A k \in DOMAIN front : k \in Nat
    BY <2>2, LenProperties
  <2>4. \A k \in DOMAIN front : k + 1 - 1 = k
    BY <2>3
  <2> QED BY <1>1, <2>2, <2>4
<1>3. /\ back \in Seq(Dest) /\ Len(back) = Len(ds) - i /\ DistinctIn(back)
      /\ \A k \in 1 .. Len(back) : k + i \in i + 1 .. Len(ds) /\ back[k] = ds[k + i]
  <2>1. i + 1 \in 1 .. Len(ds) + 1 /\ Len(ds) \in 0 .. Len(ds) /\ i + 1 <= Len(ds) + 1
    BY <1>1
  <2>2. /\ back \in Seq(Dest) /\ Len(back) = Len(ds) - (i + 1) + 1 /\ DistinctIn(back)
        /\ \A k \in DOMAIN back : k + (i + 1) - 1 \in i + 1 .. Len(ds) /\ back[k] = ds[k + (i + 1) - 1]
    BY <1>1, <2>1, PartDistinct
  <2> HIDE DEF back
  <2>3. DOMAIN back = 1 .. Len(back)
    BY <2>2, LenProperties
  <2>4. \A k \in 1 .. Len(back) : k + (i + 1) - 1 = k + i
    BY <1>1, <2>2
  <2>5. ASSUME NEW k \in 1 .. Len(back)
        PROVE  k + i \in i + 1 .. Len(ds) /\ back[k] = ds[k + i]
    <3>1. k + (i + 1) - 1 \in i + 1 .. Len(ds) /\ back[k] = ds[k + (i + 1) - 1]
      BY <2>2, <2>3
    <3>2. k + (i + 1) - 1 = k + i
      BY <2>4
    <3> QED BY <3>1, <3>2, Zenon
  <2>6. Len(back) = Len(ds) - i
    BY <1>1, <2>2
  <2> QED BY <2>2, <2>5, <2>6
<1> HIDE DEF front, back
<1>4. /\ rest \in Seq(Dest) /\ Len(rest) <= Len(back) /\ DistinctIn(rest)
      /\ \A j \in DOMAIN rest : \E k \in 1 .. Len(back) : rest[j] = back[k] /\ back[k].id # s
  BY <1>3, RemovedKept DEF KeptOf
<1> HIDE DEF rest
<1>5. ASSUME NEW j \in DOMAIN rest
      PROVE  \E k \in i + 1 .. Len(ds) : rest[j] = ds[k] /\ ds[k].id # s
  <2>1. PICK k \in 1 .. Len(back) : rest[j] = back[k] /\ back[k].id # s
    BY <1>4
  <2>2. k + i \in i + 1 .. Len(ds) /\ back[k] = ds[k + i]
    BY <1>3
  <2> QED BY <2>1, <2>2
<1>6. \A k \in DOMAIN front, j \in DOMAIN <<d>> : ~SameDest(front[k], <<d>>[j])
  BY <1>2, Single DEF SameDest
<1> DEFINE changed == front \o <<d>>
<1>7. /\ changed \in Seq(Dest) /\ Len(changed) = Len(front) + Len(<<d>>) /\ DistinctIn(changed)
      /\ \A k \in DOMAIN changed : \/ k \in DOMAIN front /\ changed[k] = front[k]
                                   \/ k - Len(front) \in DOMAIN <<d>> /\ changed[k] = <<d>>[k - Len(front)]
  BY <1>2, <1>6, Single, Joined
<1> HIDE DEF changed
<1>8. \A k \in DOMAIN changed : changed[k] = d \/ \E m \in 1 .. i - 1 : changed[k] = ds[m]
  BY <1>2, <1>7, Single
<1>9. ASSUME NEW k \in DOMAIN changed, NEW j \in DOMAIN rest
      PROVE  ~SameDest(changed[k], rest[j])
  <2>1. PICK n \in i + 1 .. Len(ds) : rest[j] = ds[n] /\ ds[n].id # s
    BY <1>5
  <2>2. CASE changed[k] = d
    BY <2>1, <2>2 DEF SameDest
  <2>3. ASSUME NEW m \in 1 .. i - 1, changed[k] = ds[m]
        PROVE  ~SameDest(changed[k], rest[j])
    <3>1. m \in DOMAIN ds /\ n \in DOMAIN ds /\ m # n
      BY <1>1
    <3> QED BY <1>1, <2>1, <2>3, <3>1 DEF DistinctIn
  <2> QED BY <1>8, <2>2, <2>3
<1>10. changed \o rest \in Seq(Dest) /\ Len(changed \o rest) = Len(changed) + Len(rest) /\ DistinctIn(changed \o rest)
  BY <1>4, <1>7, <1>9, Joined
<1>11. Len(changed \o rest) <= MaxDests
  <2>1. Len(rest) \in Nat /\ Len(changed) = i /\ Len(back) = Len(ds) - i
    BY <1>1, <1>2, <1>3, <1>4, <1>7, Single, LenProperties
  <2> QED BY <1>1, <1>4, <1>10, <2>1
<1> QED BY <1>10, <1>11 DEF ListInv, changed, front, back, rest

-----------------------------------------------------------------------------
\* The groupsock as a session creates it.
LEMMA CreateParts ==
    ASSUME NEW up \in BOOLEAN, Create(FirstDests, up)
    PROVE  DestinationsParts'
<1>1. ListInv(fDests') /\ turn' = 0
  BY FirstIsRight DEF Create
<1>2. Len(fDests') \in Nat
  BY <1>1, LenProperties DEF ListInv
<1>3. NoDatagram \in [ttl : 0 .. MaxTtl, wanted : Ttls, excused : BOOLEAN]
  BY GroupsockAssumption DEF NoDatagram, MaxTtl
<1>4. socket' \in [open : BOOLEAN, ttl : 0 .. MaxTtl]
  BY GroupsockAssumption DEF Create
<1>5. turn' \in 0 .. Len(fDests')
  BY <1>1, <1>2
<1> QED BY <1>1, <1>3, <1>4, <1>5 DEF Create, DestinationsParts, GroupsockParts

\* Edits happen between packets: of the rest only the socket may change with them.
LEMMA EditParts ==
    ASSUME DestinationsParts, ListInv(fDests'), turn = 0,
           UNCHANGED <<fLastSentTTL, fSourcePort, turn, datagram>>,
           (\E up \in BOOLEAN : changePort(up)) \/ UNCHANGED <<socket, stale>>
    PROVE  DestinationsParts'
<1>1. Len(fDests') \in Nat
  BY LenProperties DEF ListInv
<1>2. turn' \in 0 .. Len(fDests')
  BY <1>1
<1>3. socket' \in [open : BOOLEAN, ttl : 0 .. MaxTtl] /\ stale' \in BOOLEAN
  <2>1. CASE \E up \in BOOLEAN : changePort(up)
    BY <2>1, GroupsockAssumption DEF changePort
  <2>2. CASE UNCHANGED <<socket, stale>>
    BY <2>2 DEF DestinationsParts, GroupsockParts
  <2> QED BY <2>1, <2>2
<1> QED BY <1>2, <1>3 DEF DestinationsParts, GroupsockParts

LEMMA EditKeepsList ==
    ASSUME DestinationsParts, Edit
    PROVE  DestinationsParts'
<1>1. ListInv(fDests) /\ fDests \in Seq(Dest) /\ Len(fDests) \in Nat /\ DistinctIn(fDests) /\ MaxDests \in Nat
  BY LenProperties, GroupsockAssumption DEF DestinationsParts, ListInv
<1>2. ASSUME NEW a \in AnyAddr, NEW p \in AnyPort, NEW s \in Ids, addDestination(a, p, s)
      PROVE  DestinationsParts'
  <2>1. ListInv(fDests')
    BY <1>1, <1>2, AddedKeeps DEF addDestination
  <2> QED BY <1>2, <2>1, EditParts DEF addDestination
<1>3. ASSUME NEW s \in Ids, removeDestination(s)
      PROVE  DestinationsParts'
  <2>1. fDests' = Removed(fDests, s)
    BY <1>3 DEF removeDestination
  <2>2. KeptOf(fDests, s, Len(fDests), fDests')
    BY <1>1, <2>1, RemovedKept
  <2>3. fDests' \in Seq(Dest) /\ Len(fDests') <= Len(fDests) /\ DistinctIn(fDests') /\ Len(fDests') \in Nat
    BY <2>2, LenProperties DEF KeptOf
  <2>4. ListInv(fDests')
    BY <1>1, <2>3 DEF ListInv
  <2> QED BY <1>3, <2>4, EditParts DEF removeDestination
<1>4. CASE removeAllDestinations
  <2>1. fDests' = <<>> /\ <<>> \in Seq(Dest) /\ Len(<<>>) = 0 /\ DOMAIN <<>> = {}
    BY <1>4 DEF removeAllDestinations
  <2>2. ListInv(fDests')
    BY <1>1, <2>1 DEF ListInv, DistinctIn
  <2> QED BY <1>4, <2>2, EditParts DEF removeAllDestinations
<1>5. ASSUME NEW a \in AnyAddr, NEW p \in AnyPort, NEW t \in Ttls \union {KeepTtl},
             NEW s \in Ids, changeDestinationParameters(a, p, t, s)
      PROVE  DestinationsParts'
  <2>1. PICK i \in DOMAIN fDests :
          LET old  == fDests[i]
              addr == IF a = Keep THEN old.addr ELSE a
              port == IF p = Keep THEN old.port ELSE p
              ttl  == IF t = KeepTtl THEN GroupTtl ELSE t
          IN  /\ turn = 0
              /\ old.id = s /\ \A j \in 1 .. i - 1 : fDests[j].id # s
              /\ fDests' = SubSeq(fDests, 1, i - 1)
                             \o <<destRecord(addr, port, ttl, s)>>
                             \o Removed(SubSeq(fDests, i + 1, Len(fDests)), s)
              /\ (\E up \in BOOLEAN : changePort(up)) \/ UNCHANGED <<socket, stale>>
              /\ UNCHANGED <<fLastSentTTL, fSourcePort, turn, datagram>>
    BY <1>5 DEF changeDestinationParameters
  <2>2. fDests[i] \in Dest
    BY <1>1, ElementOfSeq, LenProperties
  <2> DEFINE addr == IF a = Keep THEN fDests[i].addr ELSE a
             port == IF p = Keep THEN fDests[i].port ELSE p
             ttl  == IF t = KeepTtl THEN GroupTtl ELSE t
             d == destRecord(addr, port, ttl, s)
  <2>3. addr \in AnyAddr /\ port \in AnyPort /\ ttl \in Ttls
    BY <2>2, GroupsockAssumption DEF Dest
  <2> HIDE DEF addr, port, ttl
  <2>4. d \in Dest /\ d.id = s
    BY <2>3, RecordTyped
  <2>5. fDests' = SubSeq(fDests, 1, i - 1) \o <<d>> \o Removed(SubSeq(fDests, i + 1, Len(fDests)), s)
        /\ \A j \in 1 .. i - 1 : fDests[j].id # s
    BY <2>1 DEF addr, port, ttl
  <2> HIDE DEF d
  <2>6. ListInv(fDests')
    BY <1>1, <2>4, <2>5, ChangedKeeps
  <2> QED BY <2>1, <2>6, EditParts
<1>6. ASSUME NEW a \in AnyAddr, NEW p \in AnyPort, NEW t \in Ttls \union {KeepTtl}, NEW s \in Ids,
             changeDestinationOfNewSession(a, p, t, s)
      PROVE  DestinationsParts'
  <2> DEFINE ttl == IF t = KeepTtl THEN MaxTtl ELSE t
             d == destRecord(a, p, ttl, s)
  <2>0. ttl \in Ttls
    BY GroupsockAssumption
  <2> HIDE DEF ttl
  <2>1. d \in Dest /\ d.id = s
    BY <2>0, RecordTyped
  <2>2. /\ fDests' = <<d>> \o fDests /\ Len(fDests) < MaxDests
        /\ \A i \in DOMAIN fDests : fDests[i].id # s
    BY <1>6 DEF changeDestinationOfNewSession, ttl
  <2> HIDE DEF d
  <2>3. \A i \in DOMAIN fDests : ~SameDest(fDests[i], d)
    BY <2>1, <2>2 DEF SameDest
  <2>4. ListInv(fDests')
    BY <1>1, <2>1, <2>2, <2>3, InFront
  <2> QED BY <1>6, <2>4, EditParts DEF changeDestinationOfNewSession
<1> QED BY <1>2, <1>3, <1>4, <1>5, <1>6 DEF Edit

LEMMA SendKeepsList ==
    ASSUME DestinationsParts, Send
    PROVE  DestinationsParts'
<1>1. /\ ListInv(fDests) /\ fDests \in Seq(Dest) /\ Len(fDests) \in Nat /\ turn \in 0 .. Len(fDests)
      /\ (fDests # <<>> => Len(fDests) # 0) /\ MaxTtl \in Nat
  BY LenProperties, EmptySeq DEF DestinationsParts, GroupsockParts, ListInv, MaxTtl
<1>2. CASE output
  <2>1. turn' = 1 /\ Len(fDests) # 0
    BY <1>1, <1>2 DEF output
  <2>2. turn' \in 0 .. Len(fDests)
    BY <1>1, <2>1
  <2> QED BY <1>2, <2>2 DEF output, DestinationsParts, GroupsockParts
<1>3. ASSUME NEW ttl \in Ttls, turn # 0, writeSends(ttl) \/ ttlIsRefused(ttl) \/ sendFails(ttl)
      PROVE  DestinationsParts'
  <2>1. ttl \in 0 .. MaxTtl
    BY GroupsockAssumption
  <2>2. CASE writeSends(ttl)
    <3>1. (turn' = 0 \/ (turn' = turn + 1 /\ turn < Len(fDests))) /\ fDests' = fDests
      BY <2>2 DEF writeSends
    <3>2. turn' \in 0 .. Len(fDests)
      BY <1>1, <3>1
    <3>3. /\ socket' \in [open : BOOLEAN, ttl : 0 .. MaxTtl]
          /\ datagram' \in [ttl : 0 .. MaxTtl, wanted : Ttls, excused : BOOLEAN]
          /\ stale' \in BOOLEAN
      BY <2>1, <2>2 DEF writeSends, DestinationsParts, GroupsockParts
    <3>4. fLastSentTTL' \in Ttls \union {NoTtl} /\ fSourcePort' \in BOOLEAN
      BY <2>2 DEF writeSends, DestinationsParts, GroupsockParts
    <3> QED BY <3>1, <3>2, <3>3, <3>4 DEF DestinationsParts, GroupsockParts
  <2>3. CASE ttlIsRefused(ttl)
    BY <1>1, <2>3 DEF ttlIsRefused, DestinationsParts, GroupsockParts
  <2>4. CASE sendFails(ttl)
    <3>1. /\ turn' = 0 /\ fDests' = fDests /\ 0 \in 0 .. Len(fDests)
          /\ UNCHANGED <<fLastSentTTL, fSourcePort, datagram>>
      BY <1>1, <2>4 DEF sendFails
    <3>2. socket' \in [open : BOOLEAN, ttl : 0 .. MaxTtl] /\ stale' \in BOOLEAN
      BY <2>1, <2>4 DEF sendFails, DestinationsParts, GroupsockParts
    <3> QED BY <3>1, <3>2 DEF DestinationsParts, GroupsockParts
  <2> QED BY <1>3, <2>2, <2>3, <2>4
<1> QED BY <1>2, <1>3 DEF Send

LEMMA DestinationsStep ==
    ASSUME DestinationsParts, [Next]_vars
    PROVE  DestinationsParts'
<1>1. CASE UNCHANGED groupsock
  BY <1>1 DEF groupsock, DestinationsParts, GroupsockParts
<1>2. CASE Initialize
  BY <1>2, CreateParts DEF Initialize
<1>3. CASE Edit
  BY <1>3, EditKeepsList
<1>4. CASE Send
  BY <1>4, SendKeepsList
<1> QED
  BY <1>1, <1>2, <1>3, <1>4 DEF Next, vars, StartVideo, StartAudio, StopPlaying,
    UnInitialize, Close, Delete, Reclaim

\* However often destinations are added, changed and removed between packets, the
\* list has none of them twice for a session, is never longer than the bound, and
\* the record that is written next is in it.
THEOREM DestinationsHold == Spec => []DestinationsInv
<1>1. ASSUME Init PROVE DestinationsParts
  <2>1. ListInv(fDests) /\ turn = 0
    BY <1>1, FirstIsRight DEF Init
  <2>2. turn \in 0 .. Len(fDests)
    BY <2>1, LenProperties DEF ListInv
  <2>3. datagram \in [ttl : 0 .. MaxTtl, wanted : Ttls, excused : BOOLEAN]
    BY <1>1, GroupsockAssumption DEF Init, NoDatagram, MaxTtl
  <2>4. socket \in [open : BOOLEAN, ttl : 0 .. MaxTtl]
    BY <1>1, GroupsockAssumption DEF Init
  <2> QED BY <1>1, <2>1, <2>2, <2>3, <2>4 DEF Init, DestinationsParts, GroupsockParts
<1>2. DestinationsParts /\ [Next]_vars => DestinationsParts'
  BY DestinationsStep
<1>3. DestinationsParts => DestinationsInv
  BY PartsMean
<1> QED BY <1>1, <1>2, <1>3, PTL DEF Spec
=============================================================================
