----------------------------- MODULE Groupsock -----------------------------
(***************************************************************************)
(* The sending side of one groupsock: its list of destinations, the loop   *)
(* of output that writes a packet to one after the other, and the cache    *)
(* fLastSentTTL that saves a system call when the time-to-live a record    *)
(* asks for is the one the socket has.  All of it runs in one thread; a    *)
(* packet is written in one step per destination because each write may    *)
(* fail and ends the packet.  Membership of multicast groups, which is     *)
(* about receiving, is left out.                                           *)
(***************************************************************************)
EXTENDS Integers, Sequences

CONSTANTS Addrs,      \* addresses, positive numbers
          Multicast,  \* those that are multicast addresses
          Ports,      \* port numbers, positive
          Ttls,       \* times-to-live that callers ask for
          Ids,        \* session ids
          GroupAddr,  \* what the constructor was given
          GroupPort,
          GroupTtl,
          SocketTtl,  \* what the system gives a new socket for multicast
          MaxDests    \* bound on the length of the list

MaxTtl == 255         \* addDestination asks for it
NoTtl  == 256         \* "a deliberately invalid value"
Keep   == 0           \* an address or port that is not to change, or not given
KeepTtl == -1         \* ~0

ASSUME GroupsockAssumption ==
    /\ Addrs \subseteq Nat \ {Keep} /\ Multicast \subseteq Addrs
    /\ Ports \subseteq Nat \ {Keep}
    /\ Ttls \subseteq 0 .. MaxTtl
    /\ GroupTtl \in Ttls /\ MaxTtl \in Ttls /\ SocketTtl \in 0 .. MaxTtl
    /\ GroupAddr \in Addrs /\ GroupPort \in Ports /\ 0 \in Ids
    /\ MaxDests \in Nat \ {0, 1}   \* a new session has two destinations

VARIABLES socket,       \* is there one, and its IP_MULTICAST_TTL
          fLastSentTTL,
          fSourcePort,  \* whether it is known
          fDests,       \* the list of destRecords
          turn,         \* the record output writes to next, 0 between packets
          datagram,     \* the last datagram that left for a multicast address
          stale         \* history: the cache was left behind by the socket

groupsock == <<socket, fLastSentTTL, fSourcePort, fDests, turn, datagram, stale>>

\* Callers may give an address or a port of 0, and a record gets it.
AnyAddr == Addrs \union {Keep}
AnyPort == Ports \union {Keep}
Dest == [addr : AnyAddr, port : AnyPort, ttl : Ttls, id : Ids]
destRecord(a, p, t, s) == [addr |-> a, port |-> p, ttl |-> t, id |-> s]

\* ttl is what the datagram left with, wanted what its record asks for.
NoDatagram == [ttl |-> MaxTtl, wanted |-> MaxTtl, excused |-> FALSE]

\* A new record goes to the front, unless it is there.
Added(ds, a, p, s) ==
    IF \E i \in DOMAIN ds : ds[i].addr = a /\ ds[i].port = p /\ ds[i].id = s
      THEN ds
      ELSE <<destRecord(a, p, MaxTtl, s)>> \o ds

\* The walk over the list leaves out the records of session s.
Removed(ds, s) ==
    LET kept[n \in 0 .. Len(ds)] ==
          IF n = 0 THEN <<>>
          ELSE IF ds[n].id = s THEN kept[n - 1] ELSE Append(kept[n - 1], ds[n])
    IN  kept[Len(ds)]

\* The groupsock as its constructor leaves it; the socket may not come up.
Create(ds, up) ==
    /\ socket' = [open |-> up, ttl |-> SocketTtl]
    /\ fLastSentTTL' = NoTtl /\ fSourcePort' = FALSE
    /\ fDests' = ds /\ turn' = 0
    /\ datagram' = NoDatagram /\ stale' = FALSE

-----------------------------------------------------------------------------
\* Mutant: what is there already is added again.
addDestinationAlways(a, p, s) ==
    /\ turn = 0 /\ Len(fDests) < MaxDests
    /\ fDests' = <<destRecord(a, p, MaxTtl, s)>> \o fDests
    /\ UNCHANGED <<socket, fLastSentTTL, fSourcePort, turn, datagram, stale>>

addDestination(a, p, s) ==
    /\ turn = 0 /\ Len(fDests) < MaxDests
    /\ fDests' = Added(fDests, a, p, s)
    /\ UNCHANGED <<socket, fLastSentTTL, fSourcePort, turn, datagram, stale>>

removeDestination(s) ==
    /\ turn = 0
    /\ fDests' = Removed(fDests, s)
    /\ UNCHANGED <<socket, fLastSentTTL, fSourcePort, turn, datagram, stale>>

removeAllDestinations ==
    /\ turn = 0
    /\ fDests' = <<>>
    /\ UNCHANGED <<socket, fLastSentTTL, fSourcePort, turn, datagram, stale>>

\* The port of a multicast destination changes: the socket is closed and
\* another one is set up, with the system's TTL; the cache is not told.
changePort(up) ==
    /\ socket' = [open |-> up, ttl |-> SocketTtl]
    /\ stale' = (fLastSentTTL # NoTtl)

\* Parameters of a session that has a record: the first one is changed, later
\* ones go.  A TTL that is not given becomes the groupsock's, not the record's.
changeDestinationParameters(a, p, t, s) ==
    \E i \in DOMAIN fDests :
      LET old  == fDests[i]
          addr == IF a = Keep THEN old.addr ELSE a
          port == IF p = Keep THEN old.port ELSE p
          ttl  == IF t = KeepTtl THEN GroupTtl ELSE t
      IN  /\ turn = 0
          /\ old.id = s /\ \A j \in 1 .. i - 1 : fDests[j].id # s
          /\ fDests' = SubSeq(fDests, 1, i - 1)
                         \o <<destRecord(addr, port, ttl, s)>>
                         \o Removed(SubSeq(fDests, i + 1, Len(fDests)), s)
          /\ IF port # old.port /\ addr \in Multicast
               THEN \E up \in BOOLEAN : changePort(up)
               ELSE UNCHANGED <<socket, stale>>
          /\ UNCHANGED <<fLastSentTTL, fSourcePort, turn, datagram>>

\* The same call for a session that has none adds one, of whatever it is given;
\* ~0 as a byte is the largest TTL.
changeDestinationOfNewSession(a, p, t, s) ==
    /\ turn = 0 /\ Len(fDests) < MaxDests
    /\ \A i \in DOMAIN fDests : fDests[i].id # s
    /\ fDests' = <<destRecord(a, p, IF t = KeepTtl THEN MaxTtl ELSE t, s)>> \o fDests
    /\ UNCHANGED <<socket, fLastSentTTL, fSourcePort, turn, datagram, stale>>

-----------------------------------------------------------------------------
\* output: the packet is to be written to each record, the first one first.
output ==
    /\ turn = 0 /\ fDests # <<>>
    /\ turn' = 1
    /\ UNCHANGED <<socket, fLastSentTTL, fSourcePort, fDests, datagram, stale>>

\* write takes the record's TTL; is it another than the one sent with last?
TtlToSet(ttl) == ttl # fLastSentTTL

\* write succeeds.  The option is set for every destination, but the system
\* uses it for multicast addresses only; to others a datagram leaves with the
\* system's own TTL, which nothing here sets.  After the first datagram of all
\* the source port is asked for, and if that fails the packet ends although it
\* was sent.
writeSends(ttl) ==
    /\ socket.open
    /\ LET used == IF TtlToSet(ttl) THEN ttl ELSE socket.ttl
       IN  /\ socket' = [socket EXCEPT !.ttl = used]
           /\ datagram' = IF fDests[turn].addr \notin Multicast THEN datagram
                          ELSE [ttl |-> used, wanted |-> ttl,
                                excused |-> stale /\ ~TtlToSet(ttl)]
    /\ fLastSentTTL' = ttl
    /\ stale' = (stale /\ ~TtlToSet(ttl))
    /\ \E known \in {TRUE, fSourcePort} :
         /\ fSourcePort' = known
         /\ turn' = IF known /\ turn < Len(fDests) THEN turn + 1 ELSE 0
    /\ UNCHANGED fDests

\* Mutant: the cache is brought up to date before the system is asked.
ttlIsRefusedAfterCaching(ttl) ==
    /\ TtlToSet(ttl)
    /\ turn' = 0
    /\ fLastSentTTL' = ttl
    /\ UNCHANGED <<socket, fSourcePort, fDests, datagram, stale>>

\* setsockopt fails: nothing has changed, and the records behind get nothing.
ttlIsRefused(ttl) ==
    /\ TtlToSet(ttl)
    /\ turn' = 0
    /\ UNCHANGED <<socket, fLastSentTTL, fSourcePort, fDests, datagram, stale>>

\* sendto fails, perhaps after the socket got another TTL, of which
\* fLastSentTTL does not hear.
sendFails(ttl) ==
    /\ TtlToSet(ttl) => socket.open
    /\ turn' = 0
    /\ IF TtlToSet(ttl)
         THEN /\ socket' = [socket EXCEPT !.ttl = ttl]
              /\ stale' = (fLastSentTTL # NoTtl)
         ELSE UNCHANGED <<socket, stale>>
    /\ UNCHANGED <<fLastSentTTL, fSourcePort, fDests, datagram>>

-----------------------------------------------------------------------------
\* Whoever owns the groupsock edits its list.
Edit ==
    \/ \E a \in AnyAddr, p \in AnyPort, s \in Ids : addDestination(a, p, s)
    \/ \E s \in Ids : removeDestination(s)
    \/ removeAllDestinations
    \/ \E a \in AnyAddr, p \in AnyPort, t \in Ttls \union {KeepTtl}, s \in Ids :
         \/ changeDestinationParameters(a, p, t, s)
         \/ changeDestinationOfNewSession(a, p, t, s)

Send ==
    \/ output
    \/ \E ttl \in Ttls :
         /\ turn # 0 /\ ttl = fDests[turn].ttl
         /\ writeSends(ttl) \/ ttlIsRefused(ttl) \/ sendFails(ttl)

-----------------------------------------------------------------------------
GroupsockTypeOK ==
    /\ socket \in [open : BOOLEAN, ttl : 0 .. MaxTtl]
    /\ fLastSentTTL \in Ttls \union {NoTtl}
    /\ fSourcePort \in BOOLEAN
    /\ fDests \in Seq(Dest) /\ Len(fDests) <= MaxDests
    /\ turn \in 0 .. Len(fDests)
    /\ datagram \in [ttl : 0 .. MaxTtl, wanted : Ttls, excused : BOOLEAN]
    /\ stale \in BOOLEAN

\* The list never holds a destination twice for one session.
Distinct ==
    \A i, j \in DOMAIN fDests :
      /\ fDests[i].addr = fDests[j].addr
      /\ fDests[i].port = fDests[j].port
      /\ fDests[i].id = fDests[j].id
      => i = j

\* What the cache says of the socket is true but for the history.
CacheIsTrue == fLastSentTTL \in {NoTtl, socket.ttl} \/ stale

\* No destination of a session is sent a packet twice (Groupsock::output over
\* what addDestination, removeDestination and changeDestinationParameters left
\* in the list), and the record written next is one of the list.
DestinationsInv == GroupsockTypeOK /\ Distinct

\* Every datagram to a multicast address leaves with the time-to-live its
\* destRecord asks for, however records with other values, unicast destinations
\* among them, failed writes and refused options came before
\* (OutputSocket::write).  Two cases are excepted, where the code leaves
\* fLastSentTTL behind: sendto failed after the socket had got another TTL, or
\* the port was changed; until a TTL is set again, datagrams may then leave
\* with the socket's.  Of a record with a unicast address the TTL has no effect.
OwnTtl == CacheIsTrue /\ (datagram.ttl = datagram.wanted \/ datagram.excused)
=============================================================================
