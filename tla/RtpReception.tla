---------------------------- MODULE RtpReception ----------------------------
(***************************************************************************)
(* The receiving half of RTP: MultiFramedRTPSource with its                *)
(* ReorderingPacketBuffer, the H.264 reading of a packet's first bytes, and *)
(* the count of sequence numbers in RTPReceptionStats.                     *)
(*                                                                         *)
(* A sender numbers its packets 1, 2, ... and puts First + n modulo        *)
(* Modulus (2^16 in the code) into packet n.  A packet holds a part of a   *)
(* NAL unit, the end of one (which a unit in one piece is), two whole      *)
(* units (STAP-A), one and a stray byte behind it, or has a header that is *)
(* refused; sent[n] says which.  The network loses, repeats and reorders:  *)
(* any of the last Reach packets can arrive at any time, any number of     *)
(* times.  So can packets of another SSRC; they are numbered above         *)
(* MaxPackets.  The reader asks for a frame (a NAL unit), waits or stops,  *)
(* from its callback or later.  A piece <<n, i>> is the i-th unit in       *)
(* packet n or its part of one; pieces are taken to be of one size, of     *)
(* which the reader's buffer holds fMaxSize, and a frame is the sequence   *)
(* of the pieces that it is made of.                                       *)
(***************************************************************************)
EXTENDS Integers, SequencesExt

CONSTANTS Modulus, First, MaxPackets, Reach, fThresholdTime, fMaxSize, MaxChanges,
  OtherParts, OtherUnits   \* packets of another SSRC: parts of units, and whole ones

ASSUME ReceptionAssumption ==
  /\ MaxPackets \in Nat /\ fThresholdTime \in Nat /\ Modulus \in Nat /\ First \in 0 .. Modulus - 1
  /\ Reach \in Nat /\ 2 * Reach < Modulus /\ Modulus % 2 = 0 /\ fMaxSize \in Nat \ {0} /\ MaxChanges \in Nat
  /\ \A n \in OtherParts \cup OtherUnits : n \in Nat /\ n > MaxPackets

VARIABLES
  sent,       \* what each packet sent so far carries
  pc,         \* "idle" (event loop), "loop" (doGetNextFrame1), "after", "client" (the callback)
  reading,    \* fAreDoingNetworkReads
  awaiting,   \* fIsCurrentlyAwaitingData
  need,       \* fNeedDelivery
  task,       \* afterGetting is scheduled (nextTask)
  queue,      \* the reordering buffer, from fHeadPacket to fTailPacket
  seen,       \* fHaveSeenFirstPacket
  expected,   \* fNextExpectedSeqNo
  begins,     \* fCurrentPacketBeginsFrame
  completes,  \* fCurrentPacketCompletesFrame
  lossInFrame,\* fPacketLossInFragmentedFrame
  frame,      \* until it is handed over, the pieces used for it: those that fit
              \* are at fSavedTo .. fTo
  truncated,  \* fNumTruncatedBytes > 0
  other,      \* fLastReceivedSSRC is the other SSRC
  changes,    \* how often it has changed (up to the bound MaxChanges)
  base,       \* fBaseExtSeqNumReceived
  highest,    \* fHighestExtSeqNumReceived
  \* What happened, for the properties:
  due,        \* the packet whose number is expected
  upTo,       \* the last piece of the frame delivered last
  mixed,      \* packets of the other SSRC came, and none of the sender's found the
              \* buffer empty since
  lowest,     \* the first and the last of the packets that were noted
  top,
  misread     \* since getNextFrame, a loss was forgotten with a packet that was
              \* refused, or a STAP-A was taken for a part of a unit

netVars    == <<sent>>
ssrcVars   == <<other, changes>>
statVars   == <<base, highest, lowest, top>>
bufferVars == <<queue, seen, expected, due, mixed>>
frameVars  == <<begins, completes, lossInFrame, frame, truncated, misread>>
askVars    == <<awaiting, need, task, reading, upTo>>
vars == <<netVars, ssrcVars, statVars, bufferVars, frameVars, askVars, pc>>

Half == Modulus \div 2
Seq16(n) == (First + n) % Modulus
Packets  == 1 .. Len(sent)
Aggregates == {"both", "stray"}
Kinds    == {"part", "end", "refused"} \cup Aggregates
Other    == OtherParts \cup OtherUnits
Kind(n)  == IF n \in Packets THEN sent[n] ELSE IF n \in OtherParts THEN "part" ELSE "end"

\* The packet starts a frame (the start bit, or a whole NAL unit): the last
\* packet with data before it ended one.
BeginsFrame(n) ==
  \A m \in 1 .. n - 1 :
    sent[m] = "part" => \E k \in m + 1 .. n - 1 : sent[k] = "end"

Pieces == (Packets \cup Other) \X {1, 2}

\* A packet that waits: its number, the clock ticks since it arrived,
\* isFirstPacket, and useCount.
TypeOK ==
  /\ sent \in Seq(Kinds) /\ Len(sent) <= MaxPackets
  /\ pc \in {"idle", "loop", "after", "client"}
  /\ reading \in BOOLEAN /\ awaiting \in BOOLEAN /\ need \in BOOLEAN /\ task \in BOOLEAN
  /\ queue \in Seq([no : Packets \cup Other, age : 0 .. fThresholdTime + 1,
                  first : BOOLEAN, uses : {0, 1}])
  /\ seen \in BOOLEAN /\ expected \in 0 .. Modulus - 1 /\ other \in BOOLEAN /\ changes \in 0 .. MaxChanges /\ mixed \in BOOLEAN
  /\ begins \in BOOLEAN /\ completes \in BOOLEAN /\ lossInFrame \in BOOLEAN
  /\ frame \in Seq(Pieces) /\ truncated \in BOOLEAN /\ misread \in BOOLEAN
  /\ base \in Nat /\ highest \in Nat
  /\ due \in Nat /\ upTo \in Pieces \cup {<<0, 0>>} /\ lowest \in 0 .. MaxPackets /\ top \in 0 .. MaxPackets

Init ==
  /\ sent = <<>> /\ pc = "idle"
  /\ reading = FALSE /\ awaiting = FALSE /\ need = FALSE /\ task = FALSE
  /\ queue = <<>> /\ seen = FALSE /\ expected = 0 /\ other = FALSE /\ changes = 0 /\ mixed = FALSE
  /\ begins = TRUE /\ completes = TRUE /\ lossInFrame = FALSE
  /\ frame = <<>> /\ truncated = FALSE /\ misread = FALSE
  /\ base = 0 /\ highest = 0
  /\ due = 0 /\ upTo = <<0, 0>> /\ lowest = 0 /\ top = 0

-----------------------------------------------------------------------------
(* The network.                                                            *)

\* The oldest packet that anything at the receiver still depends on.  A sender
\* that runs half the numbers ahead of it is outside what 16 bits can tell.
Oldest == Min((IF seen THEN {due} ELSE {}) \cup (IF top = 0 THEN {} ELSE {top}) \cup {Len(sent) + 1})

Send(kind) ==
  /\ Len(sent) < MaxPackets /\ Len(sent) + 1 - Oldest < Reach
  /\ kind \in Aggregates => BeginsFrame(Len(sent) + 1)
  /\ sent' = Append(sent, kind)
  /\ UNCHANGED <<ssrcVars, statVars, bufferVars, frameVars, askVars, pc>>

\* Time passes for the packets that wait.
Tick ==
  /\ pc = "idle" /\ \E i \in DOMAIN queue : queue[i].age <= fThresholdTime
  /\ queue' = [i \in DOMAIN queue |->
                 [queue[i] EXCEPT !.age = IF @ <= fThresholdTime THEN @ + 1 ELSE @]]
  /\ UNCHANGED <<netVars, ssrcVars, statVars, seen, expected, due, mixed, frameVars, askVars, pc>>

-----------------------------------------------------------------------------
(* Sequence numbers.                                                       *)

seqNumLT(s1, s2) ==
  LET diff == s2 - s1 IN IF diff > 0 THEN diff < Half ELSE diff < -Half

NoteNumber(n) == top' = Max({top, n}) /\ lowest' = IF top = 0 THEN n ELSE Min({lowest, n})

\* Mutant: the wrap-around of the numbers is not noticed.
noteIncomingPacketUncycled(n) ==
  LET s == Seq16(n)
      cycle == highest - (highest % Modulus)
  IN /\ highest' = IF top = 0 THEN Modulus + s
                   ELSE IF seqNumLT(highest % Modulus, s) THEN Max({highest, cycle + s}) ELSE highest
     /\ base' = IF top = 0 THEN Modulus + s ELSE base
     /\ NoteNumber(n)

\* RTPReceptionStats::noteIncomingPacket, its sequence numbers.
noteIncomingPacket(n) ==
  LET s     == Seq16(n)
      old   == highest % Modulus
      cycle == highest - old
      newer == (IF s < old THEN cycle + Modulus ELSE cycle) + s
      older == (IF s - old >= Half THEN cycle - Modulus ELSE cycle) + s
  IN /\ NoteNumber(n)
     /\ IF top = 0 THEN base' = Modulus + s /\ highest' = Modulus + s
        ELSE IF seqNumLT(old, s) THEN highest' = Max({highest, newer}) /\ base' = base
        ELSE highest' = highest /\ base' = Min({base, older})

-----------------------------------------------------------------------------
(* The reordering buffer.                                                  *)

\* Mutant: a packet is put at the tail, wherever it belongs.
PlaceAtTail(s) == Len(queue) + 1

\* Where a packet with number s belongs: behind the tail if that precedes it, or
\* else at the first place whose packet it precedes or repeats.
Place(s) ==
  LET number(i) == Seq16(queue[i].no)
      stops == {i \in DOMAIN queue : s = number(i) \/ seqNumLT(s, number(i))}
  IN IF stops = {} \/ seqNumLT(number(Len(queue)), s) THEN Len(queue) + 1 ELSE Min(stops)

\* The tail, or the packet at that place, has this number.
Duplicate(s) ==
  \E i \in {Place(s), Len(queue)} : i \in DOMAIN queue /\ Seq16(queue[i].no) = s

\* Packet n is not of the SSRC of the packet before.
ChangesSSRC(n) == other # (n \in Other)

\* Mutant: fHaveSeenFirstPacket outlasts a change of SSRC.
KnowsStill(n) == seen

\* fHaveSeenFirstPacket as packet n finds it: reset by a change of SSRC, which
\* leaves the packets in the buffer.
Knows(n) == seen /\ ~ChangesSSRC(n)

\* Mutant: the first packet of another SSRC is not marked.
MarkedOnce(n) == ~seen

\* isFirstPacket.
Marked(n) == ~Knows(n)

\* ReorderingPacketBuffer::storePacket; a packet that is not stored is freed.
storePacket(n) ==
  LET s    == Seq16(n)
      next == IF Knows(n) THEN expected ELSE s
  IN /\ seen' = TRUE /\ expected' = next /\ due' = IF Knows(n) THEN due ELSE n
     /\ queue' = IF seqNumLT(s, next) \/ Duplicate(s) THEN queue
                 ELSE InsertAt(queue, Place(s), [no |-> n, age |-> 0, first |-> Marked(n), uses |-> 0])

\* Mutant: without a threshold of zero, a gap is waited for without end.
ThresholdExceededIfZero == fThresholdTime = 0

\* The head has waited long enough for the packets before it.
ThresholdExceeded == fThresholdTime = 0 \/ Head(queue).age > fThresholdTime

\* getNextCompletedPacket returns the head.
Available == queue # <<>> /\ (Seq16(Head(queue).no) = expected \/ ThresholdExceeded)

\* packetLossPreceded, as the same function computes it.
LossPreceded == IF Seq16(Head(queue).no) = expected THEN Head(queue).first ELSE TRUE

\* getNextCompletedPacket expects no packet before the head any more, and
\* releaseUsedPacket expects the one behind it.
GiveUpEarlier ==
  /\ expected' = Seq16(Head(queue).no) /\ due' = Head(queue).no /\ UNCHANGED <<seen, mixed>>
ReleaseHead ==
  /\ queue' = Tail(queue) /\ UNCHANGED <<seen, mixed>>
  /\ expected' = (Seq16(Head(queue).no) + 1) % Modulus /\ due' = Head(queue).no + 1

\* H264VideoRTPSource::processSpecialHeader: the two flags come from the packet,
\* except that a STAP-A leaves those of the packet before.
BeginsNow(n) ==
  IF Kind(n) \in Aggregates THEN begins ELSE IF n \in Packets THEN BeginsFrame(n) ELSE n \notin OtherParts
CompletesNow(n) == IF Kind(n) \in Aggregates THEN completes ELSE Kind(n) = "end"

-----------------------------------------------------------------------------
(* doGetNextFrame1, one packet at a time.                                  *)

EndOfLoop ==
  /\ pc = "loop" /\ ~(need /\ Available)
  /\ pc' = "idle"
  /\ UNCHANGED <<netVars, ssrcVars, statVars, bufferVars, frameVars, askVars>>

\* processSpecialHeader does not accept the packet.
RefusePacket ==
  /\ pc = "loop" /\ need /\ Available /\ Kind(Head(queue).no) = "refused"
  /\ ReleaseHead
  /\ misread' = (misread \/ LossPreceded)
  /\ UNCHANGED <<netVars, ssrcVars, statVars, begins, completes, lossInFrame, frame, truncated, askVars, pc>>

\* Mutant: a loss within a frame is not remembered.
LossAfterOnce(n) == ~BeginsNow(n) /\ LossPreceded

\* fPacketLossInFragmentedFrame after packet n has been looked at.
LossAfter(n) == ~BeginsNow(n) /\ (lossInFrame \/ LossPreceded)

\* Data of an earlier frame that is forgotten when packet n begins a frame.
Kept(n) == IF BeginsNow(n) /\ (LossPreceded \/ lossInFrame) THEN <<>> ELSE frame

\* The packet belongs to a frame of which a packet is lost.
RejectPacket ==
  LET n == Head(queue).no IN
  /\ pc = "loop" /\ need /\ Available /\ Kind(n) # "refused" /\ LossAfter(n)
  /\ ReleaseHead
  /\ begins' = BeginsNow(n) /\ completes' = CompletesNow(n)
  /\ lossInFrame' = TRUE
  /\ UNCHANGED <<netVars, ssrcVars, statVars, frame, truncated, misread, askVars, pc>>

\* The packet or the next unit in it is used, and a used-up packet released; of a
\* unit of size 0, which is all that nextEnclosedFrameSize makes of a stray byte,
\* nothing is used up.  If that completes a frame that is not empty, afterGetting
\* is called at once, or through the event loop when the buffer is not empty.
UsePacket ==
  LET n       == Head(queue).no
      unit    == Head(queue).uses + 1
      nothing == Kind(n) = "stray" /\ unit = 2
      remains == Kind(n) = "stray" \/ (Kind(n) = "both" /\ unit = 1)
  IN
  /\ pc = "loop" /\ need /\ Available /\ Kind(n) # "refused" /\ ~LossAfter(n)
  /\ IF remains THEN queue' = [queue EXCEPT ![1].uses = 1] /\ GiveUpEarlier ELSE ReleaseHead
  /\ begins' = BeginsNow(n) /\ completes' = CompletesNow(n)
  /\ misread' = (misread \/ (Kind(n) \in Aggregates /\ ~completes))
  /\ lossInFrame' = FALSE
  /\ frame' = IF nothing THEN Kept(n) ELSE Append(Kept(n), <<n, unit>>)
  /\ truncated' = (~nothing /\ Len(Kept(n)) >= fMaxSize)
  /\ need' = ~(completes' /\ frame' # <<>>)
  /\ task' = (~need' /\ queue' # <<>>)
  /\ pc' = IF need' THEN "loop" ELSE IF task' THEN "idle" ELSE "after"
  /\ UNCHANGED <<netVars, ssrcVars, statVars, awaiting, reading, upTo>>

-----------------------------------------------------------------------------
(* The socket handler.                                                     *)

\* networkReadHandler1 with an RTP packet, of the sender or of another SSRC, which
\* has statistics of its own.
ReceivePacket(n) ==
  /\ pc = "idle" /\ reading /\ (ChangesSSRC(n) => changes < MaxChanges)
  /\ other' = (n \in Other) /\ changes' = IF ChangesSSRC(n) THEN changes + 1 ELSE changes
  /\ IF n \in Other THEN UNCHANGED statVars ELSE noteIncomingPacket(n)
  /\ storePacket(n)
  /\ LET afresh == n \notin Other /\ other /\ queue = <<>>
     IN /\ mixed' = (n \in Other \/ (mixed /\ ~afresh))
        /\ upTo' = IF afresh THEN <<0, 0>> ELSE upTo
  /\ pc' = "loop"
  /\ UNCHANGED <<netVars, frameVars, awaiting, need, task, reading>>

\* networkReadHandler1 with what it frees: no RTP packet, or one of another payload
\* type, RTCP among them.
ReceiveOther ==
  /\ pc = "idle" /\ reading
  /\ pc' = "loop"
  /\ UNCHANGED <<netVars, ssrcVars, statVars, bufferVars, frameVars, askVars>>

-----------------------------------------------------------------------------
(* The reader.                                                             *)

\* FramedSource::afterGetting, called or run by the event loop.
AfterGetting ==
  /\ pc = "after" \/ (pc = "idle" /\ task)
  /\ pc' = "client" /\ task' = FALSE /\ awaiting' = FALSE
  /\ upTo' = Last(frame) /\ frame' = <<>>
  /\ UNCHANGED <<netVars, ssrcVars, statVars, bufferVars, begins, completes, lossInFrame, truncated, misread, need, reading>>

\* FramedSource::getNextFrame and doGetNextFrame, in the callback or later.
GetNextFrame ==
  /\ pc \in {"idle", "client"} /\ ~awaiting
  /\ awaiting' = TRUE /\ reading' = TRUE /\ need' = TRUE /\ frame' = <<>>
  /\ truncated' = FALSE /\ misread' = FALSE /\ pc' = "loop"
  /\ UNCHANGED <<netVars, ssrcVars, statVars, bufferVars, begins, completes, lossInFrame, task, upTo>>

\* The callback returns, into the loop or to the event loop.
ClientReturns ==
  /\ pc = "client" /\ pc' = "idle"
  /\ UNCHANGED <<netVars, ssrcVars, statVars, bufferVars, frameVars, askVars>>

\* FramedSource::stopGettingFrames, doStopGettingFrames and reset.
StopGettingFrames ==
  /\ pc \in {"idle", "client"} /\ reading
  /\ awaiting' = FALSE /\ task' = FALSE /\ reading' = FALSE /\ need' = FALSE
  /\ queue' = <<>> /\ seen' = FALSE /\ mixed' = FALSE
  /\ begins' = TRUE /\ completes' = TRUE /\ lossInFrame' = FALSE
  /\ frame' = <<>> /\ upTo' = <<0, 0>> /\ misread' = FALSE /\ due' = 0 /\ pc' = "idle"
  /\ UNCHANGED <<netVars, ssrcVars, statVars, expected, truncated>>

-----------------------------------------------------------------------------
Network == (\E kind \in Kinds : Send(kind)) \/ Tick
InReach(n) == Len(sent) - n < Reach /\ (top # 0 => top - n < Reach)
Receive == \E n \in {m \in Packets : InReach(m)} \cup Other : ReceivePacket(n)
Loop    == EndOfLoop \/ RefusePacket \/ RejectPacket \/ UsePacket
Reader  == GetNextFrame \/ ClientReturns \/ StopGettingFrames

Next == Network \/ Receive \/ ReceiveOther \/ Loop \/ AfterGetting \/ Reader
Spec == Init /\ [][Next]_vars

\* Time passes, the event loop looks at the delay queue after every socket handler
\* (so that a flood of packets holds nothing up), and the reader asks for the next
\* frame in the end.  Nothing says that a packet arrives.
FairSpec ==
  /\ Spec /\ WF_vars(Loop \/ ClientReturns)
  /\ SF_vars(Tick) /\ SF_vars(AfterGetting \/ GetNextFrame)

-----------------------------------------------------------------------------
(* Properties.                                                             *)

\* The numbers in the buffer, which know nothing beyond 2^16, describe the
\* packets as they were sent: each is there once, in the order of sending, and
\* none lies before the one that is expected (the assertions in the comments of
\* releaseUsedPacket and getNextCompletedPacket), unless packets of another SSRC
\* were mixed with them: from the first packet on that finds the buffer empty
\* after those it is so again.
ReceptionInv ==
  /\ TypeOK
  /\ ~mixed =>
       /\ seen => expected = Seq16(due)
       /\ \A i \in DOMAIN queue : queue[i].no \in Packets /\ due <= queue[i].no
       /\ \A i, j \in DOMAIN queue : i < j => queue[i].no < queue[j].no
  /\ task \/ pc = "after" => awaiting /\ ~need

\* The pieces of f are one of each packet with data from from to to, in their order.
PiecesOf(f, from, to) ==
  /\ {f[i][1] : i \in DOMAIN f} = {n \in from .. to : sent[n] # "refused"}
  /\ \A i \in DOMAIN f : f[i][2] = 1 /\ \A j \in DOMAIN f : i < j => f[i][1] < f[j][1]

\* The frame is a unit of an aggregate, or all of the packets with data from one
\* that begins a unit to the next that ends one.
Whole(f) ==
  LET from == f[1][1]  to == Last(f)[1] IN
  /\ from \in Packets /\ to \in Packets
  /\ \/ sent[from] \in Aggregates /\ Len(f) = 1
     \/ /\ BeginsFrame(from) /\ sent[to] = "end"
        /\ \A n \in from .. to - 1 : sent[n] \in {"part", "refused"}
        /\ PiecesOf(f, from, to)

\* A frame is made of all the pieces of one unit and none of another, and lies
\* behind every frame delivered before, whatever the network lost, repeated or
\* reordered; what of it does not fit the reader's buffer, and only that, is missing
\* there, and the reader is told so.  The exceptions are what mixed and misread
\* record: packets of another SSRC; a loss noticed on a packet that is refused and
\* forgotten with it; a STAP-A behind the lost end of a unit, taken for a part of one.
FramesAreWhole ==
  (pc = "after" \/ task) /\ ~mixed =>
    /\ upTo[1] < frame[1][1] \/ (upTo[1] = frame[1][1] /\ upTo[2] < frame[1][2])
    /\ ~misread => Whole(frame)
    /\ truncated <=> Len(frame) > fMaxSize

\* The extended numbers that receiver reports are made of count the packets
\* from the first to the last one noted, across the wrap-around and in spite of
\* packets older than the first.
ExtendedNumbersCount == top # 0 => highest - base = top - lowest

\* As long as packets arrive, no gap is waited for without end, though no timer
\* watches it: again and again the buffer is empty or its head is taken.
PacketsMoveOn ==
  []<><<Receive \/ ReceiveOther>>_vars => []<>(queue = <<>> \/ (pc = "loop" /\ need /\ Available))
=============================================================================
