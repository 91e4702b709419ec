----------------------------- MODULE RtpPacker -----------------------------
(***************************************************************************)
(* MultiFramedRTPSink and its OutPacketBuffer: how the frames that a       *)
(* source delivers are packed into RTP packets.  Frames are read straight  *)
(* into the packet; one that does not fit stays where it is as overflow    *)
(* data for the next packet, and one that is too big for any packet is cut *)
(* and sent in parts.  To save copies the next packet may be built just in *)
(* front of the overflow data, in the middle of the buffer.                *)
(*                                                                         *)
(* A byte of the buffer says what it holds: byte i of a frame of n bytes,  *)
(* or a part of a header.  Frames are told apart by their parity f.  Bytes *)
(* that have been sent, and headers, are forgotten after each step.        *)
(***************************************************************************)
EXTENDS Naturals

CONSTANTS HeaderSize,   \* RTP header and special header
          fPreferred, fMax,  \* packet sizes
          fLimit,       \* size of the buffer
          MaxRestarts   \* bound: how often a stopped sink is played again

ASSUME PacketAssumption ==
  /\ HeaderSize \in Nat \ {0} /\ fPreferred \in Nat /\ fMax \in Nat /\ fLimit \in Nat
  /\ HeaderSize < fPreferred /\ fPreferred <= fMax /\ fMax <= fLimit
  /\ 2 * HeaderSize <= fLimit
  /\ MaxRestarts \in Nat

VARIABLES
  oneFrame,    \* the payload format allows one frame per packet (H.264)
  sink,          \* stopped; asked: a frame is awaited; wait: sendNext is scheduled
  fBuf,
  fPacketStart, fCurOffset,
  fOverflowDataOffset, fOverflowDataSize,
  inPacket,    \* fNumFramesUsedSoFar > 0
  fCurFragmentationOffset,
  fPreviousFrameEndedFragmentation,
  restarts,    \* times the sink has been played again
  packet,      \* history: size of the last packet sent
  lastSent, lastRead   \* history: last byte sent, last byte of the last frame read

overflowVars == <<fOverflowDataOffset, fOverflowDataSize>>
fragVars     == <<fCurFragmentationOffset, fPreviousFrameEndedFragmentation>>
packerVars == <<oneFrame, sink, fBuf, fPacketStart, fCurOffset, overflowVars, inPacket,
                fragVars, restarts, packet, lastSent, lastRead>>

Places == 0 .. fLimit - 1
Frame(f, i, n) == [f |-> f, i |-> i, n |-> n]
Header == Frame(0, 0, 1)
Nothing == Frame(0, 0, 0)
Bytes  == [f : {0, 1}, i : 0 .. fLimit, n : 0 .. fLimit]

PackerTypeOK ==
  /\ oneFrame \in BOOLEAN /\ sink \in {"stopped", "asked", "wait"}
  /\ fBuf \in [Places -> Bytes]
  /\ fPacketStart \in 0 .. fLimit /\ fCurOffset \in 0 .. fLimit
  /\ fOverflowDataOffset \in 0 .. fLimit /\ fOverflowDataSize \in 0 .. fLimit - HeaderSize
  /\ inPacket \in BOOLEAN
  /\ fCurFragmentationOffset \in Nat /\ fPreviousFrameEndedFragmentation \in BOOLEAN
  /\ restarts \in 0 .. MaxRestarts /\ packet \in 0 .. fLimit
  /\ lastSent \in Bytes /\ lastRead \in Bytes

PackerInit ==
  /\ oneFrame \in BOOLEAN /\ sink = "stopped"
  /\ fBuf = [p \in Places |-> Nothing]
  /\ fPacketStart = 0 /\ fCurOffset = 0
  /\ fOverflowDataOffset = 0 /\ fOverflowDataSize = 0
  /\ inPacket = FALSE /\ fCurFragmentationOffset = 0
  /\ fPreviousFrameEndedFragmentation = FALSE
  /\ restarts = 0 /\ packet = 0 /\ lastSent = Nothing /\ lastRead = Nothing

-----------------------------------------------------------------------------
(* OutPacketBuffer.                                                        *)

totalBytesAvailable(start, offset) == fLimit - (start + offset)

WithHeader(b, start) ==
  [p \in Places |-> IF p \in start .. start + HeaderSize - 1 THEN Header ELSE b[p]]

\* enqueue of length bytes that lie at from, with memmove.
Moved(b, from, to, length) ==
  [p \in Places |-> IF p \in to .. to + length - 1 THEN b[from + (p - to)] ELSE b[p]]

\* The bytes from one place up to another are still needed.
Keep(b, from, to) == [p \in Places |-> IF p \in from .. to - 1 THEN b[p] ELSE Nothing]

wouldOverflow(offset, length) == offset + length > fMax

numOverflowBytes(offset, length) == (offset + length) - fMax

\* Mutant: the header is not counted.
isTooBigWithoutHeader(size) == size > fMax

isTooBigForAPacket(size) == size + HeaderSize > fMax

\* Mutant: the next packet is moved whatever is left of the buffer.
WorthMovingAlways(start, c) == TRUE

\* Where more than half of the buffer is left behind the packet of c bytes,
\* the next one starts in front of the overflow data.
WorthMoving(start, c) == totalBytesAvailable(start, c) > fLimit \div 2

\* Mutant: no room is left for the next header.
PacketStartAtOverflow(start, c) == start + c

\* The header of the next packet then ends where the packet of c bytes ends.
PacketStartBefore(start, c) == start + (c - HeaderSize)

-----------------------------------------------------------------------------
(* Sending and packing.                                                    *)

\* The packet of c bytes in b is sent if it holds a frame, sendNext is
\* scheduled, and kept bytes behind the packet stay as overflow data.
SendPacketIfNecessary(b, c, used, kept) ==
  /\ sink' = "wait" /\ fCurOffset' = 0 /\ inPacket' = FALSE
  /\ fBuf' = Keep(b, fPacketStart + c, fPacketStart + c + kept)
  /\ IF used
       THEN /\ packet' = c
            /\ lastSent' = IF c > HeaderSize THEN b[fPacketStart + c - 1] ELSE lastSent
       ELSE UNCHANGED <<packet, lastSent>>
  /\ fOverflowDataSize' = kept
  /\ fPacketStart' = IF kept > 0 /\ WorthMoving(fPacketStart, c)
                       THEN PacketStartBefore(fPacketStart, c) ELSE 0
  /\ fOverflowDataOffset' = IF kept > 0 THEN (fPacketStart + c) - fPacketStart' ELSE 0

\* Mutant: the last part of a frame does not end the count.
FragmentationOffsetKept(cut, use, ends) ==
  IF cut THEN fCurFragmentationOffset + use ELSE fCurFragmentationOffset

\* The offset after use bytes of a frame that is cut, or of its last part.
FragmentationOffset(cut, use, ends) ==
  IF cut THEN fCurFragmentationOffset + use
  ELSE IF ends THEN 0 ELSE fCurFragmentationOffset

\* A frame of size bytes lies in b behind the c bytes of the packet; used says
\* whether the packet already holds a frame.  The frame waits for the next
\* packet if it may not follow, or does not fit although it would fit alone or
\* a frame is in front of it; it is cut if no packet can hold it.
AfterGettingFrame(b, c, used, size) ==
  LET barred == used /\ (fPreviousFrameEndedFragmentation \/ oneFrame)
      over   == ~barred /\ size > 0 /\ wouldOverflow(c, size)
      cut    == over /\ ~used /\ isTooBigForAPacket(size)
      kept   == IF cut THEN numOverflowBytes(c, size) ELSE IF barred \/ over THEN size ELSE 0
      use    == size - kept
      ends   == ~barred /\ size > 0 /\ ~over /\ fCurFragmentationOffset > 0
      full   == \/ c + use >= fPreferred \/ wouldOverflow(c + use, use)
                \/ ends \/ oneFrame
  IN /\ fCurFragmentationOffset' = FragmentationOffset(cut, use, ends)
     /\ fPreviousFrameEndedFragmentation' = ends
     /\ IF use = 0 /\ size > 0 THEN SendPacketIfNecessary(b, c, used, kept)
        ELSE IF full THEN SendPacketIfNecessary(b, c + use, TRUE, kept)
        ELSE /\ sink' = "asked" /\ fCurOffset' = c + use /\ inPacket' = TRUE
             /\ fBuf' = Keep(b, fPacketStart + HeaderSize, fPacketStart + c + use)
             /\ fOverflowDataOffset' = 0 /\ fOverflowDataSize' = 0
             /\ UNCHANGED <<fPacketStart, packet, lastSent>>

\* Mutant: overflow data is taken to lie behind the header already.
BuildPacketInPlace ==
  LET b == WithHeader(fBuf, fPacketStart)
  IN IF fOverflowDataSize > 0
       THEN AfterGettingFrame(b, HeaderSize, FALSE, fOverflowDataSize)
       ELSE /\ sink' = "asked" /\ fCurOffset' = HeaderSize /\ inPacket' = FALSE
            /\ fBuf' = Keep(b, 0, 0)
            /\ UNCHANGED <<fPacketStart, overflowVars, fragVars, packet, lastSent>>

\* buildAndSendPacket: the headers, and then the overflow data or a new frame.
BuildPacket ==
  LET b == WithHeader(fBuf, fPacketStart)
      at == fPacketStart + HeaderSize
  IN IF fOverflowDataSize > 0
       THEN AfterGettingFrame(Moved(b, fPacketStart + fOverflowDataOffset, at, fOverflowDataSize),
                              HeaderSize, FALSE, fOverflowDataSize)
       ELSE /\ sink' = "asked" /\ fCurOffset' = HeaderSize /\ inPacket' = FALSE
            /\ fBuf' = Keep(b, 0, 0)
            /\ UNCHANGED <<fPacketStart, overflowVars, fragVars, packet, lastSent>>

-----------------------------------------------------------------------------
\* startPlaying, and playing again what has been stopped.
StartPlaying ==
  /\ sink = "stopped" /\ lastRead = Nothing
  /\ BuildPacket
  /\ UNCHANGED <<oneFrame, restarts, lastRead>>

PlayAgain ==
  /\ sink = "stopped" /\ lastRead # Nothing /\ restarts < MaxRestarts
  /\ BuildPacket
  /\ restarts' = restarts + 1
  /\ UNCHANGED <<oneFrame, lastRead>>

SendNext ==
  /\ sink = "wait"
  /\ BuildPacket
  /\ UNCHANGED <<oneFrame, restarts, lastRead>>

\* The source delivers a frame of n bytes; it cuts off what has no room.
SourceDelivers(n) ==
  /\ sink = "asked"
  /\ n <= totalBytesAvailable(fPacketStart, fCurOffset)
  /\ LET at == fPacketStart + fCurOffset
         b  == [p \in Places |-> IF p \in at .. at + n - 1
                                   THEN Frame(1 - lastRead.f, p - at + 1, n) ELSE fBuf[p]]
     IN AfterGettingFrame(b, fCurOffset, inPacket, n)
  /\ lastRead' = IF n > 0 THEN Frame(1 - lastRead.f, n, n) ELSE lastRead
  /\ UNCHANGED <<oneFrame, restarts>>

\* stopPlaying, at any time.
StopPlaying ==
  /\ sink # "stopped" /\ sink' = "stopped"
  /\ fPacketStart' = 0 /\ fCurOffset' = 0
  /\ fOverflowDataOffset' = 0 /\ fOverflowDataSize' = 0
  /\ fBuf' = Keep(fBuf, 0, 0) /\ lastSent' = lastRead
  /\ UNCHANGED <<oneFrame, inPacket, fragVars, restarts, packet, lastRead>>

PackerNext == StartPlaying \/ PlayAgain \/ SendNext \/ StopPlaying
                \/ \E n \in 0 .. fLimit : SourceDelivers(n)

PackerSpec == PackerInit /\ [][PackerNext]_packerVars

\* A scheduled sendNext is run.
PackerFairSpec == PackerSpec /\ WF_packerVars(SendNext)

-----------------------------------------------------------------------------
\* No packet is larger than fMax.
PacketsFit == packet <= fMax

\* Wherever the packet starts, the buffer has room for what is in it and behind
\* it, and the next header cannot overwrite the overflow data.
OverflowIsSafe ==
  /\ fPacketStart + fCurOffset <= fLimit /\ fPacketStart + HeaderSize <= fLimit
  /\ fOverflowDataSize > 0 =>
       /\ sink = "wait"
       /\ HeaderSize <= fOverflowDataOffset
       /\ fPacketStart + fOverflowDataOffset + fOverflowDataSize <= fLimit

\* What has been read and not yet sent: a packet being filled, or overflow data.
Unsent == IF sink = "asked" THEN [from |-> fPacketStart + HeaderSize, to |-> fPacketStart + fCurOffset]
          ELSE [from |-> fPacketStart + fOverflowDataOffset,
                to |-> fPacketStart + fOverflowDataOffset + fOverflowDataSize]

\* Byte c comes after byte b in the stream of frames.
Follows(b, c) ==
  IF b.i < b.n THEN c = Frame(b.f, b.i + 1, b.n) ELSE c.f = 1 - b.f /\ c.i = 1

\* The bytes from one place up to another continue the stream after first,
\* each once and in order, and end it with last.
Unbroken(b, from, to, first, last) ==
  IF from = to THEN first = last
  ELSE /\ Follows(first, b[from]) /\ b[to - 1] = last
       /\ \A p \in from .. to - 2 : Follows(b[p], b[p + 1])

\* From the last byte sent to the last byte read the buffer holds each byte of
\* the frames once and in order: packing, cutting and moving lose nothing.
FramesUnbroken == Unbroken(fBuf, Unsent.from, Unsent.to, lastSent, lastRead)

\* When the source is asked for a frame, about half of the buffer is free, even
\* if the packet was started in the middle of it.
RoomForFrames ==
  sink = "asked" =>
    2 * (totalBytesAvailable(fPacketStart, fCurOffset) + (fPreferred - HeaderSize)) > fLimit

\* The fragmentation offset, which goes into the payload header, is the place
\* in its frame of what the next packet starts with, as long as the sink has
\* not been played again.
OffsetIsThatOfTheFragment ==
  fCurFragmentationOffset =
    IF fOverflowDataSize > 0
      THEN fBuf[fPacketStart + fOverflowDataOffset].i - 1 ELSE 0

OffsetsAreRight == sink # "stopped" /\ restarts = 0 => OffsetIsThatOfTheFragment

\* Overflow data is used up, packet by packet, unless the sink is stopped.
OverflowIsSent == (fOverflowDataSize > 0) ~> (fOverflowDataSize = 0)

\* The bytes at length places from from on are the end of the frame that ends
\* with byte last.
FrameEnd(b, from, length, last) ==
  /\ length <= last.n
  /\ \A p \in from .. from + length - 1 :
       b[p] = Frame(last.f, last.n - (from + length - 1 - p), last.n)

\* A packet that does not start at the start of the buffer has half of it left.
HalfIsLeft(start) == start > 0 => 2 * (fLimit - (start + HeaderSize)) > fLimit

PlaceInv ==
  /\ lastRead.i = lastRead.n
  /\ fOverflowDataSize = 0 => fOverflowDataOffset = 0
  /\ sink = "asked" => /\ fOverflowDataSize = 0
                       /\ HeaderSize <= fCurOffset /\ fCurOffset < fPreferred
                       /\ fCurOffset > HeaderSize => inPacket
  /\ sink = "wait" => fCurOffset = 0
  /\ sink = "stopped" => /\ fCurOffset = 0 /\ fPacketStart = 0
                         /\ fOverflowDataSize = 0
  /\ HalfIsLeft(fPacketStart)

\* Overflow data is the end of the last frame read; nothing read, nothing cut.
TailInv ==
  /\ fOverflowDataSize > 0 =>
       FrameEnd(fBuf, fPacketStart + fOverflowDataOffset, fOverflowDataSize, lastRead)
  /\ sink = "stopped" /\ restarts = 0 /\ lastRead = Nothing => fCurFragmentationOffset = 0

\* The inductive invariant: also, no packet is larger than fMax, and the
\* fragmentation offset is right.
PackInv == /\ PackerTypeOK /\ PacketsFit /\ OverflowIsSafe /\ PlaceInv /\ TailInv
           /\ FramesUnbroken /\ OffsetsAreRight
=============================================================================
