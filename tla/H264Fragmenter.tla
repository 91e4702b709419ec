--------------------------- MODULE H264Fragmenter ---------------------------
(***************************************************************************)
(* H264or5Fragmenter for H.264: the filter between the live source and the *)
(* RTP sink that cuts a NAL unit into the payloads of FU packets, in place *)
(* in one buffer, one payload for each frame that the sink asks for.       *)
(*                                                                         *)
(* A byte of the buffer is a record that says what it holds: byte i of the *)
(* NAL unit, the FU indicator or an FU header.                             *)
(***************************************************************************)
EXTENDS Naturals, SequencesExt

CONSTANTS fMaxOutputPacketSize,  \* the largest payload
          MaxFrame               \* the buffer's room, fInputBufferSize - 1

\* With less room the header bytes of the second fragment would fall on the
\* header in front of the buffer, from which those of later ones are copied.
ASSUME SizeAssumption ==
  fMaxOutputPacketSize \in Nat /\ fMaxOutputPacketSize >= 4 /\ MaxFrame \in Nat

VARIABLES
  asked,     \* the sink waits for a payload: fIsCurrentlyAwaitingData
  buffer,    \* fInputBuffer
  valid,     \* fNumValidDataBytes: 1 when there is no NAL unit
  offset,    \* fCurDataOffset
  fLastFragmentCompletedNALUnit,
  size,      \* history: length of the last NAL unit read
  payloads   \* history: the payloads it has been delivered as, so far

bufferVars == <<buffer, valid, offset, fLastFragmentCompletedNALUnit>>
vars == <<asked, bufferVars, size, payloads>>

Nal(i)         == [what |-> "nal", i |-> i, bits |-> {}]
Indicator      == [what |-> "indicator", i |-> 0, bits |-> {}]
FuHeader(bits) == [what |-> "header", i |-> 0, bits |-> bits]
Bytes == {Nal(i) : i \in 0 .. MaxFrame} \cup {Indicator} \cup {FuHeader(x) : x \in SUBSET {"S", "E"}}

TypeOK ==
  /\ asked \in BOOLEAN /\ fLastFragmentCompletedNALUnit \in BOOLEAN
  /\ buffer \in [0 .. MaxFrame -> Bytes]
  /\ valid \in 1 .. MaxFrame + 1 /\ offset \in 1 .. MaxFrame + 1
  /\ size \in 0 .. MaxFrame
  /\ payloads \in Seq(Seq(Bytes))

\* Nal(0) stands for the bytes of a buffer that has not been written.
Init ==
  /\ asked = FALSE
  /\ buffer = [i \in 0 .. MaxFrame |-> Nal(0)]
  /\ valid = 1 /\ offset = 1 /\ fLastFragmentCompletedNALUnit = TRUE
  /\ size = 0 /\ payloads = <<>>

-----------------------------------------------------------------------------
(* One payload: the buffer b after it, the next offset, and the bytes.     *)

Slice(b, from, length) == [i \in 1 .. length |-> b[from + i - 1]]

Payload(b, from, length, to) == [buffer |-> b, bytes |-> Slice(b, from, length), next |-> to]

\* Case 1: a NAL unit that fits is delivered as it is.
Whole(b, v) == Payload(b, 1, v - 1, v)

\* Mutant: the NAL header is kept in front of the FU header.
FirstFragmentKeepingHeader(b, v) ==
  LET h == [b EXCEPT ![0] = FuHeader({"S"})]
  IN Payload(h, 0, fMaxOutputPacketSize, fMaxOutputPacketSize)

\* Case 2: the first fragment, whose two header bytes replace the NAL header.
FirstFragment(b, v) ==
  LET h == [b EXCEPT ![0] = Indicator, ![1] = FuHeader({"S"})]
  IN Payload(h, 0, fMaxOutputPacketSize, fMaxOutputPacketSize)

IsLastFragment(v, o) == 2 + (v - o) <= fMaxOutputPacketSize

\* Case 3: a later fragment; its header bytes replace two bytes already sent.
NextFragment(b, v, o) ==
  LET length == IF IsLastFragment(v, o) THEN 2 + (v - o) ELSE fMaxOutputPacketSize
      header == FuHeader((b[1].bits \ {"S"}) \cup IF IsLastFragment(v, o) THEN {"E"} ELSE {})
      h      == [b EXCEPT ![o - 2] = b[0], ![o - 1] = header]
  IN Payload(h, o - 2, length, o + length - 2)

Cut(b, v, o) ==
  IF o = 1 THEN IF v - 1 <= fMaxOutputPacketSize THEN Whole(b, v) ELSE FirstFragment(b, v)
  ELSE NextFragment(b, v, o)

\* The value given to fLastFragmentCompletedNALUnit in the three cases.
Completes(v, o) ==
  (o = 1 /\ v - 1 <= fMaxOutputPacketSize) \/ (o # 1 /\ IsLastFragment(v, o))

\* Mutant: the end of the NAL unit is missed by one.
DeliverPayloadMissingTheEnd(b, v, o) ==
  LET p == Cut(b, v, o)
  IN /\ buffer' = p.buffer /\ fLastFragmentCompletedNALUnit' = Completes(v, o)
     /\ payloads' = Append(IF o = 1 THEN <<>> ELSE payloads, p.bytes)
     /\ valid' = IF p.next > v THEN 1 ELSE v
     /\ offset' = IF p.next > v THEN 1 ELSE p.next
     /\ asked' = FALSE

\* Mutant: fCurDataOffset is not advanced.
DeliverPayloadStayingPut(b, v, o) ==
  LET p == Cut(b, v, o)
  IN /\ buffer' = p.buffer /\ fLastFragmentCompletedNALUnit' = Completes(v, o)
     /\ payloads' = Append(IF o = 1 THEN <<>> ELSE payloads, p.bytes)
     /\ valid' = IF p.next >= v THEN 1 ELSE v
     /\ offset' = 1
     /\ asked' = FALSE

\* doGetNextFrame with data in the buffer: the sink gets a payload, and after
\* the last byte of the NAL unit the buffer counts as empty.
DeliverPayload(b, v, o) ==
  LET p == Cut(b, v, o)
  IN /\ buffer' = p.buffer /\ fLastFragmentCompletedNALUnit' = Completes(v, o)
     /\ payloads' = Append(IF o = 1 THEN <<>> ELSE payloads, p.bytes)
     /\ valid' = IF p.next >= v THEN 1 ELSE v
     /\ offset' = IF p.next >= v THEN 1 ELSE p.next
     /\ asked' = FALSE

-----------------------------------------------------------------------------
\* The sink asks and the buffer is empty: a NAL unit is asked of the source.
AskSource ==
  /\ ~asked /\ asked' = TRUE
  /\ valid = 1
  /\ UNCHANGED <<bufferVars, size, payloads>>

\* The sink asks and there is more of the NAL unit.
AskForMore ==
  /\ ~asked /\ valid > 1
  /\ DeliverPayload(buffer, valid, offset)
  /\ UNCHANGED size

\* The source delivers a NAL unit of n bytes (it cuts off what has no room) and
\* the first payload is delivered at once.  (An empty one changes nothing: the
\* source is asked again.)
SourceDelivers(n) ==
  /\ asked
  /\ LET filled == [i \in 0 .. MaxFrame |-> IF i \in 1 .. n THEN Nal(i) ELSE buffer[i]]
     IN DeliverPayload(filled, 1 + n, 1)
  /\ size' = n

\* stopGettingFrames, at any time: the stale rest of a NAL unit is dropped.
StopGettingFrames ==
  /\ asked' = FALSE
  /\ valid' = 1 /\ offset' = 1 /\ fLastFragmentCompletedNALUnit' = TRUE
  /\ payloads' = <<>> /\ UNCHANGED <<buffer, size>>

Next == AskSource \/ AskForMore \/ (\E n \in 1 .. MaxFrame : SourceDelivers(n)) \/ StopGettingFrames

Spec == Init /\ [][Next]_vars

\* The sink goes on asking for payloads.
FairSpec == Spec /\ WF_vars(AskForMore)

-----------------------------------------------------------------------------
\* No payload is larger than an RTP packet has room for.
PayloadsFit == \A p \in Range(payloads) : Len(p) <= fMaxOutputPacketSize

\* fNumValidDataBytes and fCurDataOffset describe the NAL unit that is being cut:
\* there is none, or the offset lies behind the bytes delivered and before the
\* end, at least two bytes in, so that the header bytes overwrite nothing unsent.
OffsetsInvariant ==
  IF valid = 1 THEN offset = 1
  ELSE /\ valid = size + 1
       /\ fMaxOutputPacketSize <= offset /\ offset < valid
       /\ buffer[0] = Indicator /\ buffer[1] = FuHeader({"S"})
       /\ \A i \in offset .. size : buffer[i] = Nal(i)
       /\ ~fLastFragmentCompletedNALUnit

\* lastFragmentCompletedNALUnit, on which the RTP marker bit depends, is true
\* exactly when nothing of the NAL unit is left to deliver.
CompletionIsReported == fLastFragmentCompletedNALUnit <=> valid = 1

\* The inductive invariant of the fragmenter.
FInv == TypeOK /\ OffsetsInvariant /\ PayloadsFit /\ CompletionIsReported

\* What a receiver makes of the payloads that arrived, by RFC 6184: a single
\* payload as it is, else the fragments' data one after the other.
Data(p) == SubSeq(p, 3, Len(p))
Joined(ps) ==
  LET upTo[k \in 0 .. Len(ps)] == IF k = 0 THEN <<>> ELSE upTo[k - 1] \o Data(ps[k])
  IN upTo[Len(ps)]

\* The fragments of one NAL unit carry the indicator and a header, start in the
\* first and end in the last only; their data is the NAL unit, without its
\* header byte, as far as it has been delivered.
FragmentsRejoin ==
  payloads # <<>> =>
    LET sent == IF valid = 1 THEN size ELSE offset - 1
        last == Len(payloads)
    IN IF last = 1 /\ valid = 1
         THEN payloads[1] = [i \in 1 .. size |-> Nal(i)]
         ELSE /\ \A k \in 1 .. last :
                   /\ payloads[k][1] = Indicator
                   /\ payloads[k][2] = FuHeader(IF k = 1 THEN {"S"}
                                                ELSE IF k = last /\ valid = 1 THEN {"E"} ELSE {})
              /\ Joined(payloads) = [i \in 1 .. sent - 1 |-> Nal(i + 1)]

\* A NAL unit that is being delivered is delivered to its end, or dropped.
NalUnitsEnd == (valid > 1) ~> (valid = 1)
=============================================================================
