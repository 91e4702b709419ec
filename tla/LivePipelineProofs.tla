------------------------- MODULE LivePipelineProofs -------------------------
(***************************************************************************)
(* Proofs about LivePipeline, for every MaxWaiting and MaxFrags.           *)
(***************************************************************************)
EXTENDS LivePipeline, TLAPS

-----------------------------------------------------------------------------
USE DEF recordVars, loopVars, sinkVars, trigVars

LEMMA OtherIsAKind == \A k \in Kinds : Other(k) \in Kinds /\ Kinds = {k, Other(k)}
  BY DEF Kinds, Other

LEMMA NumberFollows == \A n \in SampleNo : NextNo(n) \in SampleNo
  BY PipelineAssumption DEF SampleNo, NextNo

\* What delivering samples does to the types of the variables it changes.
LEMMA DeliverType ==
  ASSUME TypeOK, NEW k \in Kinds, NEW left \in [Kinds -> Nat], Deliver(k, left)
  PROVE  /\ got' \in [Kinds -> SampleNo] /\ queue' \in [Kinds -> Seq(SampleNo)]
         /\ frags' \in [Kinds -> 0 .. MaxFrags]
         /\ awaiting' \subseteq Kinds /\ alarms' \in [Kinds -> Nat]
<1>1. PICK n \in 1 .. Len(queue[k]) :
        /\ got' = [got EXCEPT ![k] = queue[k][n]]
        /\ queue' = [queue EXCEPT ![k] = SubSeq(@, n + 1, Len(@))]
  BY DEF Deliver
<1>2. queue[k] \in Seq(SampleNo) /\ Len(queue[k]) \in Nat /\ n \in Nat
  BY DEF TypeOK
<1>3. queue[k][n] \in SampleNo /\ SubSeq(queue[k], n + 1, Len(queue[k])) \in Seq(SampleNo)
  BY <1>1, <1>2
<1>4. got' \in [Kinds -> SampleNo] /\ queue' \in [Kinds -> Seq(SampleNo)]
  BY <1>1, <1>3 DEF TypeOK
<1>5. frags' \in [Kinds -> 0 .. MaxFrags] /\ awaiting' \subseteq Kinds /\ alarms' \in [Kinds -> Nat]
  <2>1. CASE /\ \E f \in 0 .. MaxFrags : frags' = [frags EXCEPT ![k] = f]
             /\ awaiting' = awaiting \ {k} /\ alarms' = [left EXCEPT ![k] = @ + 1]
    <3>1. frags \in [Kinds -> 0 .. MaxFrags] /\ awaiting \subseteq Kinds /\ left[k] + 1 \in Nat
      BY DEF TypeOK
    <3> QED BY <2>1, <3>1
  <2>2. CASE UNCHANGED frags /\ awaiting' = awaiting \cup {k} /\ alarms' = left
    BY <2>2 DEF TypeOK
  <2> QED BY <2>1, <2>2 DEF Deliver
<1> QED BY <1>4, <1>5

LEMMA GetNextFrameType ==
  ASSUME TypeOK, NEW k \in Kinds, NEW left \in [Kinds -> Nat], GetNextFrame(k, left)
  PROVE  /\ got' \in [Kinds -> SampleNo] /\ queue' \in [Kinds -> Seq(SampleNo)]
         /\ frags' \in [Kinds -> 0 .. MaxFrags]
         /\ awaiting' \subseteq Kinds /\ alarms' \in [Kinds -> Nat]
<1>1. CASE queue[k] # <<>>
  BY <1>1, DeliverType DEF GetNextFrame
<1>2. CASE queue[k] = <<>>
  BY <1>2 DEF GetNextFrame, TypeOK
<1> QED BY <1>1, <1>2

LEMMA PushType ==
  ASSUME TypeOK, NEW k \in Kinds, Push(k)
  PROVE  pushed' \in [Kinds -> SampleNo] /\ queue' \in [Kinds -> Seq(SampleNo)]
<1>1. pushed[k] \in SampleNo /\ NextNo(pushed[k]) \in SampleNo /\ queue[k] \in Seq(SampleNo)
  BY NumberFollows DEF TypeOK
<1>2. Append(queue[k], NextNo(pushed[k])) \in Seq(SampleNo)
  BY <1>1
<1> QED BY <1>1, <1>2 DEF Push, TypeOK

\* Every variable keeps its type.
LEMMA TypeInductive == TypeOK /\ [Next]_vars => TypeOK'
<1> SUFFICES ASSUME TypeOK, [Next]_vars PROVE TypeOK'
  OBVIOUS
<1>1. CASE RecordTest
  BY <1>1 DEF TypeOK, RecordTest
<1>2. CASE RecordVideo
  <2>1. pushed' \in [Kinds -> SampleNo] /\ queue' \in [Kinds -> Seq(SampleNo)]
    BY <1>2, PushType DEF RecordVideo, Kinds
  <2> QED BY <1>2, <2>1 DEF TypeOK, RecordVideo, Push
<1>3. CASE RecordAudio
  <2>1. pushed' \in [Kinds -> SampleNo] /\ queue' \in [Kinds -> Seq(SampleNo)]
    BY <1>3, PushType DEF RecordAudio, Kinds
  <2> QED BY <1>3, <2>1 DEF TypeOK, RecordAudio, Push
<1>4. CASE TriggerData
  BY <1>4 DEF TypeOK, TriggerData
<1>5. CASE TriggerLoad
  BY <1>5 DEF TypeOK, TriggerLoad
<1>6. CASE TriggerStore
  BY <1>6, OtherIsAKind DEF TypeOK, TriggerStore
<1>7. CASE StartVideo
  BY <1>7, GetNextFrameType DEF TypeOK, StartVideo, StartPlaying, Kinds
<1>8. CASE StartAudio
  BY <1>8, GetNextFrameType DEF TypeOK, StartAudio, StartPlaying, Kinds
<1>9. CASE LoopCheck
  BY <1>9 DEF TypeOK, LoopCheck
<1>10. CASE LoopTrigger
  BY <1>10, OtherIsAKind DEF TypeOK, LoopTrigger
<1>11. CASE LoopClearLoad
  BY <1>11 DEF TypeOK, LoopClearLoad
<1>12. CASE LoopClearStore
  BY <1>12 DEF TypeOK, LoopClearStore
<1>13. CASE LoopCall
  <2>1. /\ got' \in [Kinds -> SampleNo] /\ queue' \in [Kinds -> Seq(SampleNo)]
        /\ frags' \in [Kinds -> 0 .. MaxFrags]
        /\ awaiting' \subseteq Kinds /\ alarms' \in [Kinds -> Nat]
    BY <1>13, DeliverType DEF LoopCall, DeliverIfAwaited, TypeOK
  <2> QED BY <1>13, <2>1 DEF TypeOK, LoopCall
<1>14. ASSUME NEW k \in Kinds, LoopAlarm(k) PROVE TypeOK'
  <2>1. CASE frags[k] > 0
    <3>1. frags[k] - 1 \in 0 .. MaxFrags
      BY <2>1, <1>14, PipelineAssumption DEF TypeOK
    <3>2. frags' \in [Kinds -> 0 .. MaxFrags]
      BY <1>14, <2>1, <3>1 DEF TypeOK, LoopAlarm
    <3> QED BY <1>14, <2>1, <3>2 DEF TypeOK, LoopAlarm
  <2>2. CASE ~(frags[k] > 0)
    <3>1. [alarms EXCEPT ![k] = @ - 1] \in [Kinds -> Nat]
      BY <1>14 DEF TypeOK, LoopAlarm
    <3>2. GetNextFrame(k, [alarms EXCEPT ![k] = @ - 1])
      BY <1>14, <2>2 DEF LoopAlarm
    <3>3. /\ got' \in [Kinds -> SampleNo] /\ queue' \in [Kinds -> Seq(SampleNo)]
          /\ frags' \in [Kinds -> 0 .. MaxFrags]
          /\ awaiting' \subseteq Kinds /\ alarms' \in [Kinds -> Nat]
      BY <3>1, <3>2, GetNextFrameType
    <3> QED BY <1>14, <3>3 DEF TypeOK, LoopAlarm
  <2> QED BY <2>1, <2>2
<1>15. CASE LoopNoAlarm
  BY <1>15 DEF TypeOK, LoopNoAlarm
<1>16. CASE StopVideo
  BY <1>16 DEF TypeOK, StopVideo, StopPlaying, Kinds
<1>17. CASE StopAudio
  BY <1>17 DEF TypeOK, StopAudio, StopPlaying, Kinds
<1>18. CASE AskToStop
  BY <1>18 DEF TypeOK, AskToStop
<1>19. CASE UNCHANGED vars
  BY <1>19 DEF TypeOK, vars
<1> QED
  BY <1>1, <1>2, <1>3, <1>4, <1>5, <1>6, <1>7, <1>8, <1>9, <1>10, <1>11, <1>12, <1>13,
     <1>14, <1>15, <1>16, <1>17, <1>18, <1>19 DEF Next, Record, Stream

-----------------------------------------------------------------------------
(* Wake-ups: a sink that plays waits for its source or for its timer.      *)

\* Delivering to a playing sink leaves it awaiting with no sendNext, or not
\* awaiting with one; the other sink is not touched.
LEMMA DeliverWakes ==
  ASSUME TypeOK, NEW k \in Kinds, NEW left \in [Kinds -> Nat], left[k] = 0, Deliver(k, left)
  PROVE  /\ IF k \in awaiting' THEN alarms'[k] = 0 ELSE alarms'[k] = 1
         /\ \A j \in Kinds \ {k} : (j \in awaiting' <=> j \in awaiting) /\ alarms'[j] = left[j]
<1>1. CASE awaiting' = awaiting \ {k} /\ alarms' = [left EXCEPT ![k] = @ + 1]
  BY <1>1
<1>2. CASE awaiting' = awaiting \cup {k} /\ alarms' = left
  BY <1>2
<1> QED BY <1>1, <1>2 DEF Deliver

LEMMA GetNextFrameWakes ==
  ASSUME TypeOK, NEW k \in Kinds, NEW left \in [Kinds -> Nat], left[k] = 0, GetNextFrame(k, left)
  PROVE  /\ IF k \in awaiting' THEN alarms'[k] = 0 ELSE alarms'[k] = 1
         /\ \A j \in Kinds \ {k} : (j \in awaiting' <=> j \in awaiting) /\ alarms'[j] = left[j]
<1>1. CASE queue[k] # <<>>
  BY <1>1, DeliverWakes DEF GetNextFrame
<1>2. CASE queue[k] = <<>>
  BY <1>2 DEF GetNextFrame
<1> QED BY <1>1, <1>2

\* The steps that leave the sinks alone and move the loop among the places
\* where both sinks play.
LEMMA WakeFrame ==
  ASSUME WakeInv, UNCHANGED <<playing, awaiting, alarms>>,
         \/ loop' = loop
         \/ /\ loop \in {"check", "trigger", "clearLoad", "clearStore", "call", "alarm"}
            /\ loop' \in {"check", "trigger", "clearLoad", "clearStore", "call", "alarm", "stopVid"}
  PROVE  WakeInv'
  BY DEF WakeInv, PlayInv, OneWakeUp, StoppedSinkIsQuiet

LEMMA WakeStart ==
  ASSUME TypeOK, WakeInv, NEW k \in Kinds, k \notin playing, GetNextFrame(k, alarms),
         playing' = playing \cup {k}
  PROVE  OneWakeUp' /\ StoppedSinkIsQuiet'
<1>1. alarms \in [Kinds -> Nat] /\ alarms[k] = 0
  BY DEF TypeOK, WakeInv, StoppedSinkIsQuiet
<1>2. /\ IF k \in awaiting' THEN alarms'[k] = 0 ELSE alarms'[k] = 1
      /\ \A j \in Kinds \ {k} : (j \in awaiting' <=> j \in awaiting) /\ alarms'[j] = alarms[j]
  BY <1>1, GetNextFrameWakes
<1>3. playing' \subseteq Kinds
  BY DEF TypeOK
<1>4. ASSUME NEW j \in playing' PROVE IF j \in awaiting' THEN alarms'[j] = 0 ELSE alarms'[j] = 1
  BY <1>2, <1>3, <1>4 DEF WakeInv, OneWakeUp
<1>5. ASSUME NEW j \in Kinds \ playing' PROVE j \notin awaiting' /\ alarms'[j] = 0
  BY <1>2, <1>5 DEF WakeInv, StoppedSinkIsQuiet
<1> QED BY <1>4, <1>5 DEF OneWakeUp, StoppedSinkIsQuiet

LEMMA WakeStop ==
  ASSUME TypeOK, WakeInv, NEW k \in Kinds, NEW from, NEW to, StopPlaying(k, from, to)
  PROVE  OneWakeUp' /\ StoppedSinkIsQuiet'
<1>1. alarms[k] \in {0, 1}
  BY DEF TypeOK, WakeInv, OneWakeUp, StoppedSinkIsQuiet
<1>2. alarms'[k] = 0 /\ k \notin awaiting'
  BY <1>1 DEF StopPlaying, TypeOK
<1>3. \A j \in Kinds \ {k} : (j \in awaiting' <=> j \in awaiting) /\ alarms'[j] = alarms[j]
  BY DEF StopPlaying, TypeOK
<1>4. playing' = playing \ {k} /\ playing \subseteq Kinds
  BY DEF StopPlaying, TypeOK
<1>5. ASSUME NEW j \in playing' PROVE IF j \in awaiting' THEN alarms'[j] = 0 ELSE alarms'[j] = 1
  BY <1>3, <1>4, <1>5 DEF WakeInv, OneWakeUp
<1>6. ASSUME NEW j \in Kinds \ playing' PROVE j \notin awaiting' /\ alarms'[j] = 0
  BY <1>2, <1>3, <1>4, <1>6 DEF WakeInv, StoppedSinkIsQuiet
<1> QED BY <1>5, <1>6 DEF OneWakeUp, StoppedSinkIsQuiet

LEMMA WakeCall == ASSUME TypeOK, WakeInv, LoopCall PROVE WakeInv'
<1>1. CASE sel \in awaiting /\ queue[sel] # <<>>
  <2>1. sel \in Kinds /\ playing = Kinds /\ playing' = Kinds
    BY DEF TypeOK, WakeInv, PlayInv, LoopCall
  <2>2. alarms \in [Kinds -> Nat] /\ alarms[sel] = 0 /\ Deliver(sel, alarms)
    BY <1>1, <2>1 DEF TypeOK, WakeInv, OneWakeUp, LoopCall, DeliverIfAwaited
  <2>3. /\ IF sel \in awaiting' THEN alarms'[sel] = 0 ELSE alarms'[sel] = 1
        /\ \A j \in Kinds \ {sel} : (j \in awaiting' <=> j \in awaiting) /\ alarms'[j] = alarms[j]
    BY <2>1, <2>2, DeliverWakes
  <2>4. OneWakeUp'
    BY <2>1, <2>3 DEF OneWakeUp, WakeInv
  <2>5. StoppedSinkIsQuiet' /\ PlayInv'
    BY <2>1 DEF StoppedSinkIsQuiet, PlayInv, LoopCall
  <2> QED BY <2>4, <2>5 DEF WakeInv
<1>2. CASE ~(sel \in awaiting /\ queue[sel] # <<>>)
  BY <1>2, WakeFrame DEF LoopCall, DeliverIfAwaited
<1> QED BY <1>1, <1>2

LEMMA WakeAlarm == ASSUME TypeOK, WakeInv, NEW k \in Kinds, LoopAlarm(k) PROVE WakeInv'
<1>1. CASE frags[k] > 0
  BY <1>1, WakeFrame DEF LoopAlarm
<1>2. CASE ~(frags[k] > 0)
  <2> DEFINE left == [alarms EXCEPT ![k] = @ - 1]
  <2>1. playing = Kinds /\ playing' = Kinds
    BY DEF WakeInv, PlayInv, LoopAlarm
  <2>2. left \in [Kinds -> Nat] /\ left[k] = 0 /\ \A j \in Kinds \ {k} : left[j] = alarms[j]
    BY <2>1 DEF TypeOK, WakeInv, OneWakeUp, LoopAlarm
  <2>3. GetNextFrame(k, left)
    BY <1>2 DEF LoopAlarm
  <2> HIDE DEF left
  <2>4. /\ IF k \in awaiting' THEN alarms'[k] = 0 ELSE alarms'[k] = 1
        /\ \A j \in Kinds \ {k} : (j \in awaiting' <=> j \in awaiting) /\ alarms'[j] = left[j]
    BY <2>2, <2>3, GetNextFrameWakes
  <2>5. OneWakeUp'
    BY <2>1, <2>2, <2>4 DEF OneWakeUp, WakeInv
  <2>6. StoppedSinkIsQuiet' /\ PlayInv'
    BY <2>1 DEF StoppedSinkIsQuiet, PlayInv, LoopAlarm
  <2> QED BY <2>5, <2>6 DEF WakeInv
<1> QED BY <1>1, <1>2

LEMMA WakeInductive == TypeOK /\ WakeInv /\ [Next]_vars => WakeInv'
<1> SUFFICES ASSUME TypeOK, WakeInv, [Next]_vars PROVE WakeInv'
  OBVIOUS
<1>1. CASE Record
  BY <1>1, WakeFrame DEF Record, RecordTest, RecordVideo, RecordAudio, Push, TriggerData,
     TriggerLoad, TriggerStore
<1>2. CASE StartVideo
  <2>1. "vid" \in Kinds /\ "vid" \notin playing
    BY <1>2 DEF WakeInv, PlayInv, StartVideo, StartPlaying, Kinds
  <2>2. OneWakeUp' /\ StoppedSinkIsQuiet'
    BY <1>2, <2>1, WakeStart DEF StartVideo, StartPlaying
  <2>3. PlayInv'
    BY <1>2 DEF WakeInv, PlayInv, StartVideo, StartPlaying
  <2> QED BY <2>2, <2>3 DEF WakeInv
<1>3. CASE StartAudio
  <2>1. "aud" \in Kinds /\ "aud" \notin playing
    BY <1>3 DEF WakeInv, PlayInv, StartAudio, StartPlaying, Kinds
  <2>2. OneWakeUp' /\ StoppedSinkIsQuiet'
    BY <1>3, <2>1, WakeStart DEF StartAudio, StartPlaying
  <2>3. PlayInv'
    BY <1>3 DEF WakeInv, PlayInv, StartAudio, StartPlaying, Kinds
  <2> QED BY <2>2, <2>3 DEF WakeInv
<1>4. CASE LoopCheck \/ LoopTrigger \/ LoopClearLoad \/ LoopClearStore \/ LoopNoAlarm
  BY <1>4, WakeFrame DEF LoopCheck, LoopTrigger, LoopClearLoad, LoopClearStore, LoopNoAlarm
<1>5. CASE LoopCall
  BY <1>5, WakeCall
<1>6. ASSUME NEW k \in Kinds, LoopAlarm(k) PROVE WakeInv'
  BY <1>6, WakeAlarm
<1>7. CASE StopVideo
  <2>1. OneWakeUp' /\ StoppedSinkIsQuiet'
    BY <1>7, WakeStop DEF StopVideo, Kinds
  <2>2. PlayInv'
    BY <1>7 DEF WakeInv, PlayInv, StopVideo, StopPlaying, Kinds
  <2> QED BY <2>1, <2>2 DEF WakeInv
<1>8. CASE StopAudio
  <2>1. OneWakeUp' /\ StoppedSinkIsQuiet'
    BY <1>8, WakeStop DEF StopAudio, Kinds
  <2>2. PlayInv'
    BY <1>8 DEF WakeInv, PlayInv, StopAudio, StopPlaying, Kinds
  <2> QED BY <2>1, <2>2 DEF WakeInv
<1>9. CASE AskToStop \/ UNCHANGED vars
  BY <1>9, WakeFrame DEF AskToStop, vars
<1> QED
  BY <1>1, <1>2, <1>3, <1>4, <1>5, <1>6, <1>7, <1>8, <1>9 DEF Next, Stream

-----------------------------------------------------------------------------
(* Client data: it is stored before the bit goes up, and never withdrawn,  *)
(* so a stale load of the word by either thread names no other kind.       *)

LEMMA DataInductive == TypeOK /\ DataInv /\ [Next]_vars => DataInv'
<1> SUFFICES ASSUME TypeOK, DataInv, [Next]_vars PROVE DataInv'
  OBVIOUS
<1> USE DEF DataInv, HandlerKnowsItsSource
<1>1. CASE RecordTest \/ RecordVideo \/ RecordAudio
  BY <1>1 DEF RecordTest, RecordVideo, RecordAudio, Push
<1>2. CASE TriggerData
  BY <1>2 DEF TriggerData
<1>3. CASE TriggerLoad
  BY <1>3 DEF TriggerLoad
<1>4. CASE TriggerStore
  <2>1. word' \subseteq datas
    BY <1>4 DEF TriggerStore
  <2>2. record' \notin {"load", "store"}
    BY <1>4 DEF TriggerStore
  <2> QED BY <1>4, <2>1, <2>2 DEF TriggerStore
<1>5. CASE LoopTrigger
  <2>1. loop' = "clearLoad" => sel' \in word
    <3>1. ASSUME word # {} PROVE (IF word = {last} THEN last ELSE Other(last)) \in word
      <4>1. last \in Kinds /\ word \subseteq Kinds /\ Kinds = {last, Other(last)}
        BY OtherIsAKind DEF TypeOK
      <4>2. CASE word = {last}
        BY <4>2
      <4>3. CASE word # {last}
        BY <3>1, <4>1, <4>3
      <4> QED BY <4>2, <4>3
    <3> QED BY <1>5, <3>1 DEF LoopTrigger
  <2>2. loop' \in {"clearLoad", "alarm"}
    BY <1>5 DEF LoopTrigger
  <2> QED BY <1>5, <2>1, <2>2 DEF LoopTrigger
<1>6. CASE LoopClearLoad
  BY <1>6 DEF LoopClearLoad
<1>7. CASE LoopClearStore
  BY <1>7 DEF LoopClearStore
<1>8. CASE StartVideo \/ StartAudio
  BY <1>8 DEF StartVideo, StartAudio, StartPlaying
<1>9. CASE LoopCheck \/ LoopCall \/ LoopNoAlarm
  BY <1>9 DEF LoopCheck, LoopCall, LoopNoAlarm
<1>10. ASSUME NEW k \in Kinds, LoopAlarm(k) PROVE DataInv'
  BY <1>10 DEF LoopAlarm
<1>11. CASE StopVideo \/ StopAudio
  BY <1>11 DEF StopVideo, StopAudio, StopPlaying
<1>12. CASE AskToStop \/ UNCHANGED vars
  BY <1>12 DEF AskToStop, vars
<1> QED
  BY <1>1, <1>2, <1>3, <1>4, <1>5, <1>6, <1>7, <1>8, <1>9, <1>10, <1>11, <1>12
     DEF Next, Record, Stream

-----------------------------------------------------------------------------
(* Samples: the sequence <<got>> \o queue counts up to pushed.             *)

\* SamplesInOrder for one kind, with the indices of the queue alone.
Chain(g, q, p) ==
  /\ IF q = <<>> THEN g = p ELSE q[1] = NextNo(g) /\ q[Len(q)] = p
  /\ \A i \in 1 .. Len(q) - 1 : q[i + 1] = NextNo(q[i])

LEMMA ChainIsCount ==
  ASSUME NEW g \in SampleNo, NEW q \in Seq(SampleNo), NEW p \in SampleNo
  PROVE  LET s == <<g>> \o q
         IN (s[Len(s)] = p /\ \A i \in 1 .. Len(q) : s[i + 1] = NextNo(s[i])) <=> Chain(g, q, p)
<1> DEFINE s == <<g>> \o q
<1>1. Len(s) = Len(q) + 1 /\ s[1] = g /\ \A i \in 1 .. Len(q) : s[i + 1] = q[i]
  OBVIOUS
<1>2. q = <<>> <=> Len(q) = 0
  OBVIOUS
<1> HIDE DEF s
<1>3. s[Len(s)] = p <=> IF q = <<>> THEN g = p ELSE q[Len(q)] = p
  BY <1>1, <1>2
<1>4. ASSUME \A i \in 1 .. Len(q) : s[i + 1] = NextNo(s[i])
      PROVE  /\ q # <<>> => q[1] = NextNo(g)
             /\ \A i \in 1 .. Len(q) - 1 : q[i + 1] = NextNo(q[i])
  <2>1. ASSUME q # <<>> PROVE q[1] = NextNo(g)
    BY <1>1, <1>2, <1>4, <2>1
  <2>2. ASSUME NEW i \in 1 .. Len(q) - 1 PROVE q[i + 1] = NextNo(q[i])
    <3>1. s[i + 2] = NextNo(s[i + 1]) /\ s[i + 1] = q[i] /\ s[i + 2] = q[i + 1]
      <4>1. i + 1 \in 1 .. Len(q) /\ i \in 1 .. Len(q) /\ (i + 1) + 1 = i + 2
        OBVIOUS
      <4> QED BY <1>1, <1>4, <4>1
    <3> QED BY <3>1
  <2> QED BY <2>1, <2>2
<1>5. ASSUME q # <<>> => q[1] = NextNo(g),
             \A i \in 1 .. Len(q) - 1 : q[i + 1] = NextNo(q[i]),
             NEW i \in 1 .. Len(q)
      PROVE  s[i + 1] = NextNo(s[i])
  <2>1. CASE i = 1
    BY <1>1, <1>2, <1>5, <2>1
  <2>2. CASE i # 1
    <3>1. i - 1 \in 1 .. Len(q) - 1 /\ i - 1 \in 1 .. Len(q) /\ (i - 1) + 1 = i
      BY <2>2
    <3>2. q[i] = NextNo(q[i - 1]) /\ s[i] = q[i - 1] /\ s[i + 1] = q[i]
      BY <1>1, <1>5, <3>1
    <3> QED BY <3>2
  <2> QED BY <2>1, <2>2
<1> QED BY <1>3, <1>4, <1>5 DEF Chain, s

LEMMA ChainIsOrder ==
  TypeOK => (SamplesInOrder <=> \A j \in Kinds : Chain(got[j], queue[j], pushed[j]))
<1> SUFFICES ASSUME TypeOK
             PROVE  SamplesInOrder <=> \A k \in Kinds : Chain(got[k], queue[k], pushed[k])
  OBVIOUS
<1>1. ASSUME NEW k \in Kinds
      PROVE  LET s == <<got[k]>> \o queue[k]
             IN (s[Len(s)] = pushed[k] /\ \A i \in 1 .. Len(queue[k]) : s[i + 1] = NextNo(s[i]))
                  <=> Chain(got[k], queue[k], pushed[k])
  <2>1. got[k] \in SampleNo /\ queue[k] \in Seq(SampleNo) /\ pushed[k] \in SampleNo
    BY DEF TypeOK
  <2> QED BY <2>1, ChainIsCount
<1> QED BY <1>1 DEF SamplesInOrder

LEMMA ChainPush ==
  ASSUME NEW g \in SampleNo, NEW q \in Seq(SampleNo), NEW p \in SampleNo, Chain(g, q, p)
  PROVE  Chain(g, Append(q, NextNo(p)), NextNo(p))
<1> DEFINE r == Append(q, NextNo(p))
<1>1. /\ Len(r) = Len(q) + 1 /\ r # <<>> /\ r[Len(r)] = NextNo(p)
      /\ \A i \in 1 .. Len(q) : r[i] = q[i]
  BY NumberFollows
<1>2. q = <<>> <=> Len(q) = 0
  OBVIOUS
<1> HIDE DEF r
<1>3. r[1] = NextNo(g)
  BY <1>1, <1>2 DEF Chain
<1>4. ASSUME NEW i \in 1 .. Len(r) - 1 PROVE r[i + 1] = NextNo(r[i])
  <2>1. CASE i = Len(q)
    BY <1>1, <1>2, <2>1 DEF Chain
  <2>2. CASE i # Len(q)
    <3>1. i \in 1 .. Len(q) - 1 /\ i \in 1 .. Len(q) /\ i + 1 \in 1 .. Len(q)
      BY <1>1, <2>2
    <3>2. r[i + 1] = q[i + 1] /\ r[i] = q[i]
      BY <1>1, <3>1
    <3> QED BY <3>1, <3>2 DEF Chain
  <2> QED BY <2>1, <2>2
<1>5. Chain(g, r, NextNo(p))
  BY <1>1, <1>3, <1>4 DEF Chain
<1> QED BY <1>5 DEF r

LEMMA ChainPop ==
  ASSUME NEW g \in SampleNo, NEW q \in Seq(SampleNo), NEW p \in SampleNo, Chain(g, q, p),
         NEW n \in 1 .. Len(q)
  PROVE  Chain(q[n], SubSeq(q, n + 1, Len(q)), p)
<1> DEFINE r == SubSeq(q, n + 1, Len(q))
<1>1. r \in Seq(SampleNo) /\ Len(r) = Len(q) - n /\ \A i \in 1 .. Len(q) - n : r[i] = q[n + i]
  OBVIOUS
<1> HIDE DEF r
<1>2. (r = <<>> <=> Len(r) = 0) /\ q # <<>>
  <2>1. r = <<>> <=> Len(r) = 0
    BY <1>1
  <2>2. q = <<>> <=> Len(q) = 0
    OBVIOUS
  <2>3. Len(q) \in Nat /\ n >= 1 /\ n <= Len(q)
    OBVIOUS
  <2> QED BY <2>1, <2>2, <2>3
<1>3. CASE n = Len(q)
  BY <1>1, <1>2, <1>3 DEF Chain, r
<1>4. CASE n # Len(q)
  <2>1. n \in 1 .. Len(q) - 1 /\ 1 \in 1 .. Len(q) - n /\ Len(q) - n \in 1 .. Len(q) - n
    BY <1>4
  <2>2. r[1] = NextNo(q[n])
    BY <1>1, <2>1 DEF Chain
  <2>3. r[Len(r)] = p
    <3>1. r[Len(q) - n] = q[n + (Len(q) - n)] /\ n + (Len(q) - n) = Len(q)
      BY <1>1, <2>1
    <3> QED BY <1>1, <1>2, <3>1 DEF Chain
  <2>4. ASSUME NEW i \in 1 .. Len(r) - 1 PROVE r[i + 1] = NextNo(r[i])
    <3>1. /\ i \in 1 .. Len(q) - n /\ i + 1 \in 1 .. Len(q) - n
          /\ n + i \in 1 .. Len(q) - 1 /\ n + (i + 1) = (n + i) + 1
      BY <1>1
    <3>2. r[i] = q[n + i] /\ r[i + 1] = q[(n + i) + 1]
      BY <1>1, <3>1
    <3> QED BY <3>1, <3>2 DEF Chain
  <2>5. Chain(q[n], r, p)
    BY <1>1, <1>2, <2>1, <2>2, <2>3, <2>4 DEF Chain
  <2> QED BY <2>5 DEF r
<1> QED BY <1>3, <1>4

\* A push extends the count of its kind and leaves the other kind's alone.
LEMMA PushOrder ==
  ASSUME TypeOK, SamplesInOrder, NEW k \in Kinds, Push(k), TypeOK' PROVE SamplesInOrder'
<1>1. \A j \in Kinds : Chain(got[j], queue[j], pushed[j])
  BY ChainIsOrder
<1>2. ASSUME NEW j \in Kinds PROVE Chain(got[j], queue'[j], pushed'[j])
  <2>1. CASE j = k
    <3>1. got[k] \in SampleNo /\ queue[k] \in Seq(SampleNo) /\ pushed[k] \in SampleNo
      BY DEF TypeOK
    <3>2. queue'[k] = Append(queue[k], NextNo(pushed[k])) /\ pushed'[k] = NextNo(pushed[k])
      BY DEF Push, TypeOK
    <3>3. Chain(got[k], Append(queue[k], NextNo(pushed[k])), NextNo(pushed[k]))
      BY <1>1, <3>1, ChainPush
    <3> QED BY <2>1, <3>2, <3>3
  <2>2. CASE j # k
    <3>1. queue'[j] = queue[j] /\ pushed'[j] = pushed[j]
      BY <2>2 DEF Push, TypeOK
    <3> QED BY <1>1, <3>1
  <2> QED BY <2>1, <2>2
<1>3. got' = got
  BY DEF Push
<1>4. \A j \in Kinds : Chain(got'[j], queue'[j], pushed'[j])
  BY <1>2, <1>3
<1>5. (TypeOK => (SamplesInOrder <=> \A j \in Kinds : Chain(got[j], queue[j], pushed[j])))'
  BY ChainIsOrder, PTL
<1> QED BY <1>4, <1>5

\* A delivery takes samples off the front and moves got to the last of them.
LEMMA DeliverOrder ==
  ASSUME TypeOK, SamplesInOrder, NEW k \in Kinds, NEW left, Deliver(k, left),
         UNCHANGED pushed, TypeOK'
  PROVE  SamplesInOrder'
<1>1. \A j \in Kinds : Chain(got[j], queue[j], pushed[j])
  BY ChainIsOrder
<1>2. PICK n \in 1 .. Len(queue[k]) :
        /\ got' = [got EXCEPT ![k] = queue[k][n]]
        /\ queue' = [queue EXCEPT ![k] = SubSeq(@, n + 1, Len(@))]
  BY DEF Deliver
<1>3. ASSUME NEW j \in Kinds PROVE Chain(got'[j], queue'[j], pushed'[j])
  <2>1. CASE j = k
    <3>1. got[k] \in SampleNo /\ queue[k] \in Seq(SampleNo) /\ pushed[k] \in SampleNo
      BY DEF TypeOK
    <3>2. queue'[k] = SubSeq(queue[k], n + 1, Len(queue[k])) /\ got'[k] = queue[k][n]
      BY <1>2 DEF TypeOK
    <3>3. Chain(queue[k][n], SubSeq(queue[k], n + 1, Len(queue[k])), pushed[k])
      BY <1>1, <3>1, ChainPop
    <3> QED BY <2>1, <3>2, <3>3
  <2>2. CASE j # k
    <3>1. queue'[j] = queue[j] /\ got'[j] = got[j]
      BY <1>2, <2>2 DEF TypeOK
    <3> QED BY <1>1, <3>1
  <2> QED BY <2>1, <2>2
<1>4. (TypeOK => (SamplesInOrder <=> \A j \in Kinds : Chain(got[j], queue[j], pushed[j])))'
  BY ChainIsOrder, PTL
<1> QED BY <1>3, <1>4

LEMMA OrderFrame ==
  ASSUME SamplesInOrder, UNCHANGED <<queue, pushed, got>> PROVE SamplesInOrder'
  BY DEF SamplesInOrder

LEMMA OrderInductive == TypeOK /\ TypeOK' /\ SamplesInOrder /\ [Next]_vars => SamplesInOrder'
<1> SUFFICES ASSUME TypeOK, TypeOK', SamplesInOrder, [Next]_vars PROVE SamplesInOrder'
  OBVIOUS
<1>1. CASE RecordTest \/ TriggerData \/ TriggerLoad \/ TriggerStore
  BY <1>1, OrderFrame DEF RecordTest, TriggerData, TriggerLoad, TriggerStore
<1>2. CASE RecordVideo \/ RecordAudio
  BY <1>2, PushOrder DEF RecordVideo, RecordAudio, Kinds
<1>3. ASSUME NEW k \in Kinds, NEW left, GetNextFrame(k, left), UNCHANGED pushed
      PROVE  SamplesInOrder'
  BY <1>3, DeliverOrder, OrderFrame DEF GetNextFrame
<1>4. CASE StartVideo \/ StartAudio
  BY <1>3, <1>4 DEF StartVideo, StartAudio, StartPlaying, Kinds
<1>5. CASE LoopCheck \/ LoopTrigger \/ LoopClearLoad \/ LoopClearStore \/ LoopNoAlarm
  BY <1>5, OrderFrame DEF LoopCheck, LoopTrigger, LoopClearLoad, LoopClearStore, LoopNoAlarm
<1>6. CASE LoopCall
  BY <1>6, DeliverOrder, OrderFrame DEF LoopCall, DeliverIfAwaited, TypeOK
<1>7. ASSUME NEW k \in Kinds, LoopAlarm(k) PROVE SamplesInOrder'
  BY <1>3, <1>7, OrderFrame DEF LoopAlarm
<1>8. CASE StopVideo \/ StopAudio
  BY <1>8, OrderFrame DEF StopVideo, StopAudio, StopPlaying
<1>9. CASE AskToStop \/ UNCHANGED vars
  BY <1>9, OrderFrame DEF AskToStop, vars
<1> QED
  BY <1>1, <1>2, <1>4, <1>5, <1>6, <1>7, <1>8, <1>9 DEF Next, Record, Stream

-----------------------------------------------------------------------------
LEMMA InitInv == Init => PInv
<1> SUFFICES ASSUME Init PROVE PInv
  OBVIOUS
<1>1. <<>> \in Seq(SampleNo) /\ 0 \in SampleNo /\ 0 \in 0 .. MaxFrags /\ "vid" \in Kinds
  BY PipelineAssumption DEF SampleNo, Kinds
<1>2. TypeOK
  BY <1>1 DEF Init, TypeOK
<1>3. WakeInv
  BY DEF Init, WakeInv, PlayInv, OneWakeUp, StoppedSinkIsQuiet
<1>4. DataInv
  BY DEF Init, DataInv, HandlerKnowsItsSource
<1>5. SamplesInOrder
  <2>1. ASSUME NEW k \in Kinds PROVE Chain(got[k], queue[k], pushed[k])
    BY DEF Init, Chain
  <2> QED BY <1>2, <2>1, ChainIsOrder
<1> QED BY <1>2, <1>3, <1>4, <1>5 DEF PInv

\* The invariant holds: in particular, no handler runs before its client data is
\* set, although the two threads update the trigger word without a lock.
THEOREM PipelineInv == Spec => []PInv
<1>1. PInv /\ [Next]_vars => PInv'
  BY TypeInductive, WakeInductive, DataInductive, OrderInductive DEF PInv
<1> QED BY InitInv, <1>1, PTL DEF Spec

\* While it plays, a sink waits for its source or has one timer, never both:
\* getNextFrame is not called while a frame is awaited, and no sink sleeps.
THEOREM SinksWakeOnce == Spec => []OneWakeUp
<1>1. PInv => OneWakeUp
  BY DEF PInv, WakeInv
<1> QED BY PipelineInv, <1>1, PTL

\* Neither a trigger nor a timer reaches a sink that stopPlaying has stopped.
THEOREM StoppedSinksStayQuiet == Spec => []StoppedSinkIsQuiet
<1>1. PInv => StoppedSinkIsQuiet
  BY DEF PInv, WakeInv
<1> QED BY PipelineInv, <1>1, PTL

\* The two threads together lose, repeat and reorder no sample.
THEOREM SamplesStayInOrder == Spec => []SamplesInOrder
<1>1. PInv => SamplesInOrder
  BY DEF PInv
<1> QED BY PipelineInv, <1>1, PTL
=============================================================================
