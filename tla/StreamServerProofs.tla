------------------------- MODULE StreamServerProofs -------------------------
(***************************************************************************)
(* Proofs about StreamServer, for every MaxMsgs and MaxStarts.             *)
(***************************************************************************)
EXTENDS StreamServer, SequenceTheorems, TLAPS

LEMMA InitTyped == Init => TypeOK
  <1> SUFFICES ASSUME Init PROVE TypeOK
    OBVIOUS
  <1>1. <<>> \in Seq(Actions \cup {Rest}) /\ <<>> \in Seq(Actions)
    OBVIOUS
  <1>2. "Check" \in Actions /\ 0 \in 0 .. MaxStarts
    BY BoundsAssumption DEF Actions
  <1>3. /\ alive \in [Sessions -> SUBSET Objects] /\ hasQueue \in [Sessions -> SUBSET Kinds]
        /\ refCount \in [Kinds -> Int] /\ trigger \in [Kinds -> 0 .. MaxStarts]
        /\ torn \in [Sessions -> 0 .. 8] /\ bound \in [Sessions -> 0 .. MaxStarts]
    BY <1>2 DEF Init
  <1>4. /\ record \in [Sessions -> {"none", "media", "failed", "teardown", "reset",
                                    "done"} \cup RecordLoop]
        /\ stream \in [Sessions -> {"none", "playVid", "playAud", "loop", "stopVid",
                                    "stopAud", "flag", "done"}]
    BY DEF Init
  <1>5. /\ sent \in [msgs : Nat, starts : Nat]
        /\ session \in 0 .. MaxStarts /\ cur \in 0 .. session /\ handlerRecord \in 0 .. session
    BY <1>2 DEF Init
  <1>6. /\ conn \in {"none", "open", "closed"}
        /\ wire \in Seq(Actions \cup {Rest}) /\ messageQueue \in Seq(Actions)
        /\ root \in Actions /\ action \in Actions
    BY <1>1, <1>2 DEF Init
  <1>7. QED BY <1>3, <1>4, <1>5, <1>6 DEF Init, TypeOK

\* What recv leaves on the wire is again a sequence of commands and fragments.
LEMMA WireTyped ==
  ASSUME NEW T, NEW r \in T, NEW w \in Seq(T), NEW n \in 0 .. Len(w)
  PROVE  /\ SubSeq(w, n + 1, Len(w)) \in Seq(T)
         /\ n < Len(w) => <<r>> \o SubSeq(w, n + 2, Len(w)) \in Seq(T)
  <1>1. SubSeq(w, n + 1, Len(w)) \in Seq(T)
    BY SubSeqProperties
  <1>2. ASSUME n < Len(w) PROVE <<r>> \o SubSeq(w, n + 2, Len(w)) \in Seq(T)
    <2>1. SubSeq(w, n + 2, Len(w)) \in Seq(T)
      BY <1>2, SubSeqProperties
    <2>2. <<r>> \in Seq(T)
      OBVIOUS
    <2>3. QED BY <2>1, <2>2, ConcatProperties
  <1>3. QED BY <1>1, <1>2

LEMMA TypeInductive == TypeOK /\ [Next]_vars => TypeOK'
  <1> SUFFICES ASSUME TypeOK, [Next]_vars PROVE TypeOK'
    OBVIOUS
  <1> USE BoundsAssumption
  <1> USE DEF TypeOK, netVars, queueVars, ctlVars, flagVars, objVars, recVars, strVars
  <1>1. CASE Client
    <2>1. CASE ClientConnect
      BY <2>1 DEF ClientConnect
    <2>2. CASE ClientClose
      <3>1. wire' \in Seq(Actions \cup {Rest})
        <4>1. <<>> \in Seq(Actions \cup {Rest})
          OBVIOUS
        <4>2. QED BY <2>2, <4>1 DEF ClientClose
      <3>2. QED BY <2>2, <3>1 DEF ClientClose
    <2>3. CASE \E m \in Actions : ClientSend(m)
      BY <2>3 DEF ClientSend
    <2>4. QED BY <1>1, <2>1, <2>2, <2>3 DEF Client
  <1>2. CASE Main
    <2>1. CASE MainListen
      BY <2>1 DEF MainListen
    <2>2. CASE MainAccept
      BY <2>2 DEF MainAccept
    <2>3. CASE MainAcceptFails
      BY <2>3 DEF MainAcceptFails
    <2>4. CASE MainWaitAccept
      BY <2>4 DEF MainWaitAccept
    <2>5. CASE MainWaitDeque
      BY <2>5 DEF MainWaitDeque
    <2>6. CASE MainReturn
      BY <2>6 DEF MainReturn
    <2>7. QED BY <1>2, <2>1, <2>2, <2>3, <2>4, <2>5, <2>6 DEF Main
  <1>3. CASE Accept
    <2>1. CASE AcceptEnd
      BY <2>1 DEF AcceptEnd
    <2>2. CASE AcceptPush
      BY <2>2 DEF AcceptPush
    <2>3. ASSUME NEW n \in 0 .. Len(wire), NEW split \in BOOLEAN, AcceptRecv(n, split)
          PROVE  TypeOK'
      <3>1. wire' \in Seq(Actions \cup {Rest})
        <4> DEFINE T == Actions \cup {Rest}
        <4>1. Rest \in T /\ wire \in Seq(T)
          OBVIOUS
        <4>2. SubSeq(wire, n + 1, Len(wire)) \in Seq(T)
          BY <4>1, WireTyped
        <4>3. CASE split
          <5>1. n < Len(wire)
            BY <2>3, <4>3 DEF AcceptRecv
          <5>2. <<Rest>> \o SubSeq(wire, n + 2, Len(wire)) \in Seq(T)
            BY <4>1, <5>1, WireTyped
          <5>3. QED BY <2>3, <4>3, <5>2 DEF AcceptRecv
        <4>4. CASE ~split
          BY <2>3, <4>2, <4>4 DEF AcceptRecv
        <4>5. QED BY <4>3, <4>4
      <3>2. root' \in Actions /\ accept' \in {"none", "recv", "push", "done"}
        BY <2>3 DEF AcceptRecv
      <3>3. dropped' \in BOOLEAN
        BY <2>3 DEF AcceptRecv
      <3>4. QED BY <2>3, <3>1, <3>2, <3>3 DEF AcceptRecv
    <2>4. QED BY <1>3, <2>1, <2>2, <2>3 DEF Accept
  <1>4. CASE Deque
    <2>1. CASE DequePop
      BY <2>1 DEF DequePop
    <2>2. CASE DequeIdle
      BY <2>2 DEF DequeIdle, vars
    <2>3. CASE DequeInitialize
      BY <2>3 DEF DequeInitialize, Sessions
    <2>4. CASE DequeCreateRecord
      <3>1. record' \in [Sessions -> {"none", "media", "failed", "teardown", "reset",
                                      "done"} \cup RecordLoop]
        BY <2>4 DEF DequeCreateRecord
      <3>2. handlerRecord' \in 0 .. session' /\ session' = session
        BY <2>4 DEF DequeCreateRecord
      <3>3. QED BY <2>4, <3>1, <3>2 DEF DequeCreateRecord
    <2>5. CASE DequeCreateStream
      BY <2>5 DEF DequeCreateStream
    <2>6. CASE DequeStop
      BY <2>6 DEF DequeStop
    <2>7. CASE DequeWait
      BY <2>7 DEF DequeWait
    <2>8. QED BY <1>4, <2>1, <2>2, <2>3, <2>4, <2>5, <2>6, <2>7 DEF Deque
  <1>5. ASSUME NEW s \in Sessions, Record(s) PROVE TypeOK'
    <2>1. CASE RecordOpensDevices(s)
      BY <2>1 DEF RecordOpensDevices, RecordLoop
    <2>5. CASE RecordDeviceFails(s)
      BY <2>5 DEF RecordDeviceFails
    <2>6. CASE RecordGivesUp(s)
      BY <2>6 DEF RecordGivesUp
    <2>7. CASE RecordTest(s)
      BY <2>7 DEF RecordTest, RecordLoop
    <2>8. CASE RecordReset(s)
      BY <2>8 DEF RecordReset
    <2>2. CASE RecordWork(s)
      BY <2>2 DEF RecordWork, RecordLoop, AfterRecordStep
    <2>3. CASE RecordTeardown(s)
      <3>1. Len(Teardown) = 8
        BY DEF Teardown
      <3>2. torn' \in [Sessions -> 0 .. 8]
        <4>1. torn[s] + 1 \in 0 .. 8
          <5>1. torn[s] \in 0 .. 8
            OBVIOUS
          <5>2. torn[s] < 8
            BY <2>3, <3>1 DEF RecordTeardown
          <5>3. QED BY <5>1, <5>2
        <4>2. QED BY <2>3, <4>1 DEF RecordTeardown
      <3>3. alive' \in [Sessions -> SUBSET Objects]
        BY <2>3 DEF RecordTeardown
      <3>4. refCount' \in [Kinds -> Int] /\ trigger' \in [Kinds -> 0 .. MaxStarts]
        BY <2>3 DEF RecordTeardown, ReleaseSource
      <3>5. record' \in [Sessions -> {"none", "media", "failed", "teardown", "reset",
                                      "done"} \cup RecordLoop]
        BY <2>3 DEF RecordTeardown
      <3>6. QED BY <2>3, <3>2, <3>3, <3>4, <3>5 DEF RecordTeardown
    <2>9. QED BY <1>5, <2>1, <2>2, <2>3, <2>5, <2>6, <2>7, <2>8 DEF Record
  <1>6. ASSUME NEW s \in Sessions, Stream(s) PROVE TypeOK'
    <2> USE DEF StreamGoes
    <2>1. CASE StreamPlayVideo(s)
      BY <2>1 DEF StreamPlayVideo
    <2>2. CASE StreamPlayAudio(s)
      BY <2>2 DEF StreamPlayAudio
    <2>3. CASE StreamLoops(s)
      BY <2>3 DEF StreamLoops, vars
    <2>4. CASE StreamLeavesLoop(s)
      BY <2>4 DEF StreamLeavesLoop
    <2>5. CASE StreamStopVideo(s)
      BY <2>5 DEF StreamStopVideo
    <2>6. CASE StreamStopAudio(s)
      BY <2>6 DEF StreamStopAudio
    <2>7. CASE StreamEnds(s)
      BY <2>7 DEF StreamEnds
    <2>8. QED BY <1>6, <2>1, <2>2, <2>3, <2>4, <2>5, <2>6, <2>7 DEF Stream
  <1>7. CASE Down \/ UNCHANGED vars
    BY <1>7 DEF Down, vars
  <1>8. QED BY <1>1, <1>2, <1>3, <1>4, <1>5, <1>6, <1>7 DEF Next

\* Every variable of the server keeps its type.
THEOREM TypeCorrect == Spec => []TypeOK
  <1>1. QED BY InitTyped, TypeInductive, PTL DEF Spec

-----------------------------------------------------------------------------
\* UnInitialize takes the objects one by one, each of them once.
LEMMA LeftStep ==
  /\ Left(0) = Objects
  /\ Left(8) = {}
  /\ \A n \in 0 .. 7 : Left(n + 1) = Left(n) \ {Teardown[n + 1]}
  <1>1. Left(0) = Objects
    <2>1. 0 + 1 .. 8 = {1, 2, 3, 4, 5, 6, 7, 8}
      OBVIOUS
    <2>2. QED BY <2>1 DEF Left, Teardown, Objects
  <1>2. Left(8) = {}
    <2>1. 8 + 1 .. 8 = {}
      OBVIOUS
    <2>2. QED BY <2>1 DEF Left
  <1>3. ASSUME NEW n \in 0 .. 7 PROVE Left(n + 1) = Left(n) \ {Teardown[n + 1]}
    <2>1. (n + 1) .. 8 = ((n + 1) + 1 .. 8) \cup {n + 1}
      OBVIOUS
    <2>2. \A i, j \in 1 .. 8 : i # j => Teardown[i] # Teardown[j]
      BY DEF Teardown
    <2>3. \A i \in (n + 1) + 1 .. 8 : i \in 1 .. 8 /\ n + 1 \in 1 .. 8 /\ i # n + 1
      OBVIOUS
    <2>4. \A i \in (n + 1) + 1 .. 8 : Teardown[i] # Teardown[n + 1]
      BY <2>2, <2>3
    <2>5. QED BY <2>1, <2>4 DEF Left
  <1>4. QED BY <1>1, <1>2, <1>3

\* The objects a step of UnInitialize needs are among those not yet released.
LEMMA TeardownNeedsLeft ==
  ASSUME NEW n \in 0 .. 7
  PROVE  TeardownNeeds[n + 1] \subseteq Left(n)
  <1>1. \A i \in (n + 1) .. 8 : Teardown[i] \in Left(n)
    BY DEF Left
  <1>2. CASE n \in {0, 1}
    BY <1>1, <1>2 DEF Teardown, TeardownNeeds
  <1>3. CASE n \in {2, 3}
    BY <1>1, <1>3 DEF Teardown, TeardownNeeds
  <1>4. CASE n \in {4, 5}
    BY <1>1, <1>4 DEF Teardown, TeardownNeeds
  <1>5. CASE n \in {6, 7}
    BY <1>1, <1>5 DEF Teardown, TeardownNeeds
  <1>6. QED BY <1>2, <1>3, <1>4, <1>5

LEMMA SessionInvInit == Init => SessionInv
  <1>1. 1 .. 0 = {}
    OBVIOUS
  <1>2. QED BY <1>1 DEF Init, SessionInv, NoSessionInv, Sessions, Stopping

\* A step that leaves alone what SessionInv is about preserves it.
LEMMA SessionInvFrame ==
  ASSUME SessionInv, UNCHANGED <<session, cur, record, stream, torn, alive, hasQueue,
           refCount, trigger, deque, handlerRecord, stopRecord, stopEventLoop>>
  PROVE  SessionInv'
  BY DEF SessionInv, NoSessionInv, CreatedInv, TeardownInv, HandshakeInv, Stopping, GaveUp

LEMMA SessionInvInductive == TypeOK /\ SessionInv /\ [Next]_vars => SessionInv'
  <1> SUFFICES ASSUME TypeOK, SessionInv, [Next]_vars PROVE SessionInv'
    OBVIOUS
  <1> USE BoundsAssumption
  <1> USE DEF netVars, queueVars, ctlVars, flagVars, objVars, recVars, strVars
  <1>1. CASE Client
    BY <1>1, SessionInvFrame DEF Client, ClientConnect, ClientClose, ClientSend
  <1>2. CASE Main
    <2>1. CASE MainListen
      BY <2>1 DEF MainListen, SessionInv, NoSessionInv, CreatedInv, TeardownInv,
                  HandshakeInv, Stopping, GaveUp
    <2>2. QED BY <1>2, <2>1, SessionInvFrame
              DEF Main, MainAccept, MainAcceptFails, MainWaitAccept, MainWaitDeque, MainReturn
  <1>3. CASE Accept
    BY <1>3, SessionInvFrame DEF Accept, AcceptEnd, AcceptPush, AcceptRecv
  <1>4. CASE Deque
    <2> USE DEF SessionInv, NoSessionInv, CreatedInv, HandshakeInv, Stopping, GaveUp
    <2>1. CASE DequePop
      BY <2>1 DEF DequePop, TeardownInv
    <2>2. CASE DequeIdle
      BY <2>2, SessionInvFrame DEF DequeIdle, vars
    <2>3. CASE DequeInitialize
      <3>1. SUFFICES ASSUME session = 0 PROVE SessionInv'
        BY <2>3 DEF DequeInitialize, TypeOK
      <3>2. /\ session' = 1 /\ cur' = 1 /\ 1 \in Sessions /\ 1 .. session' = {1}
            /\ deque' = "record" /\ deque = "init"
        BY <2>3, <3>1 DEF DequeInitialize, Sessions, TypeOK
      <3>3. record[1] = "none" /\ stream[1] = "none" /\ torn[1] = 0
        BY <3>1, <3>2
      <3>4. CreatedInv(1)' /\ HandshakeInv(1)'
        BY <2>3, <3>1, <3>2, <3>3 DEF DequeInitialize
      <3>5. TeardownInv(1)'
        BY <2>3, <3>1, <3>2, <3>3, LeftStep DEF DequeInitialize, TeardownInv, TypeOK, Kinds, RecordLoop
      <3>6. \A s \in Sessions : s > 1 => record'[s] = "none" /\ stream'[s] = "none" /\ torn'[s] = 0
        BY <2>3, <3>1 DEF DequeInitialize, Sessions
      <3>7. QED BY <3>2, <3>4, <3>5, <3>6
    <2>4. CASE DequeCreateRecord
      BY <2>4 DEF DequeCreateRecord, TeardownInv, TypeOK, Sessions, RecordLoop
    <2>5. CASE DequeCreateStream
      BY <2>5 DEF DequeCreateStream, TeardownInv, TypeOK, Sessions
    <2>6. CASE DequeStop
      BY <2>6 DEF DequeStop, TeardownInv
    <2>7. CASE DequeWait
      BY <2>7 DEF DequeWait, TeardownInv
    <2>8. QED BY <1>4, <2>1, <2>2, <2>3, <2>4, <2>5, <2>6, <2>7 DEF Deque
  <1>5. ASSUME NEW s \in Sessions, Record(s) PROVE SessionInv'
    <2> SUFFICES ASSUME session <= 1 PROVE SessionInv'
      BY <1>5 DEF Record, RecordOpensDevices, RecordDeviceFails, RecordGivesUp, RecordTest,
                  RecordWork, RecordTeardown, RecordReset, SessionInv
    <2>0. session = 1 /\ s = 1 /\ cur = 1 /\ 1 .. session = {1}
      BY <1>5 DEF Record, RecordOpensDevices, RecordDeviceFails, RecordGivesUp, RecordTest,
                  RecordWork, AfterRecordStep, RecordTeardown, RecordReset, SessionInv, TypeOK, Sessions
    <2> USE DEF SessionInv, CreatedInv, HandshakeInv, Stopping, GaveUp, TypeOK, Sessions
    <2>1. CASE RecordOpensDevices(s)
      BY <2>0, <2>1 DEF RecordOpensDevices, TeardownInv, RecordLoop
    <2>2. CASE RecordDeviceFails(s)
      BY <2>0, <2>2 DEF RecordDeviceFails, TeardownInv, RecordLoop
    <2>3. CASE RecordGivesUp(s)
      BY <2>0, <2>3 DEF RecordGivesUp, TeardownInv, RecordLoop
    <2>4. CASE RecordTest(s)
      BY <2>0, <2>4 DEF RecordTest, TeardownInv, RecordLoop
    <2>5. CASE RecordWork(s)
      BY <2>0, <2>5 DEF RecordWork, AfterRecordStep, TeardownInv, RecordLoop
    <2>6. CASE RecordTeardown(s)
      <3> DEFINE n == torn[1]
      <3>1. n \in 0 .. 7 /\ record[1] = "teardown" /\ torn' = [torn EXCEPT ![1] = n + 1]
        BY <2>0, <2>6 DEF RecordTeardown, TeardownInv
      <3>2. torn'[1] = n + 1 /\ \A t \in Sessions : t # 1 => torn'[t] = torn[t]
        BY <2>0, <3>1
      <3>3. /\ record'[1] = IF n + 1 = 8 THEN "reset" ELSE "teardown"
            /\ \A t \in Sessions : t # 1 => record'[t] = record[t]
        <4>1. Len(Teardown) = 8
          BY DEF Teardown
        <4>2. QED BY <2>0, <2>6, <4>1 DEF RecordTeardown
      <3>4. alive'[1] = Left(n + 1)
        <4>1. alive'[1] = alive[1] \ {Teardown[n + 1]}
          BY <2>0, <2>6 DEF RecordTeardown
        <4>2. QED BY <2>0, <3>1, <4>1, LeftStep DEF TeardownInv
      <3>5. /\ refCount'["vid"] = (IF n = 2 THEN refCount["vid"] - 1 ELSE refCount["vid"])
            /\ refCount'["aud"] = (IF n = 3 THEN refCount["aud"] - 1 ELSE refCount["aud"])
            /\ trigger'["vid"] = (IF n = 2 /\ refCount["vid"] = 1 THEN 0 ELSE trigger["vid"])
            /\ trigger'["aud"] = (IF n = 3 /\ refCount["aud"] = 1 THEN 0 ELSE trigger["aud"])
        <4>1. /\ Teardown[n + 1] = "srcVid" <=> n = 2
              /\ Teardown[n + 1] = "srcAud" <=> n = 3
          BY <3>1 DEF Teardown
        <4>2. ReleaseSource(Teardown[n + 1])
          BY <2>0, <2>6 DEF RecordTeardown
        <4>3. QED BY <4>1, <4>2 DEF ReleaseSource, Kinds
      <3>6. UNCHANGED <<session, cur, stream, hasQueue, deque, handlerRecord,
                        stopRecord, stopEventLoop>>
        BY <2>6 DEF RecordTeardown
      <3>7. TeardownInv(1)'
        <4>1. hasQueue'[1] = Kinds
          BY <2>0, <3>6 DEF TeardownInv
        <4>2. /\ refCount'["vid"] = (IF n + 1 <= 2 THEN 1 ELSE 0)
              /\ refCount'["aud"] = (IF n + 1 <= 3 THEN 1 ELSE 0)
              /\ trigger'["vid"] = (IF n + 1 <= 2 THEN 1 ELSE 0)
              /\ trigger'["aud"] = (IF n + 1 <= 3 THEN 1 ELSE 0)
          BY <2>0, <3>1, <3>5 DEF TeardownInv
        <4>3. QED BY <3>1, <3>2, <3>3, <3>4, <4>1, <4>2 DEF TeardownInv, RecordLoop
      <3>8. CreatedInv(1)' /\ HandshakeInv(1)'
        BY <2>0, <3>1, <3>2, <3>3, <3>6
      <3>9. QED BY <2>0, <3>2, <3>3, <3>6, <3>7, <3>8
    <2>7. CASE RecordReset(s)
      BY <2>0, <2>7 DEF RecordReset, TeardownInv, RecordLoop
    <2>8. QED BY <1>5, <2>1, <2>2, <2>3, <2>4, <2>5, <2>6, <2>7 DEF Record
  <1>6. ASSUME NEW s \in Sessions, Stream(s) PROVE SessionInv'
    <2> SUFFICES ASSUME session <= 1 PROVE SessionInv'
      BY <1>6 DEF Stream, StreamPlayVideo, StreamPlayAudio, StreamLoops, StreamLeavesLoop,
                  StreamStopVideo, StreamStopAudio, StreamEnds, StreamGoes, SessionInv, vars
    <2> USE DEF StreamGoes
    <2>0. session = 1 /\ s = 1 /\ cur = 1 /\ 1 .. session = {1}
      BY <1>6 DEF Stream, StreamPlayVideo, StreamPlayAudio, StreamLoops, StreamLeavesLoop,
                  StreamStopVideo, StreamStopAudio, StreamEnds, SessionInv, TypeOK, Sessions
    <2> USE DEF SessionInv, CreatedInv, TeardownInv, HandshakeInv, Stopping, GaveUp, TypeOK, Sessions
    <2>1. CASE StreamPlayVideo(s)
      <3>1. stream[1] = "playVid" /\ stream' = [stream EXCEPT ![1] = "playAud"]
        BY <2>0, <2>1 DEF StreamPlayVideo
      <3>2. /\ stream'[1] = "playAud"
            /\ \A t \in Sessions : t # 1 => stream'[t] = stream[t]
        BY <3>1
      <3>3. UNCHANGED <<session, cur, record, torn, alive, hasQueue, refCount, trigger,
                        deque, handlerRecord, stopRecord, stopEventLoop>>
        BY <2>1 DEF StreamPlayVideo
      <3>4. QED BY <2>0, <3>1, <3>2, <3>3
    <2>2. CASE StreamPlayAudio(s)
      BY <2>0, <2>2 DEF StreamPlayAudio
    <2>3. CASE StreamLoops(s)
      BY <2>3, SessionInvFrame DEF StreamLoops, vars
    <2>4. CASE StreamLeavesLoop(s)
      BY <2>0, <2>4 DEF StreamLeavesLoop
    <2>5. CASE StreamStopVideo(s)
      BY <2>0, <2>5 DEF StreamStopVideo
    <2>6. CASE StreamStopAudio(s)
      BY <2>0, <2>6 DEF StreamStopAudio
    <2>7. CASE StreamEnds(s)
      BY <2>0, <2>7 DEF StreamEnds
    <2>8. QED BY <1>6, <2>1, <2>2, <2>3, <2>4, <2>5, <2>6, <2>7 DEF Stream
  <1>7. CASE Down \/ UNCHANGED vars
    BY <1>7, SessionInvFrame DEF Down, vars
  <1>8. QED BY <1>1, <1>2, <1>3, <1>4, <1>5, <1>6, <1>7 DEF Next

-----------------------------------------------------------------------------
LEMMA QueueInvInductive == TypeOK /\ QueueInv /\ [Next]_vars => QueueInv'
  <1> SUFFICES ASSUME TypeOK, QueueInv, [Next]_vars PROVE QueueInv'
    OBVIOUS
  <1> USE DEF QueueInv, netVars, queueVars, ctlVars, flagVars, objVars, recVars, strVars
  <1>1. CASE Client
    BY <1>1 DEF Client, ClientConnect, ClientClose, ClientSend
  <1>2. CASE Main
    BY <1>2 DEF Main, MainListen, MainAccept, MainAcceptFails, MainWaitAccept,
                MainWaitDeque, MainReturn
  <1>3. CASE Accept
    BY <1>3 DEF Accept, AcceptEnd, AcceptPush, AcceptRecv
  <1>4. CASE Deque
    BY <1>4 DEF Deque, DequePop, DequeIdle, DequeInitialize, DequeCreateRecord,
                DequeCreateStream, DequeStop, DequeWait, vars
  <1>5. ASSUME NEW s \in Sessions, Record(s) PROVE QueueInv'
    BY <1>5 DEF Record, RecordOpensDevices, RecordDeviceFails, RecordGivesUp, RecordTest,
                RecordWork, RecordTeardown, RecordReset
  <1>6. ASSUME NEW s \in Sessions, Stream(s) PROVE QueueInv'
    BY <1>6 DEF Stream, StreamPlayVideo, StreamPlayAudio, StreamLoops, StreamLeavesLoop,
                StreamStopVideo, StreamStopAudio, StreamEnds, StreamGoes, vars
  <1>7. CASE Down \/ UNCHANGED vars
    BY <1>7 DEF Down, vars
  <1>8. QED BY <1>1, <1>2, <1>3, <1>4, <1>5, <1>6, <1>7 DEF Next

\* The protocol of the threads is inductive.
THEOREM Inductive == Spec => []IInv
  <1>1. Init => IInv
    BY InitTyped, SessionInvInit DEF IInv, Init, QueueInv
  <1>2. IInv /\ [Next]_vars => IInv'
    BY TypeInductive, SessionInvInductive, QueueInvInductive DEF IInv
  <1>3. QED BY <1>1, <1>2, PTL DEF Spec

\* main deletes the message queue only after both its users have ended.
THEOREM QueueSafe == Spec => []QueueOutlivesItsUsers
  <1>1. IInv => QueueOutlivesItsUsers
    BY DEF IInv, QueueInv, QueueOutlivesItsUsers
  <1>2. QED BY <1>1, Inductive, PTL

\* As long as Stream is not done, UnInitialize has not begun.
LEMMA StreamHoldsObjects ==
  ASSUME TypeOK, SessionInv, session = 1, stream[1] # "done"
  PROVE  torn[1] = 0 /\ alive[1] = Objects
  <1>1. CreatedInv(1) /\ TeardownInv(1) /\ HandshakeInv(1) /\ 1 \in Sessions
    BY DEF SessionInv, TypeOK, Sessions
  <1>2. record[1] \notin {"teardown", "reset"} /\ torn[1] # 8
    BY <1>1 DEF HandshakeInv
  <1>3. torn[1] = 0
    BY <1>1, <1>2 DEF TeardownInv, TypeOK, RecordLoop
  <1>4. QED BY <1>1, <1>3, LeftStep DEF TeardownInv

\* No streaming object is used or released after it was released, as long as
\* at most one Start has been handled.
THEOREM UseAfterFreeFreedom == Spec => []NoUseAfterFree
  <1>1. ASSUME TypeOK, SessionInv PROVE NoUseAfterFree
    <2> SUFFICES ASSUME session = 1
                 PROVE  RecordNeeds(1) \subseteq alive[1] /\ StreamNeeds(1) \subseteq alive[1]
      BY <1>1 DEF NoUseAfterFree, TypeOK
    <2>1. TeardownInv(1) /\ 1 \in Sessions
      BY <1>1 DEF SessionInv, TypeOK, Sessions
    <2>2. StreamNeeds(1) \subseteq alive[1]
      <3>1. CASE stream[1] = "done"
        BY <3>1 DEF StreamNeeds
      <3>2. CASE stream[1] # "done"
        <4>1. alive[1] = Objects
          BY <1>1, <3>2, StreamHoldsObjects
        <4>2. QED BY <4>1 DEF StreamNeeds, Objects
      <3>3. QED BY <3>1, <3>2
    <2>3. CASE record[1] = "teardown"
      <3>1. torn[1] \in 0 .. 7 /\ alive[1] = Left(torn[1])
        BY <1>1, <2>1, <2>3 DEF TeardownInv, TypeOK
      <3>2. RecordNeeds(1) = TeardownNeeds[torn[1] + 1]
        BY <2>3 DEF RecordNeeds
      <3>3. QED BY <2>2, <3>1, <3>2, TeardownNeedsLeft
    <2>4. CASE record[1] \in RecordLoop
      <3>1. alive[1] = Objects
        BY <2>1, <2>4, LeftStep DEF TeardownInv
      <3>2. QED BY <2>2, <2>4, <3>1 DEF RecordNeeds, RecordLoop, Objects
    <2>5. CASE record[1] \notin {"teardown"} \cup RecordLoop
      BY <2>2, <2>5 DEF RecordNeeds, RecordLoop
    <2>6. QED BY <2>3, <2>4, <2>5
  <1>2. QED BY <1>1, Inductive, PTL DEF IInv

\* With one session, Record always finds an allocated queue in both sources and
\* a scheduler that knows both event triggers.
THEOREM SamplesAreExpected == Spec => []SamplesReachTheLoop
  <1>1. ASSUME TypeOK, SessionInv PROVE SamplesReachTheLoop
    BY <1>1 DEF SamplesReachTheLoop, SessionInv, TeardownInv, TypeOK, Kinds
  <1>2. QED BY <1>1, Inductive, PTL DEF IInv

\* An orderly end after one successful session leaves nothing behind.
THEOREM ShutdownIsClean == Spec => []CleanShutdown
  <1>1. ASSUME TypeOK, SessionInv PROVE CleanShutdown
    <2> SUFFICES ASSUME deque = "done", session = 1, ~DeviceFailed
                 PROVE  /\ alive[1] = {}
                        /\ \A k \in Kinds : refCount[k] = 0 /\ trigger[k] = 0
                        /\ ~stopRecord /\ ~stopEventLoop
      BY DEF CleanShutdown
    <2>1. CreatedInv(1) /\ TeardownInv(1) /\ HandshakeInv(1) /\ 1 \in Sessions
      BY <1>1 DEF SessionInv, TypeOK, Sessions
    <2>2. record[1] = "done" /\ torn[1] = 8
      BY <2>1 DEF CreatedInv, TeardownInv, DeviceFailed
    <2>3. QED BY <2>1, <2>2, LeftStep DEF TeardownInv, HandshakeInv, Kinds
  <1>2. QED BY <1>1, Inductive, PTL DEF IInv

\* Only UnInitialize clears the stop flag, and then Stream is done.
THEOREM StopRequestsStick == Spec => StopNotForgotten
  <1> USE DEF netVars, queueVars, ctlVars, flagVars, objVars, recVars, strVars
  <1>1. ASSUME TypeOK, SessionInv, [Next]_vars, session <= 1, stopEventLoop, ~stopEventLoop'
        PROVE  \A s \in 1 .. session : stream[s] = "done"
    <2>1. PICK s \in Sessions : RecordReset(s)
      <3>1. ~UNCHANGED stopEventLoop
        BY <1>1
      <3>2. ~Client /\ ~Main /\ ~Accept /\ ~Down /\ ~UNCHANGED vars
        BY <3>1 DEF Client, ClientConnect, ClientClose, ClientSend, Main, MainListen,
             MainAccept, MainAcceptFails, MainWaitAccept, MainWaitDeque, MainReturn,
             Accept, AcceptEnd, AcceptPush, AcceptRecv, Down, vars
      <3>3. ~Deque
        BY <1>1 DEF Deque, DequePop, DequeIdle, DequeInitialize, DequeCreateRecord,
             DequeCreateStream, DequeStop, DequeWait, vars
      <3>4. ASSUME NEW t \in Sessions PROVE ~Stream(t)
        BY <1>1 DEF Stream, StreamPlayVideo, StreamPlayAudio, StreamLoops, StreamLeavesLoop,
             StreamStopVideo, StreamStopAudio, StreamEnds, StreamGoes, vars
      <3>5. ASSUME NEW t \in Sessions, Record(t) PROVE RecordReset(t)
        BY <1>1, <3>5 DEF Record, RecordOpensDevices, RecordDeviceFails, RecordGivesUp,
             RecordTest, RecordWork, RecordTeardown
      <3>6. QED BY <1>1, <3>2, <3>3, <3>4, <3>5 DEF Next
    <2>2. s = 1 /\ session = 1 /\ record[1] = "reset"
      BY <1>1, <2>1 DEF RecordReset, SessionInv, TypeOK, Sessions
    <2>3. QED BY <1>1, <2>2 DEF SessionInv, HandshakeInv
  <1>2. IInv /\ [Next]_vars => (session <= 1 /\ stopEventLoop /\ ~stopEventLoop'
                                   => \A s \in 1 .. session : stream[s] = "done")
    BY <1>1 DEF IInv
  <1>3. QED BY <1>2, Inductive, PTL DEF Spec, StopNotForgotten

-----------------------------------------------------------------------------
\* Sessions are counted up, by Initialize alone.
LEMMA SessionsGrow ==
  ASSUME TypeOK, [Next]_vars, ~DequeInitialize
  PROVE  session' = session
  <1> USE DEF netVars, queueVars, ctlVars, flagVars, objVars, recVars, strVars
  <1>1. CASE Client \/ Main \/ Accept \/ Down \/ UNCHANGED vars
    BY <1>1 DEF Client, ClientConnect, ClientClose, ClientSend, Main, MainListen,
         MainAccept, MainAcceptFails, MainWaitAccept, MainWaitDeque, MainReturn,
         Accept, AcceptEnd, AcceptPush, AcceptRecv, Down, vars
  <1>2. CASE Deque
    BY <1>2 DEF Deque, DequePop, DequeIdle, DequeCreateRecord, DequeCreateStream,
         DequeStop, DequeWait, vars
  <1>3. ASSUME NEW s \in Sessions, Record(s) \/ Stream(s) PROVE session' = session
    BY <1>3 DEF Record, RecordOpensDevices, RecordDeviceFails, RecordGivesUp, RecordTest,
         RecordWork, RecordTeardown, RecordReset, Stream, StreamPlayVideo, StreamPlayAudio,
         StreamLoops, StreamLeavesLoop, StreamStopVideo, StreamStopAudio, StreamEnds,
         StreamGoes, vars
  <1>4. QED BY <1>1, <1>2, <1>3 DEF Next

\* Once a second Start is handled anything may happen; the handling itself
\* finds the first session's objects alive.
LEMMA SecondStartStep ==
  ASSUME IInv, [Next]_vars, session' > 1
  PROVE  [Lifecycle!Next]_(Lifecycle!vars)
  <1> USE DEF Lifecycle!Next, Lifecycle!vars, Running
  <1>0. TypeOK /\ SessionInv /\ session \in Nat
    BY BoundsAssumption DEF IInv, TypeOK
  <1>1. CASE session > 1
    <2>1. session # 0 /\ session' # 0 /\ Lifecycle!StartedTwice
      BY <1>0, <1>1 DEF Lifecycle!StartedTwice
    <2>2. QED BY <2>1
  <1>2. CASE session <= 1
    <2>1. DequeInitialize
      BY <1>0, <1>2, SessionsGrow
    <2>2. session = 1 /\ 1 \in Sessions
      BY <1>0, <1>2, <2>1, BoundsAssumption DEF DequeInitialize, Sessions, TypeOK
    <2>3. TeardownInv(1) /\ HandshakeInv(1)
      BY <1>0, <2>2 DEF SessionInv
    <2>4. torn[1] = 0
      BY <1>0, <2>1, <2>2, <2>3 DEF TeardownInv, HandshakeInv, DequeInitialize, Stopping,
         TypeOK, RecordLoop
    <2>5. alive[1] = Objects
      BY <2>3, <2>4, LeftStep DEF TeardownInv
    <2>6. Lifecycle!OpenAgain
      BY <2>1, <2>2, <2>5, <1>0 DEF DequeInitialize, Lifecycle!OpenAgain
    <2>7. QED BY <2>6
  <1>3. QED BY <1>0, <1>1, <1>2

\* Until then every step of the server is a step of ServerLifecycle or changes
\* nothing that ServerLifecycle sees.
LEMMA FirstSessionStep ==
  ASSUME IInv, [Next]_vars, ~(session' > 1)
  PROVE  [Lifecycle!Next]_(Lifecycle!vars)
  <1> USE DEF netVars, queueVars, ctlVars, flagVars, objVars, recVars, strVars
  <1> USE DEF Lifecycle!Next, Lifecycle!vars, Running
  <1>0. session \in {0, 1} /\ session' \in {0, 1} /\ TypeOK /\ SessionInv /\ QueueInv
    <2>1. TypeOK /\ SessionInv /\ QueueInv /\ session \in Nat
      BY BoundsAssumption DEF IInv, TypeOK
    <2>2. CASE DequeInitialize
      BY <2>1, <2>2 DEF DequeInitialize
    <2>3. CASE ~DequeInitialize
      BY <2>1, <2>3, SessionsGrow
    <2>4. QED BY <2>1, <2>2, <2>3
  <1>1. CASE Client
    BY <1>1 DEF Client, ClientConnect, ClientClose, ClientSend
  <1>2. CASE Main
    <2>1. CASE MainListen
      BY <2>1 DEF MainListen
    <2>2. CASE MainAcceptFails
      <3>1. session = 0 /\ deque \in {"none", "pop"}
        BY <1>0, <2>2 DEF MainAcceptFails, QueueInv
      <3>2. Lifecycle!GoDown
        BY <2>2, <3>1 DEF MainAcceptFails, Lifecycle!GoDown
      <3>3. QED BY <3>2
    <2>3. CASE MainReturn
      <3>1. deque = "done"
        BY <1>0, <2>3 DEF MainReturn, QueueInv
      <3>2. Lifecycle!GoDown
        BY <2>3, <3>1 DEF MainReturn, Lifecycle!GoDown
      <3>3. QED BY <3>2
    <2>4. CASE MainAccept \/ MainWaitAccept \/ MainWaitDeque
      BY <2>4 DEF MainAccept, MainWaitAccept, MainWaitDeque
    <2>5. QED BY <1>2, <2>1, <2>2, <2>3, <2>4 DEF Main
  <1>3. CASE Accept
    BY <1>3 DEF Accept, AcceptEnd, AcceptPush, AcceptRecv
  <1>4. CASE Deque
    <2>1. CASE DequePop \/ DequeIdle
      BY <2>1 DEF DequePop, DequeIdle, vars
    <2>2. CASE DequeInitialize
      <3>1. session = 0 /\ session' = 1 /\ 1 \in Sessions /\ alive'[1] = Objects
        BY <1>0, <2>2, BoundsAssumption DEF DequeInitialize, TypeOK, Sessions
      <3>2. Lifecycle!Open
        BY <2>2, <3>1 DEF DequeInitialize, Lifecycle!Open
      <3>3. QED BY <3>2
    <2>3. CASE DequeCreateRecord \/ DequeCreateStream \/ DequeWait
      BY <2>3 DEF DequeCreateRecord, DequeCreateStream, DequeWait
    <2>4. CASE DequeStop
      <3>1. Lifecycle!AskToStop
        BY <2>4 DEF DequeStop, Lifecycle!AskToStop
      <3>2. QED BY <3>1
    <2>5. QED BY <1>4, <2>1, <2>2, <2>3, <2>4 DEF Deque
  <1>5. ASSUME NEW s \in Sessions, Record(s) PROVE [Lifecycle!Next]_(Lifecycle!vars)
    <2>1. CASE RecordOpensDevices(s) \/ RecordDeviceFails(s) \/ RecordGivesUp(s)
                 \/ RecordTest(s) \/ RecordWork(s) \/ RecordReset(s)
      BY <2>1 DEF RecordOpensDevices, RecordDeviceFails, RecordGivesUp, RecordTest,
                  RecordWork, RecordReset
    <2>2. CASE RecordTeardown(s)
      <3>1. session = 1 /\ s = 1 /\ cur = 1
        BY <1>0, <2>2 DEF RecordTeardown, SessionInv, Sessions
      <3>2. torn[1] \in 0 .. 7 /\ alive[1] = Left(torn[1]) /\ Stopping
        BY <1>0, <2>2, <3>1 DEF RecordTeardown, SessionInv, TeardownInv, HandshakeInv, TypeOK
      <3>3. alive'[1] = Left(torn[1] + 1) /\ alive'[1] # Objects
        <4>1. alive'[1] = alive[1] \ {Teardown[torn[1] + 1]}
          BY <1>0, <2>2, <3>1 DEF RecordTeardown, TypeOK
        <4>2. Teardown[torn[1] + 1] \in Objects
          BY <3>2 DEF Teardown, Objects
        <4>3. QED BY <3>2, <4>1, <4>2, LeftStep
      <3>4. CASE alive[1] = Objects
        <4>1. Lifecycle!Release
          BY <2>2, <3>1, <3>2, <3>3, <3>4 DEF RecordTeardown, Lifecycle!Release, Stopping
        <4>2. QED BY <4>1
      <3>5. CASE alive[1] # Objects
        BY <2>2, <3>1, <3>3, <3>5 DEF RecordTeardown
      <3>6. QED BY <3>4, <3>5
    <2>3. QED BY <1>5, <2>1, <2>2 DEF Record
  <1>6. ASSUME NEW s \in Sessions, Stream(s) PROVE [Lifecycle!Next]_(Lifecycle!vars)
    BY <1>6 DEF Stream, StreamPlayVideo, StreamPlayAudio, StreamLoops, StreamLeavesLoop,
                StreamStopVideo, StreamStopAudio, StreamEnds, StreamGoes, vars
  <1>7. CASE Down \/ UNCHANGED vars
    BY <1>7 DEF Down, vars
  <1>8. QED BY <1>1, <1>2, <1>3, <1>4, <1>5, <1>6, <1>7 DEF Next

\* The safety part of ImplementsLifecycle: the media objects appear once, are
\* released only after a stop was asked for, and never return.
THEOREM LifecycleRefined == Spec => Lifecycle!Spec
  <1>1. Init => Lifecycle!Init
    BY DEF Init, Lifecycle!Init, Running
  <1>2. IInv /\ [Next]_vars => [Lifecycle!Next]_(Lifecycle!vars)
    BY FirstSessionStep, SecondStartStep
  <1>3. QED BY <1>1, <1>2, Inductive, PTL DEF Spec, Lifecycle!Spec
=============================================================================
