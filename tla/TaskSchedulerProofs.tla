------------------------- MODULE TaskSchedulerProofs -------------------------
(***************************************************************************)
(* Proofs about TaskScheduler, for every set of sockets, of condition sets *)
(* and of clients and every number of event triggers.                      *)
(***************************************************************************)
EXTENDS TaskScheduler, SequenceTheorems, TLAPS

Entry == [socketNum : Sockets, conditionSet : ConditionSets]

-----------------------------------------------------------------------------
(* Lists and masks.                                                        *)

\* Taking the entry at p out of a list keeps the order of the others.
LEMMA RemovedEntry ==
  ASSUME NEW S, NEW h \in Seq(S), NEW p \in DOMAIN h
  PROVE  LET r == RemoveAt(h, p)
         IN /\ r \in Seq(S)
            /\ Len(r) = Len(h) - 1
            /\ \A i \in 1 .. Len(h) - 1 : r[i] = IF i < p THEN h[i] ELSE h[i + 1]
  <1> DEFINE a == SubSeq(h, 1, p - 1)
             b == SubSeq(h, p + 1, Len(h))
  <1>1. p \in 1 .. Len(h) /\ Len(h) \in Nat
    BY LenProperties
  <1>2. a \in Seq(S) /\ Len(a) = p - 1 /\ \A i \in 1 .. p - 1 : a[i] = h[i]
    BY <1>1, SubSeqProperties
  <1>3. b \in Seq(S) /\ Len(b) = Len(h) - p /\ \A i \in 1 .. Len(h) - p : b[i] = h[p + i]
    BY <1>1, SubSeqProperties
  <1> HIDE DEF a, b
  <1>4. a \o b \in Seq(S) /\ Len(a \o b) = Len(h) - 1
    BY <1>1, <1>2, <1>3, ConcatProperties
  <1>5. ASSUME NEW i \in 1 .. Len(h) - 1
        PROVE  (a \o b)[i] = IF i < p THEN h[i] ELSE h[i + 1]
    <2>1. CASE i < p
      BY <1>1, <1>2, <1>3, <2>1, ConcatProperties
    <2>2. CASE ~(i < p)
      <3>1. (a \o b)[i] = b[i - (p - 1)]
        BY <1>1, <1>2, <1>3, <2>2, ConcatProperties
      <3>2. i - (p - 1) \in 1 .. Len(h) - p /\ p + (i - (p - 1)) = i + 1
        BY <1>1, <2>2
      <3>3. QED BY <1>3, <2>2, <3>1, <3>2
    <2>3. QED BY <2>1, <2>2
  <1>6. QED BY <1>4, <1>5 DEF RemoveAt, a, b

\* The search arrives at i with the bit of i, if it starts with matching ones.
LEMMA MaskOfNumber ==
  ASSUME TypeOK, fLastUsedTriggerMask = {fLastUsedTriggerNum}, NEW i \in Triggers
  PROVE  MaskAt(i) = {i}
  <1> DEFINE n == MAX_NUM_EVENT_TRIGGERS
             l == fLastUsedTriggerNum
             k == l + Distance(i)
  <1>1. n \in Nat /\ l \in 0 .. n - 1 /\ i \in 0 .. n - 1
    BY SchedulerAssumption DEF TypeOK, Triggers
  <1>2. (IF k < n THEN k ELSE k - n) = i
    BY <1>1 DEF Distance
  <1>3. MaskAt(i) = {IF k < n THEN k ELSE k - n}
    BY DEF MaskAt
  <1>4. QED BY <1>2, <1>3

-----------------------------------------------------------------------------
(* Types.                                                                  *)

LEMMA InitInv == Init => SchedulerInv
  <1> SUFFICES ASSUME Init PROVE SchedulerInv
    OBVIOUS
  <1> USE SchedulerAssumption DEF Init
  <1>1. MAX_NUM_EVENT_TRIGGERS - 1 \in Triggers /\ <<>> \in Seq(Entry) /\ DOMAIN fHandlers = {}
    BY DEF Triggers
  <1>2. TypeOK
    BY <1>1 DEF TypeOK, Entry, None, NotFound
  <1>3. SocketsAgree
    BY <1>1 DEF SocketsAgree, None, Registered
  <1>4. TriggersAgree
    BY <1>1 DEF TriggersAgree
  <1>5. QED BY <1>2, <1>3, <1>4 DEF SchedulerInv

\* The calls that change the list of handlers keep it a list of entries.
LEMMA HandlersTyped ==
  ASSUME SchedulerInv, NEW s \in Sockets
  PROVE  /\ \A cs \in ConditionSets : AssignHandling(s, cs) => fHandlers' \in Seq(Entry)
         /\ ClearHandling(s) => fHandlers' \in Seq(Entry)
         /\ \A t \in Sockets : MoveHandling(s, t) => fHandlers' \in Seq(Entry)
  <1>1. fHandlers \in Seq(Entry)
    BY DEF SchedulerInv, TypeOK, Entry
  <1>2. Len(fHandlers) \in Nat /\ fHandlers \in [1 .. Len(fHandlers) -> Entry]
        /\ DOMAIN fHandlers = 1 .. Len(fHandlers)
    BY <1>1, LenProperties, SeqDef
  <1>3. ASSUME NEW cs \in ConditionSets, AssignHandling(s, cs) PROVE fHandlers' \in Seq(Entry)
    <2> DEFINE d == [socketNum |-> s, conditionSet |-> cs]
    <2>1. d \in Entry /\ <<d>> \in Seq(Entry)
      BY DEF Entry
    <2> HIDE DEF d
    <2>2. CASE s \in Registered
      <3>1. fHandlers' = [p \in DOMAIN fHandlers |->
                            IF fHandlers[p].socketNum = s THEN d ELSE fHandlers[p]]
        BY <1>3, <2>2 DEF AssignHandling, d
      <3>2. fHandlers' \in [1 .. Len(fHandlers) -> Entry]
        BY <1>2, <2>1, <3>1
      <3>3. QED BY <1>2, <3>2, SeqDef
    <2>3. CASE s \notin Registered
      <3>1. fHandlers' = <<d>> \o fHandlers
        BY <1>3, <2>3 DEF AssignHandling, d
      <3>2. QED BY <1>1, <2>1, <3>1, ConcatProperties
    <2>4. QED BY <2>2, <2>3
  <1>4. ASSUME ClearHandling(s) PROVE fHandlers' \in Seq(Entry)
    BY <1>1, <1>4, RemovedEntry DEF ClearHandling, Unlinked
  <1>5. ASSUME NEW t \in Sockets, MoveHandling(s, t) PROVE fHandlers' \in Seq(Entry)
    <2>1. fHandlers' \in [1 .. Len(fHandlers) -> Entry]
      BY <1>2, <1>5 DEF MoveHandling, Entry
    <2>2. QED BY <1>2, <2>1, SeqDef
  <1>6. QED BY <1>3, <1>4, <1>5

LEMMA TypeInductive == SchedulerInv /\ [Next]_vars => TypeOK'
  <1> SUFFICES ASSUME SchedulerInv, [Next]_vars PROVE TypeOK'
    OBVIOUS
  <1> USE SchedulerAssumption
  <1> USE DEF TypeOK, socketVars, triggerVars, lastVars
  <1>0. TypeOK /\ TriggersAgree /\ None \in [Conditions -> SUBSET Sockets]
    BY DEF SchedulerInv, None
  <1>1. ASSUME NEW s \in Sockets, NEW cs \in ConditionSets, AssignHandling(s, cs) PROVE TypeOK'
    <2>1. fHandlers' \in Seq(Entry)
      BY <1>1, HandlersTyped
    <2>2. fds' \in [Conditions -> SUBSET Sockets] /\ fMaxNumSockets' \in Nat
      <3>1. fds' = [c \in Conditions |-> IF c \in cs THEN fds[c] \cup {s} ELSE fds[c] \ {s}]
        BY <1>1 DEF AssignHandling
      <3>2. fds' \in [Conditions -> SUBSET Sockets]
        BY <1>0, <3>1
      <3>3. fMaxNumSockets' \in Nat
        BY <1>0, <1>1 DEF AssignHandling, MaxOf
      <3>4. QED BY <3>2, <3>3
    <2>3. QED BY <1>0, <1>1, <2>1, <2>2 DEF AssignHandling, Entry
  <1>2. ASSUME NEW s \in Sockets, ClearHandling(s) PROVE TypeOK'
    <2>1. fHandlers' \in Seq(Entry)
      BY <1>2, HandlersTyped
    <2>2. fds' \in [Conditions -> SUBSET Sockets] /\ fMaxNumSockets' \in Nat
      BY <1>0, <1>2 DEF ClearHandling
    <2>3. QED BY <1>0, <1>2, <2>1, <2>2 DEF ClearHandling, Entry
  <1>3. ASSUME NEW s \in Sockets, NEW t \in Sockets, MoveHandling(s, t) PROVE TypeOK'
    <2>1. fHandlers' \in Seq(Entry)
      BY <1>3, HandlersTyped
    <2>2. fds' \in [Conditions -> SUBSET Sockets] /\ fMaxNumSockets' \in Nat
      BY <1>0, <1>3 DEF MoveHandling, MaxOf
    <2>3. QED BY <1>0, <1>3, <2>1, <2>2 DEF MoveHandling, Entry
  <1>4. ASSUME NEW c \in Clients, CreateEventTrigger(c) PROVE TypeOK'
    <2>1. PICK i \in Triggers :
            /\ fTriggeredEventHandlers' = [fTriggeredEventHandlers EXCEPT ![i] = c]
            /\ fTriggeredEventClientDatas' = [fTriggeredEventClientDatas EXCEPT ![i] = NULL]
            /\ fLastUsedTriggerMask' = MaskAt(i) /\ fLastUsedTriggerNum' = i
            /\ id' = [id EXCEPT ![c] = MaskAt(i)]
      BY <1>4 DEF CreateEventTrigger
    <2>2. MaskAt(i) = {i}
      BY <1>0, <2>1, MaskOfNumber DEF TriggersAgree
    <2>3. QED BY <1>0, <1>4, <2>1, <2>2 DEF CreateEventTrigger
  <1>5. ASSUME NEW c \in Clients, DeleteEventTrigger(c) PROVE TypeOK'
    BY <1>0, <1>5 DEF DeleteEventTrigger
  <1>6. ASSUME NEW c \in Clients, TriggerEvent(c) PROVE TypeOK'
    BY <1>0, <1>6 DEF TriggerEvent
  <1>7. CASE Select \/ SelectFails
    <2>1. selected' \in [Conditions -> SUBSET Sockets]
      BY <1>0, <1>7 DEF Select, SelectFails
    <2>2. QED BY <1>0, <1>7, <2>1 DEF Select, SelectFails
  <1>8. CASE CallSocketHandler
    <2>1. fHandlers \in [1 .. Len(fHandlers) -> Entry] /\ DOMAIN fHandlers = 1 .. Len(fHandlers)
      BY <1>0, LenProperties, SeqDef DEF Entry
    <2>2. fLastHandledSocketNum' \in Sockets
      BY <1>8, <2>1 DEF CallSocketHandler, Entry
    <2>3. QED BY <1>0, <1>8, <2>2 DEF CallSocketHandler
  <1>9. CASE NoSocketHandler \/ SocketHandlerReturns \/ NoTrigger
    BY <1>0, <1>9 DEF NoSocketHandler, SocketHandlerReturns, NoTrigger
  <1>10. CASE CallLastUsedTrigger
    BY <1>0, <1>10 DEF CallLastUsedTrigger, CallTriggerHandler, NotFound
  <1>11. CASE CallNextTrigger
    <2>1. PICK i \in Triggers :
            /\ fTriggersAwaitingHandling' = fTriggersAwaitingHandling \ MaskAt(i)
            /\ handling' = [num |-> i, mask |-> MaskAt(i)]
            /\ CallTriggerHandler(i)
      BY <1>11 DEF CallNextTrigger
    <2>2. MaskAt(i) = {i}
      BY <1>0, <2>1, MaskOfNumber DEF TriggersAgree
    <2>3. QED BY <1>0, <2>1, <2>2 DEF CallTriggerHandler
  <1>12. CASE TriggerHandlerReturns
    BY <1>0, <1>12 DEF TriggerHandlerReturns, TriggersAgree, NotFound
  <1>13. CASE UNCHANGED vars
    BY <1>0, <1>13 DEF vars
  <1>14. QED BY <1>1, <1>2, <1>3, <1>4, <1>5, <1>6, <1>7, <1>8, <1>9, <1>10, <1>11, <1>12,
                <1>13 DEF Next, SingleStep, Calls

-----------------------------------------------------------------------------
(* Sockets.                                                                *)

\* The list and the registered sockets in one place.
LEMMA ListFacts ==
  ASSUME TypeOK
  PROVE  /\ Len(fHandlers) \in Nat /\ DOMAIN fHandlers = 1 .. Len(fHandlers)
         /\ \A p \in DOMAIN fHandlers :
              /\ fHandlers[p] \in Entry /\ fHandlers[p].socketNum \in Nat
              /\ fHandlers[p].socketNum \in Registered
  <1>1. fHandlers \in Seq(Entry)
    BY DEF TypeOK, Entry
  <1>2. fHandlers \in [1 .. Len(fHandlers) -> Entry] /\ Len(fHandlers) \in Nat
    BY <1>1, LenProperties, SeqDef
  <1>3. QED BY <1>2, SchedulerAssumption DEF Entry, Registered

LEMMA AssignAgrees ==
  ASSUME SchedulerInv, NEW s \in Sockets, NEW cs \in ConditionSets, AssignHandling(s, cs)
  PROVE  SocketsAgree'
  <1> DEFINE d == [socketNum |-> s, conditionSet |-> cs]
  <1>0. TypeOK /\ SocketsAgree /\ s \in Nat
    BY SchedulerAssumption DEF SchedulerInv
  <1>1. fds' = [c \in Conditions |-> IF c \in cs THEN fds[c] \cup {s} ELSE fds[c] \ {s}]
    BY DEF AssignHandling
  <1>2. fMaxNumSockets' \in Nat /\ fMaxNumSockets' > s /\ fMaxNumSockets' >= fMaxNumSockets
    BY <1>0 DEF AssignHandling, MaxOf, TypeOK
  <1>3. CASE s \in Registered
    <2>1. /\ DOMAIN fHandlers' = DOMAIN fHandlers
          /\ \A p \in DOMAIN fHandlers :
               fHandlers'[p] = IF fHandlers[p].socketNum = s THEN d ELSE fHandlers[p]
      BY <1>3 DEF AssignHandling
    <2>2. Registered' = Registered
      BY <1>3, <2>1 DEF Registered
    <2>3. \A p, q \in DOMAIN fHandlers' :
            fHandlers'[p].socketNum = fHandlers'[q].socketNum => p = q
      BY <1>0, <2>1 DEF SocketsAgree
    <2>4. ASSUME NEW p \in DOMAIN fHandlers'
          PROVE  /\ fHandlers'[p].socketNum < fMaxNumSockets'
                 /\ \A c \in Conditions :
                      fHandlers'[p].socketNum \in fds'[c] <=> c \in fHandlers'[p].conditionSet
      <3>1. fMaxNumSockets \in Nat
        BY <1>0 DEF TypeOK
      <3>2. CASE fHandlers[p].socketNum = s
        BY <1>1, <1>2, <2>1, <2>4, <3>2
      <3>3. CASE fHandlers[p].socketNum # s
        BY <1>0, <1>1, <1>2, <2>1, <2>4, <3>1, <3>3, ListFacts DEF SocketsAgree
      <3>4. QED BY <3>2, <3>3
    <2>5. \A c \in Conditions : fds'[c] \subseteq Registered'
      BY <1>0, <1>1, <1>3, <2>2 DEF SocketsAgree
    <2>6. QED BY <2>3, <2>4, <2>5 DEF SocketsAgree
  <1>4. CASE s \notin Registered
    <2>1. fHandlers' = <<d>> \o fHandlers /\ fHandlers \in Seq(Entry) /\ <<d>> \in Seq(Entry)
      BY <1>0, <1>4 DEF AssignHandling, TypeOK, Entry
    <2>2. /\ DOMAIN fHandlers' = 1 .. Len(fHandlers) + 1
          /\ fHandlers'[1] = d
          /\ \A p \in 2 .. Len(fHandlers) + 1 : fHandlers'[p] = fHandlers[p - 1]
      BY <2>1, ConcatProperties, LenProperties
    <2>3. Registered' = Registered \cup {s}
      <3>1. \A p \in DOMAIN fHandlers :
              p + 1 \in DOMAIN fHandlers' /\ fHandlers'[p + 1] = fHandlers[p]
        BY <1>0, <2>2, ListFacts
      <3>2. 1 \in DOMAIN fHandlers' /\ \A p \in DOMAIN fHandlers' \ {1} :
              p - 1 \in DOMAIN fHandlers /\ fHandlers'[p] = fHandlers[p - 1]
        BY <1>0, <2>2, ListFacts
      <3>3. QED BY <2>2, <3>1, <3>2 DEF Registered
    <2>4. \A p \in DOMAIN fHandlers' : p # 1 =>
            p - 1 \in DOMAIN fHandlers /\ fHandlers'[p] = fHandlers[p - 1]
      BY <1>0, <2>2, ListFacts
    <2>5. \A p, q \in DOMAIN fHandlers' : fHandlers'[p].socketNum = fHandlers'[q].socketNum => p = q
      BY <1>0, <1>4, <2>2, <2>4, ListFacts DEF SocketsAgree
    <2>6. \A c \in Conditions : s \notin fds[c]
      BY <1>0, <1>4 DEF SocketsAgree
    <2>7. \A p \in DOMAIN fHandlers' :
            /\ fHandlers'[p].socketNum < fMaxNumSockets'
            /\ \A c \in Conditions :
                 fHandlers'[p].socketNum \in fds'[c] <=> c \in fHandlers'[p].conditionSet
      <3>1. fMaxNumSockets \in Nat
        BY <1>0 DEF TypeOK
      <3>2. QED BY <1>0, <1>1, <1>2, <1>4, <2>2, <2>4, <2>6, <3>1, ListFacts DEF SocketsAgree
    <2>8. \A c \in Conditions : fds'[c] \subseteq Registered'
      BY <1>0, <1>1, <2>3 DEF SocketsAgree
    <2>9. QED BY <2>5, <2>7, <2>8 DEF SocketsAgree
  <1>5. QED BY <1>3, <1>4

LEMMA ClearAgrees ==
  ASSUME SchedulerInv, NEW s \in Sockets, ClearHandling(s)
  PROVE  SocketsAgree'
  <1>0. TypeOK /\ SocketsAgree /\ s \in Nat /\ fMaxNumSockets \in Nat
    BY SchedulerAssumption DEF SchedulerInv, TypeOK
  <1>1. fds' = [c \in Conditions |-> fds[c] \ {s}]
    BY DEF ClearHandling
  <1>2. \A t \in Nat : t < fMaxNumSockets /\ t # s => t < fMaxNumSockets'
    BY <1>0 DEF ClearHandling
  <1>3. CASE s \notin Registered
    <2>1. fHandlers' = fHandlers /\ Registered' = Registered
      BY <1>3 DEF ClearHandling, Unlinked, Registered
    <2>2. QED BY <1>0, <1>1, <1>2, <1>3, <2>1, ListFacts DEF SocketsAgree
  <1>4. CASE s \in Registered
    <2>1. PICK p \in DOMAIN fHandlers : fHandlers[p].socketNum = s /\ fHandlers' = RemoveAt(fHandlers, p)
      BY <1>4 DEF ClearHandling, Unlinked
    <2> DEFINE Old(i) == IF i < p THEN i ELSE i + 1
    <2>2. /\ DOMAIN fHandlers' = 1 .. Len(fHandlers) - 1
          /\ \A i \in 1 .. Len(fHandlers) - 1 : fHandlers'[i] = fHandlers[Old(i)]
      <3>1. fHandlers \in Seq(Entry)
        BY <1>0 DEF TypeOK, Entry
      <3>2. QED BY <2>1, <3>1, RemovedEntry, LenProperties
    <2>3. \A i \in DOMAIN fHandlers' : Old(i) \in DOMAIN fHandlers /\ Old(i) # p
      BY <1>0, <2>2, ListFacts
    <2>4. \A i, j \in DOMAIN fHandlers' : Old(i) = Old(j) => i = j
      BY <1>0, <2>2, ListFacts
    <2>5. \A j \in DOMAIN fHandlers : j # p => \E i \in DOMAIN fHandlers' : Old(i) = j
      <3> SUFFICES ASSUME NEW j \in DOMAIN fHandlers, j # p
                   PROVE  \E i \in DOMAIN fHandlers' : Old(i) = j
        OBVIOUS
      <3>1. CASE j < p
        <4>1. j \in DOMAIN fHandlers' /\ Old(j) = j
          BY <1>0, <2>2, <3>1, ListFacts
        <4>2. QED BY <4>1
      <3>2. CASE j > p
        <4>1. j - 1 \in DOMAIN fHandlers' /\ Old(j - 1) = j
          BY <1>0, <2>2, <3>2, ListFacts
        <4>2. QED BY <4>1
      <3>3. QED BY <1>0, <3>1, <3>2, ListFacts
    <2>6. \A i \in DOMAIN fHandlers' : fHandlers'[i] = fHandlers[Old(i)]
      BY <2>2
    <2> HIDE DEF Old
    <2>7. \A i \in DOMAIN fHandlers' : fHandlers'[i].socketNum # s
      BY <1>0, <2>1, <2>3, <2>6 DEF SocketsAgree
    <2>8. Registered' = Registered \ {s}
      BY <2>1, <2>3, <2>5, <2>6, <2>7 DEF Registered
    <2>9. \A i, j \in DOMAIN fHandlers' : fHandlers'[i].socketNum = fHandlers'[j].socketNum => i = j
      BY <1>0, <2>3, <2>4, <2>6 DEF SocketsAgree
    <2>10. \A i \in DOMAIN fHandlers' :
            /\ fHandlers'[i].socketNum < fMaxNumSockets'
            /\ \A c \in Conditions :
                 fHandlers'[i].socketNum \in fds'[c] <=> c \in fHandlers'[i].conditionSet
      BY <1>0, <1>1, <1>2, <2>3, <2>6, <2>7, ListFacts DEF SocketsAgree
    <2>11. \A c \in Conditions : fds'[c] \subseteq Registered'
      BY <1>0, <1>1, <2>8 DEF SocketsAgree
    <2>12. QED BY <2>9, <2>10, <2>11 DEF SocketsAgree
  <1>5. QED BY <1>3, <1>4

LEMMA MoveAgrees ==
  ASSUME SchedulerInv, NEW s \in Sockets, NEW t \in Sockets, MoveHandling(s, t)
  PROVE  SocketsAgree'
  <1>0. TypeOK /\ SocketsAgree /\ s \in Nat /\ t \in Nat /\ fMaxNumSockets \in Nat
    BY SchedulerAssumption DEF SchedulerInv, TypeOK
  <1>1. fds' = [c \in Conditions |-> IF s \in fds[c] THEN (fds[c] \ {s}) \cup {t} ELSE fds[c]]
    BY DEF MoveHandling
  <1>2. t < fMaxNumSockets' /\ \A u \in Nat : u < fMaxNumSockets /\ u # s => u < fMaxNumSockets'
    BY <1>0 DEF MoveHandling, MaxOf
  <1>3. /\ DOMAIN fHandlers' = DOMAIN fHandlers
        /\ \A p \in DOMAIN fHandlers :
             /\ fHandlers'[p].conditionSet = fHandlers[p].conditionSet
             /\ fHandlers'[p].socketNum =
                  IF fHandlers[p].socketNum = s THEN t ELSE fHandlers[p].socketNum
    BY <1>0, ListFacts DEF MoveHandling, Entry
  <1>4. t \notin Registered \/ t = s
    BY DEF MoveHandling
  <1>5. \A p, q \in DOMAIN fHandlers' : fHandlers'[p].socketNum = fHandlers'[q].socketNum => p = q
    BY <1>0, <1>3, <1>4, ListFacts DEF SocketsAgree
  <1>6. \A p \in DOMAIN fHandlers' :
          /\ fHandlers'[p].socketNum < fMaxNumSockets'
          /\ \A c \in Conditions :
               fHandlers'[p].socketNum \in fds'[c] <=> c \in fHandlers'[p].conditionSet
    BY <1>0, <1>1, <1>2, <1>3, <1>4, ListFacts DEF SocketsAgree
  <1>7. \A c \in Conditions : fds'[c] \subseteq Registered'
    <2> SUFFICES ASSUME NEW c \in Conditions, NEW u \in fds'[c] PROVE u \in Registered'
      OBVIOUS
    <2>1. CASE u = t /\ s \in fds[c]
      <3>1. PICK p \in DOMAIN fHandlers : fHandlers[p].socketNum = s
        BY <1>0, <2>1 DEF SocketsAgree, Registered
      <3>2. QED BY <1>3, <2>1, <3>1 DEF Registered
    <2>2. CASE u \in fds[c] /\ u # s
      <3>1. PICK p \in DOMAIN fHandlers : fHandlers[p].socketNum = u
        BY <1>0, <2>2 DEF SocketsAgree, Registered
      <3>2. QED BY <1>3, <2>2, <3>1 DEF Registered
    <2>3. QED BY <1>1, <2>1, <2>2
  <1>8. QED BY <1>5, <1>6, <1>7 DEF SocketsAgree

LEMMA SocketsInductive == SchedulerInv /\ [Next]_vars => SocketsAgree'
  <1> SUFFICES ASSUME SchedulerInv, [Next]_vars PROVE SocketsAgree'
    OBVIOUS
  <1>0. SocketsAgree
    BY DEF SchedulerInv
  <1>1. ASSUME NEW s \in Sockets,
               \/ ClearHandling(s)
               \/ \E cs \in ConditionSets : AssignHandling(s, cs)
               \/ \E t \in Sockets : MoveHandling(s, t)
        PROVE  SocketsAgree'
    BY <1>1, AssignAgrees, ClearAgrees, MoveAgrees
  <1>2. CASE UNCHANGED <<fHandlers, fds, fMaxNumSockets>>
    BY <1>0, <1>2 DEF SocketsAgree, Registered
  <1>3. ASSUME NEW c \in Clients,
               CreateEventTrigger(c) \/ DeleteEventTrigger(c) \/ TriggerEvent(c)
        PROVE  UNCHANGED <<fHandlers, fds, fMaxNumSockets>>
    BY <1>3 DEF CreateEventTrigger, DeleteEventTrigger, TriggerEvent, socketVars
  <1>4. SingleStep \/ UNCHANGED vars => UNCHANGED <<fHandlers, fds, fMaxNumSockets>>
    BY DEF SingleStep, Select, SelectFails, CallSocketHandler, NoSocketHandler,
           SocketHandlerReturns, CallLastUsedTrigger, CallNextTrigger, CallTriggerHandler,
           NoTrigger, TriggerHandlerReturns, vars, socketVars
  <1>5. QED BY <1>1, <1>2, <1>3, <1>4 DEF Next, Calls

-----------------------------------------------------------------------------
(* Triggers.                                                               *)

\* What a client holds is nothing or the bit of the one trigger it owns.
LEMMA IdFacts ==
  ASSUME TypeOK, TriggersAgree, NEW c \in Clients, id[c] # {}
  PROVE  \E i \in Triggers : id[c] = {i} /\ fTriggeredEventHandlers[i] = c
  <1>1. PICK i \in Triggers : i \in id[c]
    BY DEF TypeOK
  <1>2. id[c] = {i}
    BY <1>1 DEF TypeOK, TriggersAgree
  <1>3. QED BY <1>1, <1>2 DEF TriggersAgree

\* What deleteEventTrigger clears is what the client holds.
LEMMA DeletedIsOwn ==
  ASSUME TypeOK, TriggersAgree, NEW c \in Clients
  PROVE  (IF id[c] = fLastUsedTriggerMask THEN {fLastUsedTriggerNum} ELSE id[c]) = id[c]
  BY DEF TriggersAgree

\* The three calls on triggers, with masks and numbers known to match.
LEMMA CreatedTrigger ==
  ASSUME TypeOK, TriggersAgree, NEW c \in Clients, CreateEventTrigger(c)
  PROVE  \E i \in Triggers :
           /\ fTriggeredEventHandlers[i] = NULL /\ id[c] = {}
           /\ fTriggeredEventHandlers' = [fTriggeredEventHandlers EXCEPT ![i] = c]
           /\ fTriggeredEventClientDatas' = [fTriggeredEventClientDatas EXCEPT ![i] = NULL]
           /\ fLastUsedTriggerMask' = {i} /\ fLastUsedTriggerNum' = i
           /\ id' = [id EXCEPT ![c] = {i}]
           /\ UNCHANGED <<fTriggersAwaitingHandling, owed, handling>>
  <1>1. PICK i \in Triggers :
          /\ FirstAfterLast(i, {j \in Triggers : fTriggeredEventHandlers[j] = NULL})
          /\ fTriggeredEventHandlers' = [fTriggeredEventHandlers EXCEPT ![i] = c]
          /\ fTriggeredEventClientDatas' = [fTriggeredEventClientDatas EXCEPT ![i] = NULL]
          /\ fLastUsedTriggerMask' = MaskAt(i) /\ fLastUsedTriggerNum' = i
          /\ id' = [id EXCEPT ![c] = MaskAt(i)]
    BY DEF CreateEventTrigger
  <1>2. MaskAt(i) = {i}
    BY MaskOfNumber DEF TriggersAgree
  <1>3. fTriggeredEventHandlers[i] = NULL
    BY <1>1 DEF FirstAfterLast
  <1>4. QED BY <1>1, <1>2, <1>3 DEF CreateEventTrigger

LEMMA TriggersInductive == SchedulerInv /\ [Next]_vars => TriggersAgree'
  <1> SUFFICES ASSUME SchedulerInv, [Next]_vars PROVE TriggersAgree'
    OBVIOUS
  <1> USE SchedulerAssumption
  <1>0. TypeOK /\ TriggersAgree
    BY DEF SchedulerInv
  <1>1. ASSUME NEW c \in Clients, CreateEventTrigger(c) PROVE TriggersAgree'
    <2>1. PICK i \in Triggers :
           /\ fTriggeredEventHandlers[i] = NULL /\ id[c] = {}
           /\ fTriggeredEventHandlers' = [fTriggeredEventHandlers EXCEPT ![i] = c]
           /\ fLastUsedTriggerMask' = {i} /\ fLastUsedTriggerNum' = i
           /\ id' = [id EXCEPT ![c] = {i}]
           /\ handling' = handling
      BY <1>0, <1>1, CreatedTrigger
    <2>2. \A j \in Triggers, d \in Clients : fTriggeredEventHandlers'[j] = d <=> j \in id'[d]
      BY <1>0, <2>1 DEF TriggersAgree, TypeOK
    <2>3. \A d \in Clients, j, k \in Triggers : j \in id'[d] /\ k \in id'[d] => j = k
      BY <1>0, <2>1 DEF TriggersAgree, TypeOK
    <2>4. QED BY <1>0, <2>1, <2>2, <2>3 DEF TriggersAgree
  <1>2. ASSUME NEW c \in Clients, DeleteEventTrigger(c) PROVE TriggersAgree'
    <2>1. /\ fTriggeredEventHandlers' =
               [i \in Triggers |-> IF i \in id[c] THEN NULL ELSE fTriggeredEventHandlers[i]]
          /\ id' = [id EXCEPT ![c] = {}] /\ UNCHANGED <<lastVars, handling>>
      BY <1>0, <1>2, DeletedIsOwn DEF DeleteEventTrigger
    <2>2. \A j \in Triggers, d \in Clients : fTriggeredEventHandlers'[j] = d <=> j \in id'[d]
      BY <1>0, <2>1 DEF TriggersAgree, TypeOK
    <2>3. QED BY <1>0, <2>1, <2>2 DEF TriggersAgree, TypeOK, lastVars
  <1>3. ASSUME NEW c \in Clients, TriggerEvent(c) PROVE TriggersAgree'
    BY <1>0, <1>3 DEF TriggerEvent, TriggersAgree, lastVars
  <1>4. CASE CallNextTrigger
    <2>1. PICK i \in Triggers :
            handling' = [num |-> i, mask |-> MaskAt(i)] /\ CallTriggerHandler(i)
      BY <1>4 DEF CallNextTrigger
    <2>2. MaskAt(i) = {i}
      BY <1>0, <2>1, MaskOfNumber DEF TriggersAgree
    <2>3. QED BY <1>0, <2>1, <2>2 DEF CallTriggerHandler, TriggersAgree, lastVars
  <1>5. CASE TriggerHandlerReturns
    BY <1>0, <1>5 DEF TriggerHandlerReturns, TriggersAgree, triggerVars, lastVars
  <1>6. CASE CallLastUsedTrigger
    BY <1>0, <1>6 DEF CallLastUsedTrigger, CallTriggerHandler, TriggersAgree, lastVars
  <1>7. CASE UNCHANGED <<triggerVars, lastVars, handling>>
    BY <1>0, <1>7 DEF TriggersAgree, triggerVars, lastVars
  <1>8. Select \/ SelectFails \/ CallSocketHandler \/ NoSocketHandler \/ SocketHandlerReturns
          \/ NoTrigger \/ UNCHANGED vars => UNCHANGED <<triggerVars, lastVars, handling>>
    BY DEF Select, SelectFails, CallSocketHandler, NoSocketHandler, SocketHandlerReturns,
           NoTrigger, vars
  <1>9. ASSUME NEW s \in Sockets,
               \/ ClearHandling(s)
               \/ \E cs \in ConditionSets : AssignHandling(s, cs)
               \/ \E t \in Sockets : MoveHandling(s, t)
        PROVE  UNCHANGED <<triggerVars, lastVars, handling>>
    BY <1>9 DEF ClearHandling, AssignHandling, MoveHandling
  <1>10. QED BY <1>1, <1>2, <1>3, <1>4, <1>5, <1>6, <1>7, <1>8, <1>9 DEF Next, SingleStep, Calls

\* The handler set, the descriptor sets, fMaxNumSockets, the last used trigger
\* and the clients' ids always agree.
THEOREM SchedulerAgrees == Spec => []SchedulerInv
  <1>1. SchedulerInv /\ [Next]_vars => SchedulerInv'
    BY TypeInductive, SocketsInductive, TriggersInductive DEF SchedulerInv
  <1>2. QED BY InitInv, <1>1, PTL DEF Spec

-----------------------------------------------------------------------------
(* Events.                                                                 *)

LEMMA EventsInductive ==
  ASSUME SchedulerInv, EventsKeepTheirOwner, [Next]_vars
  PROVE  EventsKeepTheirOwner'
  <1> USE SchedulerAssumption
  <1> DEFINE Own(c) == \A i \in id[c] : fTriggeredEventClientDatas[i] = c
  <1>0. TypeOK /\ TriggersAgree /\ TriggersAgree'
    BY TriggersInductive DEF SchedulerInv
  <1>1. /\ fTriggersAwaitingHandling = UNION {id[c] : c \in owed}
        /\ \A c \in owed : id[c] # {} /\ Own(c)
    BY DEF EventsKeepTheirOwner
  \* Different clients hold different triggers.
  <1>2. \A c, d \in Clients, i \in Triggers : i \in id[c] /\ i \in id[d] => c = d
    BY <1>0 DEF TriggersAgree
  <1>3. ASSUME NEW c \in Clients, CreateEventTrigger(c) PROVE EventsKeepTheirOwner'
    <2>1. PICK i \in Triggers :
           /\ fTriggeredEventHandlers[i] = NULL /\ id[c] = {}
           /\ fTriggeredEventClientDatas' = [fTriggeredEventClientDatas EXCEPT ![i] = NULL]
           /\ id' = [id EXCEPT ![c] = {i}]
           /\ UNCHANGED <<fTriggersAwaitingHandling, owed>>
      BY <1>0, <1>3, CreatedTrigger
    <2>2. c \notin owed /\ owed \subseteq Clients
      BY <1>0, <1>1, <2>1 DEF TypeOK
    <2>3. \A d \in owed : id'[d] = id[d] /\ i \notin id[d]
      BY <1>0, <2>1, <2>2 DEF TypeOK, TriggersAgree
    <2>4. {id'[d] : d \in owed'} = {id[d] : d \in owed}
      BY <2>1, <2>3
    <2>5. \A d \in owed' : id'[d] # {} /\ \A j \in id'[d] : fTriggeredEventClientDatas'[j] = d
      BY <1>0, <1>1, <2>1, <2>2, <2>3 DEF TypeOK
    <2>6. QED BY <1>1, <2>1, <2>4, <2>5 DEF EventsKeepTheirOwner
  <1>4. ASSUME NEW c \in Clients, DeleteEventTrigger(c) PROVE EventsKeepTheirOwner'
    <2>1. /\ fTriggersAwaitingHandling' = fTriggersAwaitingHandling \ id[c]
          /\ fTriggeredEventClientDatas' =
               [i \in Triggers |-> IF i \in id[c] THEN NULL ELSE fTriggeredEventClientDatas[i]]
          /\ id' = [id EXCEPT ![c] = {}] /\ owed' = owed \ {c}
      BY <1>0, <1>4, DeletedIsOwn DEF DeleteEventTrigger
    <2>2. \A d \in owed' : d \in Clients /\ d # c /\ id'[d] = id[d] /\ id[d] \subseteq Triggers
                          /\ id[d] \cap id[c] = {}
      BY <1>0, <1>2, <2>1 DEF TypeOK
    <2>3. UNION {id'[d] : d \in owed'} = (UNION {id[d] : d \in owed}) \ id[c]
      <3>1. UNION {id'[d] : d \in owed'} = UNION {id[d] : d \in owed'}
        BY <2>2
      <3>2. QED BY <2>1, <2>2, <3>1
    <2>4. \A d \in owed' : id'[d] # {} /\ \A j \in id'[d] : fTriggeredEventClientDatas'[j] = d
      BY <1>1, <2>1, <2>2
    <2>5. QED BY <1>1, <2>1, <2>3, <2>4 DEF EventsKeepTheirOwner
  <1>5. ASSUME NEW c \in Clients, TriggerEvent(c) PROVE EventsKeepTheirOwner'
    <2>1. /\ fTriggeredEventClientDatas' =
               [i \in Triggers |-> IF i \in id[c] THEN c ELSE fTriggeredEventClientDatas[i]]
          /\ fTriggersAwaitingHandling' = fTriggersAwaitingHandling \cup id[c]
          /\ owed' = owed \cup {c} /\ id' = id /\ id[c] # {}
      BY <1>5 DEF TriggerEvent
    <2>2. UNION {id'[d] : d \in owed'} = (UNION {id[d] : d \in owed}) \cup id[c]
      BY <2>1
    <2>3. \A d \in owed' : id'[d] # {} /\ \A j \in id'[d] : fTriggeredEventClientDatas'[j] = d
      BY <1>0, <1>1, <1>2, <2>1 DEF TypeOK
    <2>4. QED BY <1>1, <2>1, <2>2, <2>3 DEF EventsKeepTheirOwner
  \* The event of the trigger that is called belongs to one client.
  <1>6. ASSUME NEW i \in fTriggersAwaitingHandling,
               fTriggersAwaitingHandling' = fTriggersAwaitingHandling \ {i},
               CallTriggerHandler(i)
        PROVE  EventsKeepTheirOwner'
    <2>1. PICK c \in owed : id[c] = {i} /\ fTriggeredEventClientDatas[i] = c
      <3>1. PICK c \in owed : i \in id[c]
        BY <1>1
      <3>2. c \in Clients
        BY <1>0, <3>1 DEF TypeOK
      <3>3. id[c] = {i}
        BY <1>0, <3>1, <3>2, IdFacts
      <3>4. QED BY <1>1, <3>1, <3>3
    <2>2. /\ owed' = owed \ {c} /\ UNCHANGED <<id, fTriggeredEventClientDatas>>
      BY <1>6, <2>1 DEF CallTriggerHandler
    <2>3. \A d \in owed' : i \notin id[d]
      BY <1>0, <1>2, <2>1, <2>2 DEF TypeOK
    <2>4. UNION {id'[d] : d \in owed'} = (UNION {id[d] : d \in owed}) \ {i}
      BY <2>1, <2>2, <2>3
    <2>5. QED BY <1>1, <1>6, <2>2, <2>4 DEF EventsKeepTheirOwner
  <1>7. CASE CallLastUsedTrigger
    <2>1. fTriggersAwaitingHandling = {fLastUsedTriggerNum}
      BY <1>0, <1>7 DEF CallLastUsedTrigger, TriggersAgree
    <2>2. QED BY <1>6, <1>7, <2>1 DEF CallLastUsedTrigger
  <1>8. CASE CallNextTrigger
    <2>1. PICK i \in Triggers :
            /\ FirstAfterLast(i, {j \in Triggers : fTriggersAwaitingHandling \cap MaskAt(j) # {}})
            /\ fTriggersAwaitingHandling' = fTriggersAwaitingHandling \ MaskAt(i)
            /\ CallTriggerHandler(i)
      BY <1>8 DEF CallNextTrigger
    <2>2. MaskAt(i) = {i}
      BY <1>0, <2>1, MaskOfNumber DEF TriggersAgree
    <2>3. i \in fTriggersAwaitingHandling
      BY <2>1, <2>2 DEF FirstAfterLast
    <2>4. QED BY <1>6, <2>1, <2>2, <2>3
  <1>9. CASE UNCHANGED <<triggerVars>>
    BY <1>1, <1>9 DEF EventsKeepTheirOwner, triggerVars
  <1>10. Select \/ SelectFails \/ CallSocketHandler \/ NoSocketHandler \/ SocketHandlerReturns
          \/ NoTrigger \/ TriggerHandlerReturns \/ UNCHANGED vars => UNCHANGED <<triggerVars>>
    BY DEF Select, SelectFails, CallSocketHandler, NoSocketHandler, SocketHandlerReturns,
           NoTrigger, TriggerHandlerReturns, vars
  <1>11. ASSUME NEW s \in Sockets,
               \/ ClearHandling(s)
               \/ \E cs \in ConditionSets : AssignHandling(s, cs)
               \/ \E t \in Sockets : MoveHandling(s, t)
        PROVE  UNCHANGED <<triggerVars>>
    BY <1>11 DEF ClearHandling, AssignHandling, MoveHandling
  <1>12. QED BY <1>3, <1>4, <1>5, <1>7, <1>8, <1>9, <1>10, <1>11 DEF Next, SingleStep, Calls

\* Exactly the events that were raised and neither handled nor deleted await
\* handling, and each reaches the client that raised it and nobody else.
THEOREM EventsReachTheirOwner == Spec => []EventsKeepTheirOwner
  <1>1. Init => EventsKeepTheirOwner
    BY DEF Init, EventsKeepTheirOwner
  <1>2. SchedulerInv /\ EventsKeepTheirOwner /\ [Next]_vars => EventsKeepTheirOwner'
    BY EventsInductive
  <1>3. QED BY <1>1, <1>2, SchedulerAgrees, PTL DEF Spec
=============================================================================
