---------------------------- MODULE TaskScheduler ----------------------------
(***************************************************************************)
(* BasicTaskScheduler: the handlers of sockets and the event triggers, and *)
(* the SingleStep that the event loop repeats: select, at most one socket  *)
(* handler, at most one trigger handler, at most one delayed task (whose   *)
(* list is the module DelayQueue).                                         *)
(*                                                                         *)
(* One thread runs all of this.  Handlers, delayed tasks and the code      *)
(* around the loop call the scheduler back: they register, move and clear  *)
(* sockets and create, raise and delete event triggers.  A handler does    *)
(* not run the event loop itself.                                          *)
(*                                                                         *)
(* An EventTriggerId and the word of awaiting triggers are sets of trigger *)
(* numbers: number i stands for the bit 0x80000000 >> i.                   *)
(***************************************************************************)
EXTENDS Integers, SequencesExt

CONSTANTS Sockets,         \* socket numbers
          ConditionSets,   \* what a handler may be registered for
          MAX_NUM_EVENT_TRIGGERS,
          Clients,         \* those who create, raise and delete event triggers
          NULL

ASSUME SchedulerAssumption ==
  /\ Sockets \subseteq Nat
  /\ {} \notin ConditionSets
  /\ MAX_NUM_EVENT_TRIGGERS \in Nat \ {0}
  /\ NULL \notin Clients

Conditions == UNION ConditionSets
Triggers   == 0 .. MAX_NUM_EVENT_TRIGGERS - 1

VARIABLES
  pc,                     \* idle, socket, socketHandler, trigger, triggerHandler
  fHandlers,              \* the list of the handler set, front first
  fds,                    \* fReadSet, fWriteSet, fExceptionSet
  fMaxNumSockets,
  fLastHandledSocketNum,
  fDummySocket,           \* fReadSet holds the dummy socket of Windows
  selected,               \* the copies that select has filled in
  fTriggeredEventHandlers, fTriggeredEventClientDatas,
  fTriggersAwaitingHandling,
  fLastUsedTriggerMask, fLastUsedTriggerNum,
  handling,               \* number and mask of the trigger the search has found
  id,                     \* the EventTriggerId each client holds, {} for 0
  owed                    \* history: clients that raised and were not called

socketVars  == <<fHandlers, fds, fMaxNumSockets, fDummySocket>>
triggerVars == <<fTriggeredEventHandlers, fTriggeredEventClientDatas,
                 fTriggersAwaitingHandling, id, owed>>
lastVars    == <<fLastUsedTriggerMask, fLastUsedTriggerNum>>
vars == <<pc, socketVars, fLastHandledSocketNum, selected, triggerVars, lastVars, handling>>

TypeOK ==
  /\ pc \in {"idle", "socket", "socketHandler", "trigger", "triggerHandler"}
  /\ fHandlers \in Seq([socketNum : Sockets, conditionSet : ConditionSets])
  /\ fds \in [Conditions -> SUBSET Sockets] /\ selected \in [Conditions -> SUBSET Sockets]
  /\ fMaxNumSockets \in Nat
  /\ fLastHandledSocketNum \in Sockets \cup {-1}
  /\ fDummySocket \in BOOLEAN
  /\ fTriggeredEventHandlers \in [Triggers -> Clients \cup {NULL}]
  /\ fTriggeredEventClientDatas \in [Triggers -> Clients \cup {NULL}]
  /\ fTriggersAwaitingHandling \subseteq Triggers
  /\ fLastUsedTriggerMask \subseteq Triggers /\ fLastUsedTriggerNum \in Triggers
  /\ handling \in [num : Triggers \cup {-1}, mask : SUBSET Triggers]
  /\ id \in [Clients -> SUBSET Triggers] /\ owed \subseteq Clients

None     == [c \in Conditions |-> {}]
NotFound == [num |-> -1, mask |-> {}]

Init ==
  /\ pc = "idle"
  /\ fHandlers = <<>> /\ fds = None /\ fMaxNumSockets = 0
  /\ fLastHandledSocketNum = -1 /\ fDummySocket = FALSE /\ selected = None
  /\ fTriggeredEventHandlers = [i \in Triggers |-> NULL]
  /\ fTriggeredEventClientDatas = [i \in Triggers |-> NULL]
  /\ fTriggersAwaitingHandling = {} /\ handling = NotFound
  /\ fLastUsedTriggerMask = {MAX_NUM_EVENT_TRIGGERS - 1}
  /\ fLastUsedTriggerNum = MAX_NUM_EVENT_TRIGGERS - 1
  /\ id = [c \in Clients |-> {}] /\ owed = {}

\* The scheduler is called from handlers and from around the loop.
Calling == pc \in {"idle", "socketHandler", "triggerHandler"}

-----------------------------------------------------------------------------
(* Sockets.                                                                *)

Registered == {fHandlers[p].socketNum : p \in DOMAIN fHandlers}

MaxOf(a, b) == IF a > b THEN a ELSE b

\* setBackgroundHandling with conditions: an entry is changed where it stands,
\* a new one goes to the front.
AssignHandling(s, conditionSet) ==
  /\ Calling
  /\ LET d == [socketNum |-> s, conditionSet |-> conditionSet]
     IN fHandlers' = IF s \in Registered
                       THEN [p \in DOMAIN fHandlers |->
                               IF fHandlers[p].socketNum = s THEN d ELSE fHandlers[p]]
                       ELSE <<d>> \o fHandlers
  /\ fds' = [c \in Conditions |-> IF c \in conditionSet THEN fds[c] \cup {s} ELSE fds[c] \ {s}]
  /\ fMaxNumSockets' = MaxOf(fMaxNumSockets, s + 1)
  /\ UNCHANGED <<pc, fDummySocket, fLastHandledSocketNum, selected, triggerVars, lastVars, handling>>

\* clearHandler takes the entry of the socket, if it has one, out of the list.
Unlinked(s) ==
  \/ s \notin Registered /\ fHandlers' = fHandlers
  \/ \E p \in DOMAIN fHandlers :
       fHandlers[p].socketNum = s /\ fHandlers' = RemoveAt(fHandlers, p)

\* Mutant: fMaxNumSockets goes down whichever socket is cleared.
ClearHandlingCountingDown(s) ==
  /\ Calling
  /\ Unlinked(s)
  /\ fds' = [c \in Conditions |-> fds[c] \ {s}]
  /\ fMaxNumSockets' = IF s \in Registered THEN fMaxNumSockets - 1 ELSE fMaxNumSockets
  /\ UNCHANGED <<pc, fDummySocket, fLastHandledSocketNum, selected, triggerVars, lastVars, handling>>

\* setBackgroundHandling with no condition, for a socket registered or not.
ClearHandling(s) ==
  /\ Calling
  /\ Unlinked(s)
  /\ fds' = [c \in Conditions |-> fds[c] \ {s}]
  /\ fMaxNumSockets' = IF s + 1 = fMaxNumSockets THEN fMaxNumSockets - 1 ELSE fMaxNumSockets
  /\ UNCHANGED <<pc, fDummySocket, fLastHandledSocketNum, selected, triggerVars, lastVars, handling>>

\* moveSocketHandling, to a new socket that has no handler yet (Socket::changePort
\* has just opened it), or to the same number.
MoveHandling(old, new) ==
  /\ Calling
  /\ new \notin Registered \/ new = old
  /\ fHandlers' = [p \in DOMAIN fHandlers |->
                     IF fHandlers[p].socketNum = old
                       THEN [fHandlers[p] EXCEPT !.socketNum = new] ELSE fHandlers[p]]
  /\ fds' = [c \in Conditions |-> IF old \in fds[c] THEN (fds[c] \ {old}) \cup {new} ELSE fds[c]]
  /\ fMaxNumSockets' =
       MaxOf(IF old + 1 = fMaxNumSockets THEN fMaxNumSockets - 1 ELSE fMaxNumSockets, new + 1)
  /\ UNCHANGED <<pc, fDummySocket, fLastHandledSocketNum, selected, triggerVars, lastVars, handling>>

-----------------------------------------------------------------------------
(* Event triggers.                                                         *)

\* How far i lies behind the last used trigger, from 1 to all the way round.
Distance(i) ==
  IF i > fLastUsedTriggerNum THEN i - fLastUsedTriggerNum
  ELSE i + MAX_NUM_EVENT_TRIGGERS - fLastUsedTriggerNum

\* The number the search finds first among those in set.
FirstAfterLast(i, set) == i \in set /\ \A j \in set : Distance(i) <= Distance(j)

\* The last mask shifted to the right as often as the search advances to reach i.
\* A mask of one bit that becomes 0 starts again at the top.
MaskAt(i) ==
  LET Shifted(j) == IF j < MAX_NUM_EVENT_TRIGGERS THEN j ELSE j - MAX_NUM_EVENT_TRIGGERS
  IN {Shifted(j + Distance(i)) : j \in fLastUsedTriggerMask}

\* createEventTrigger, by a client that holds none: 0 if all are in use.
CreateEventTrigger(c) ==
  /\ Calling /\ id[c] = {}
  /\ LET free == {i \in Triggers : fTriggeredEventHandlers[i] = NULL}
     IN \E i \in Triggers :
          /\ FirstAfterLast(i, free)
          /\ fTriggeredEventHandlers' = [fTriggeredEventHandlers EXCEPT ![i] = c]
          /\ fTriggeredEventClientDatas' = [fTriggeredEventClientDatas EXCEPT ![i] = NULL]
          /\ fLastUsedTriggerMask' = MaskAt(i) /\ fLastUsedTriggerNum' = i
          /\ id' = [id EXCEPT ![c] = MaskAt(i)]
  /\ UNCHANGED <<pc, socketVars, fLastHandledSocketNum, selected, fTriggersAwaitingHandling,
                 owed, handling>>

\* Mutant: the bit of an event that was not handled yet stays up.
DeleteEventTriggerLeavingEvent(c) ==
  /\ Calling
  /\ LET gone == IF id[c] = fLastUsedTriggerMask THEN {fLastUsedTriggerNum} ELSE id[c]
     IN /\ fTriggeredEventHandlers' =
             [i \in Triggers |-> IF i \in gone THEN NULL ELSE fTriggeredEventHandlers[i]]
        /\ fTriggeredEventClientDatas' =
             [i \in Triggers |-> IF i \in gone THEN NULL ELSE fTriggeredEventClientDatas[i]]
  /\ id' = [id EXCEPT ![c] = {}] /\ owed' = owed \ {c}
  /\ UNCHANGED <<pc, socketVars, fLastHandledSocketNum, selected, fTriggersAwaitingHandling,
                 lastVars, handling>>

\* deleteEventTrigger, also of the id 0.  The id that was used last is taken to
\* belong to the number that was used last.
DeleteEventTrigger(c) ==
  /\ Calling
  /\ fTriggersAwaitingHandling' = fTriggersAwaitingHandling \ id[c]
  /\ LET gone == IF id[c] = fLastUsedTriggerMask THEN {fLastUsedTriggerNum} ELSE id[c]
     IN /\ fTriggeredEventHandlers' =
             [i \in Triggers |-> IF i \in gone THEN NULL ELSE fTriggeredEventHandlers[i]]
        /\ fTriggeredEventClientDatas' =
             [i \in Triggers |-> IF i \in gone THEN NULL ELSE fTriggeredEventClientDatas[i]]
  /\ id' = [id EXCEPT ![c] = {}] /\ owed' = owed \ {c}
  /\ UNCHANGED <<pc, socketVars, fLastHandledSocketNum, selected, lastVars, handling>>

\* triggerEvent, called by the scheduler's own thread.
TriggerEvent(c) ==
  /\ Calling /\ id[c] # {}
  /\ fTriggeredEventClientDatas' =
       [i \in Triggers |-> IF i \in id[c] THEN c ELSE fTriggeredEventClientDatas[i]]
  /\ fTriggersAwaitingHandling' = fTriggersAwaitingHandling \cup id[c]
  /\ owed' = owed \cup {c}
  /\ UNCHANGED <<pc, socketVars, fLastHandledSocketNum, selected, fTriggeredEventHandlers,
                 lastVars, handling, id>>

-----------------------------------------------------------------------------
(* SingleStep.                                                             *)

\* select reports some of the sockets below nfds that it was asked about.
Select ==
  /\ pc = "idle" /\ pc' = "socket"
  /\ \E s \in SUBSET {t \in Registered : t < fMaxNumSockets} :
       selected' = [c \in Conditions |-> fds[c] \cap s]
  /\ UNCHANGED <<socketVars, fLastHandledSocketNum, triggerVars, lastVars, handling>>

\* Windows refuses a select without sockets to read from: a dummy socket is added
\* to fReadSet.  What the other sets then hold is not defined.
SelectFails ==
  /\ pc = "idle" /\ pc' = "socket"
  /\ "read" \in Conditions /\ fds["read"] = {} /\ ~fDummySocket
  /\ fDummySocket' = TRUE
  /\ \E s \in SUBSET Registered : selected' = [c \in Conditions |-> fds[c] \cap s]
  /\ UNCHANGED <<fHandlers, fds, fMaxNumSockets, fLastHandledSocketNum, triggerVars, lastVars,
                 handling>>

\* The handler is wanted: a condition it is registered for has come true.
Wanted(p) ==
  \E c \in fHandlers[p].conditionSet : fHandlers[p].socketNum \in selected[c] \cap fds[c]

\* Mutant: the search always starts at the front.
RankFromFront(p) == p

\* The place of a handler in the search, which starts past the last one handled,
\* or at the front when that is no longer there.
Rank(p) ==
  LET last == {q \in DOMAIN fHandlers : fHandlers[q].socketNum = fLastHandledSocketNum}
  IN IF \E q \in last : p <= q THEN p + Len(fHandlers) ELSE p

CallSocketHandler ==
  /\ pc = "socket" /\ pc' = "socketHandler"
  /\ \E p \in DOMAIN fHandlers :
       /\ Wanted(p)
       /\ \A q \in DOMAIN fHandlers : Wanted(q) => Rank(p) <= Rank(q)
       /\ fLastHandledSocketNum' = fHandlers[p].socketNum
  /\ selected' = None
  /\ UNCHANGED <<socketVars, triggerVars, lastVars, handling>>

NoSocketHandler ==
  /\ pc = "socket" /\ pc' = "trigger"
  /\ \A p \in DOMAIN fHandlers : ~Wanted(p)
  /\ fLastHandledSocketNum' = -1 /\ selected' = None
  /\ UNCHANGED <<socketVars, triggerVars, lastVars, handling>>

SocketHandlerReturns ==
  /\ pc = "socketHandler" /\ pc' = "trigger"
  /\ UNCHANGED <<socketVars, fLastHandledSocketNum, selected, triggerVars, lastVars, handling>>

\* The handler of trigger number i is called, if there is one.
CallTriggerHandler(i) ==
  /\ pc' = "triggerHandler"
  /\ owed' = owed \ {fTriggeredEventClientDatas[i]}
  /\ UNCHANGED <<socketVars, fLastHandledSocketNum, selected, fTriggeredEventHandlers,
                 fTriggeredEventClientDatas, lastVars, id>>

\* One trigger awaits handling, the one that was used last.
CallLastUsedTrigger ==
  /\ pc = "trigger"
  /\ fTriggersAwaitingHandling # {} /\ fTriggersAwaitingHandling = fLastUsedTriggerMask
  /\ fTriggersAwaitingHandling' = {} /\ handling' = NotFound
  /\ CallTriggerHandler(fLastUsedTriggerNum)

\* Mutant: the search for an awaiting trigger always starts at number 0.
CallNextTriggerFromTop ==
  /\ pc = "trigger"
  /\ fTriggersAwaitingHandling # {} /\ fTriggersAwaitingHandling # fLastUsedTriggerMask
  /\ \E i \in Triggers :
       /\ i \in fTriggersAwaitingHandling /\ \A j \in fTriggersAwaitingHandling : i <= j
       /\ fTriggersAwaitingHandling' = fTriggersAwaitingHandling \ {i}
       /\ handling' = [num |-> i, mask |-> {i}]
       /\ CallTriggerHandler(i)

\* Otherwise the next one after that is searched for, by its mask.
CallNextTrigger ==
  /\ pc = "trigger"
  /\ fTriggersAwaitingHandling # {} /\ fTriggersAwaitingHandling # fLastUsedTriggerMask
  /\ \E i \in Triggers :
       /\ FirstAfterLast(i, {j \in Triggers : fTriggersAwaitingHandling \cap MaskAt(j) # {}})
       /\ fTriggersAwaitingHandling' = fTriggersAwaitingHandling \ MaskAt(i)
       /\ handling' = [num |-> i, mask |-> MaskAt(i)]
       /\ CallTriggerHandler(i)

NoTrigger ==
  /\ pc = "trigger" /\ pc' = "idle"
  /\ fTriggersAwaitingHandling = {}
  /\ UNCHANGED <<socketVars, fLastHandledSocketNum, selected, triggerVars, lastVars, handling>>

\* The trigger that was found counts as the last used one, whatever triggers
\* its handler has created.  A delayed task may follow.
TriggerHandlerReturns ==
  /\ pc = "triggerHandler" /\ pc' = "idle"
  /\ IF handling = NotFound THEN UNCHANGED lastVars
     ELSE fLastUsedTriggerMask' = handling.mask /\ fLastUsedTriggerNum' = handling.num
  /\ handling' = NotFound
  /\ UNCHANGED <<socketVars, fLastHandledSocketNum, selected, triggerVars>>

SingleStep == Select \/ SelectFails \/ CallSocketHandler \/ NoSocketHandler
                \/ SocketHandlerReturns \/ CallLastUsedTrigger \/ CallNextTrigger \/ NoTrigger
                \/ TriggerHandlerReturns

Calls == \/ \E s \in Sockets : \/ ClearHandling(s)
                               \/ \E cs \in ConditionSets : AssignHandling(s, cs)
                               \/ \E t \in Sockets : MoveHandling(s, t)
         \/ \E c \in Clients : CreateEventTrigger(c) \/ DeleteEventTrigger(c) \/ TriggerEvent(c)

Next == SingleStep \/ Calls

Spec == Init /\ [][Next]_vars

\* The event loop goes on, and the handlers it calls return.
FairSpec == Spec /\ WF_vars(SingleStep)

-----------------------------------------------------------------------------
\* What the handler set, the descriptor sets, fMaxNumSockets, the last used
\* trigger and the clients' ids say of each other: a socket has one handler, lies
\* below the number given to select and is asked about for just the conditions it
\* is registered for; the last mask is the bit of the last number; an id that a
\* client holds is one bit, of a trigger that is its own.
SocketsAgree ==
  /\ \A p, q \in DOMAIN fHandlers : fHandlers[p].socketNum = fHandlers[q].socketNum => p = q
  /\ \A p \in DOMAIN fHandlers :
       /\ fHandlers[p].socketNum < fMaxNumSockets
       /\ \A c \in Conditions :
            fHandlers[p].socketNum \in fds[c] <=> c \in fHandlers[p].conditionSet
  /\ \A c \in Conditions : fds[c] \subseteq Registered

TriggersAgree ==
  /\ fLastUsedTriggerMask = {fLastUsedTriggerNum}
  /\ handling = NotFound \/ handling.mask = {handling.num}
  /\ \A i \in Triggers, c \in Clients : fTriggeredEventHandlers[i] = c <=> i \in id[c]
  /\ \A c \in Clients, i, j \in Triggers : i \in id[c] /\ j \in id[c] => i = j

SchedulerInv == TypeOK /\ SocketsAgree /\ TriggersAgree

\* An event belongs to the client that raised it: exactly the events that were
\* raised and neither handled nor deleted are awaiting handling, each with its
\* client's data and handler.  A trigger number that is deleted and created again
\* brings its new owner no event of the old one.
EventsKeepTheirOwner ==
  /\ fTriggersAwaitingHandling = UNION {id[c] : c \in owed}
  /\ \A c \in owed : id[c] # {} /\ \A i \in id[c] : fTriggeredEventClientDatas[i] = c

\* Every event that is raised is handled or deleted, unless clients go on creating
\* triggers for ever (which moves the place where the search starts).
EventsAreHandled ==
  <>[][\A c \in Clients : ~CreateEventTrigger(c)]_vars => \A c \in Clients : []<>(c \notin owed)

\* "To ensure forward progress through the handlers, begin past the last socket
\* number that we handled": a socket that select reports every time is handled
\* again and again, however many others are ready, provided that from some time
\* on no handler is removed (a removed handler comes back at the front).
Reported(s) ==
  pc = "socket" => \E p \in DOMAIN fHandlers : fHandlers[p].socketNum = s /\ Wanted(p)

SocketsAreHandled ==
  <>[][Registered \subseteq Registered']_vars =>
    \A s \in Sockets :
      <>[]Reported(s) => []<>(pc = "socketHandler" /\ fLastHandledSocketNum = s)
=============================================================================
