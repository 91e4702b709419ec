---------------------------- MODULE StreamServer ----------------------------
(***************************************************************************)
(* The server process of Server/Server.cpp: the threads main, accept and   *)
(* deque, and for every "Start" that is handled a Record and a Stream      *)
(* thread, which share the message queue, the two stop flags and the       *)
(* global pointers to the streaming objects.                               *)
(*                                                                         *)
(* A session is one handled Start.  Threads are named by the session that  *)
(* created them, but they reach the streaming objects through the globals, *)
(* which always point at the objects of the latest session (cur).  Using   *)
(* an object that is not alive is undefined behaviour in the program; the  *)
(* model lets the thread go on and the properties say when it can happen.  *)
(*                                                                         *)
(* The TCP connection is a sequence of commands on the wire.  One recv may *)
(* return several of them, or a part of one: what is left of a command     *)
(* whose first bytes have been read is the fragment Rest.                  *)
(***************************************************************************)
EXTENDS Integers, Sequences

CONSTANTS MaxMsgs,    \* bound: commands the client sends in a behaviour
          MaxStarts   \* bound: Start commands among them, hence sessions

ASSUME BoundsAssumption == MaxMsgs \in Nat /\ MaxStarts \in Nat

Actions  == {"Check", "Start", "Stop"}
Rest     == "Rest"
Sessions == 1 .. MaxStarts
Kinds    == {"vid", "aud"}

\* The order in which UnInitialize releases what the globals point at.
Teardown == <<"sinkVid", "sinkAud", "srcVid", "srcAud",
              "gsVid", "gsAud", "scheduler", "environment">>
Objects  == {"sinkVid", "sinkAud", "srcVid", "srcAud",
             "gsVid", "gsAud", "scheduler", "environment"}

VARIABLES
  conn,           \* the client's connection: none, open, closed
  wire,           \* bytes sent by the client and not yet received
  sent,           \* how many commands, and Starts, the client has sent
  main, accept, deque,      \* program counters of the three server threads
  root,           \* Root: the command the accept thread has parsed
  dropped,        \* history: a command was read off the wire and thrown away
  messageQueue,   \* the commands waiting for the deque thread
  queueLive,      \* messageQueue has not been deleted
  action,         \* ActionRoot
  handlerRecord,  \* the session whose Record thread deque waits for, 0 = NULL
  stopRecord, stopEventLoop,
  session,        \* number of sessions initialized so far
  cur,            \* the session whose objects the global pointers name
  alive,          \* per session, the objects that exist
  hasQueue,       \* per session, the live sources whose myQueue was allocated
  refCount,       \* m_referenceCount of the two live source classes
  trigger,        \* m_eventTriggerId: the session whose scheduler knows it
  record, torn,   \* per session, pc of Record, and how far UnInitialize got
  stream, bound   \* per session, pc of Stream, and whose scheduler it runs

netVars   == <<conn, wire, sent>>
queueVars == <<messageQueue, queueLive>>
ctlVars   == <<main, accept, deque, root, dropped, action, handlerRecord>>
flagVars  == <<stopRecord, stopEventLoop>>
objVars   == <<session, cur, alive, hasQueue, refCount, trigger>>
recVars   == <<record, torn>>
strVars   == <<stream, bound>>
vars      == <<netVars, queueVars, ctlVars, flagVars, objVars, recVars, strVars>>

RecordLoop == {"test", "video", "audio", "trigVid", "trigAud"}

TypeOK ==
  /\ conn \in {"none", "open", "closed"}
  /\ wire \in Seq(Actions \cup {Rest})
  /\ sent \in [msgs : Nat, starts : Nat]
  /\ main \in {"listen", "accept", "waitAccept", "waitDeque", "free", "down"}
  /\ accept \in {"none", "recv", "push", "done"}
  /\ deque \in {"none", "pop", "init", "record", "stream", "stop", "wait", "done"}
  /\ root \in Actions /\ action \in Actions
  /\ messageQueue \in Seq(Actions)
  /\ dropped \in BOOLEAN /\ queueLive \in BOOLEAN
  /\ stopRecord \in BOOLEAN /\ stopEventLoop \in BOOLEAN
  /\ session \in 0 .. MaxStarts /\ cur \in 0 .. session
  /\ handlerRecord \in 0 .. session
  /\ alive \in [Sessions -> SUBSET Objects]
  /\ hasQueue \in [Sessions -> SUBSET Kinds]
  /\ refCount \in [Kinds -> Int] /\ trigger \in [Kinds -> 0 .. MaxStarts]
  /\ record \in [Sessions -> {"none", "media", "failed", "teardown", "reset",
                              "done"} \cup RecordLoop]
  /\ torn \in [Sessions -> 0 .. 8]
  /\ stream \in [Sessions -> {"none", "playVid", "playAud", "loop", "stopVid",
                              "stopAud", "flag", "done"}]
  /\ bound \in [Sessions -> 0 .. MaxStarts]

Init ==
  /\ conn = "none" /\ wire = <<>> /\ sent = [msgs |-> 0, starts |-> 0]
  /\ main = "listen" /\ accept = "none" /\ deque = "none"
  /\ root = "Check" /\ action = "Check" /\ dropped = FALSE
  /\ messageQueue = <<>> /\ queueLive = TRUE
  /\ handlerRecord = 0 /\ stopRecord = FALSE /\ stopEventLoop = FALSE
  /\ session = 0 /\ cur = 0
  /\ alive = [s \in Sessions |-> {}] /\ hasQueue = [s \in Sessions |-> {}]
  /\ refCount = [k \in Kinds |-> 0] /\ trigger = [k \in Kinds |-> 0]
  /\ record = [s \in Sessions |-> "none"] /\ torn = [s \in Sessions |-> 0]
  /\ stream = [s \in Sessions |-> "none"] /\ bound = [s \in Sessions |-> 0]

\* When main returns the process exits and takes every thread with it.
Running == main # "down"

-----------------------------------------------------------------------------
(* The client at the other end of the connection (external).               *)

ClientConnect ==
  /\ conn = "none" /\ main # "listen" /\ Running
  /\ conn' = "open"
  /\ UNCHANGED <<wire, sent, queueVars, ctlVars, flagVars, objVars, recVars, strVars>>

ClientSend(m) ==
  /\ conn = "open" /\ Running /\ sent.msgs < MaxMsgs
  /\ m = "Start" => sent.starts < MaxStarts
  /\ wire' = Append(wire, m)
  /\ sent' = [msgs   |-> sent.msgs + 1,
              starts |-> sent.starts + (IF m = "Start" THEN 1 ELSE 0)]
  /\ UNCHANGED <<conn, queueVars, ctlVars, flagVars, objVars, recVars, strVars>>

\* The client ends: orderly, or by a reset that discards what is in flight.
ClientClose ==
  /\ conn = "open" /\ Running
  /\ conn' = "closed" /\ wire' \in {wire, <<>>}
  /\ UNCHANGED <<sent, queueVars, ctlVars, flagVars, objVars, recVars, strVars>>

-----------------------------------------------------------------------------
(* Thread main.                                                            *)

MainListen ==
  /\ main = "listen" /\ deque = "none"
  /\ main' = "accept" /\ deque' = "pop"
  /\ UNCHANGED <<netVars, queueVars, accept, root, dropped, action, handlerRecord,
                 flagVars, objVars, recVars, strVars>>

MainAccept ==
  /\ main = "accept" /\ conn # "none"
  /\ main' = "waitAccept" /\ accept' = "recv"
  /\ UNCHANGED <<netVars, queueVars, deque, root, dropped, action, handlerRecord,
                 flagVars, objVars, recVars, strVars>>

\* accept() fails: main goes straight to "Server is down".
MainAcceptFails ==
  /\ main = "accept"
  /\ main' = "down"
  /\ UNCHANGED <<netVars, queueVars, accept, deque, root, dropped, action,
                 handlerRecord, flagVars, objVars, recVars, strVars>>

MainWaitAccept ==
  /\ main = "waitAccept" /\ accept = "done"
  /\ main' = "waitDeque"
  /\ UNCHANGED <<netVars, queueVars, accept, deque, root, dropped, action,
                 handlerRecord, flagVars, objVars, recVars, strVars>>

\* Mutant: main does not wait for the deque thread.
MainDoesNotWaitDeque ==
  /\ main = "waitDeque"
  /\ main' = "free" /\ queueLive' = FALSE
  /\ UNCHANGED <<netVars, messageQueue, accept, deque, root, dropped, action,
                 handlerRecord, flagVars, objVars, recVars, strVars>>

MainWaitDeque ==
  /\ main = "waitDeque" /\ deque = "done"
  /\ main' = "free" /\ queueLive' = FALSE
  /\ UNCHANGED <<netVars, messageQueue, accept, deque, root, dropped, action,
                 handlerRecord, flagVars, objVars, recVars, strVars>>

MainReturn ==
  /\ main = "free"
  /\ main' = "down"
  /\ UNCHANGED <<netVars, queueVars, accept, deque, root, dropped, action,
                 handlerRecord, flagVars, objVars, recVars, strVars>>

-----------------------------------------------------------------------------
(* Thread accept.                                                          *)

\* Mutant: a failed parse is not noticed.
AcceptRecvUnchecked(n, split) ==
  /\ accept = "recv" /\ Running
  /\ n + (IF split THEN 1 ELSE 0) \in 1 .. Len(wire)
  /\ wire' = IF split THEN <<Rest>> \o SubSeq(wire, n + 2, Len(wire))
                      ELSE SubSeq(wire, n + 1, Len(wire))
  /\ root' = wire[1] /\ accept' = "push"
  /\ UNCHANGED <<conn, sent, queueVars, main, deque, dropped, action, handlerRecord,
                 flagVars, objVars, recVars, strVars>>

\* recv returns n whole items of the wire and, with split, the first bytes of
\* the next one.  The parser looks at the front of what was read, takes one
\* JSON value from it and discards the rest of the stream; when the front is
\* not a complete value everything that was read is discarded.
AcceptRecv(n, split) ==
  /\ accept = "recv" /\ Running
  /\ n + (IF split THEN 1 ELSE 0) \in 1 .. Len(wire)
  /\ wire' = IF split THEN <<Rest>> \o SubSeq(wire, n + 2, Len(wire))
                      ELSE SubSeq(wire, n + 1, Len(wire))
  /\ IF n > 0 /\ wire[1] # Rest
       THEN root' = wire[1] /\ accept' = "push"
       ELSE UNCHANGED <<root, accept>>
  /\ dropped' = (dropped \/ split \/ n > 1)
  /\ UNCHANGED <<conn, sent, queueVars, main, deque, action, handlerRecord,
                 flagVars, objVars, recVars, strVars>>

\* recv returns 0 or an error: the socket is closed and the thread ends.
AcceptEnd ==
  /\ accept = "recv" /\ Running
  /\ conn = "closed" /\ wire = <<>>
  /\ accept' = "done"
  /\ UNCHANGED <<netVars, queueVars, main, deque, root, dropped, action,
                 handlerRecord, flagVars, objVars, recVars, strVars>>

\* Push under the lock; a Check is also answered, a Stop ends the thread.
AcceptPush ==
  /\ accept = "push" /\ Running
  /\ messageQueue' = Append(messageQueue, root)
  /\ accept' = IF root = "Stop" THEN "done" ELSE "recv"
  /\ UNCHANGED <<netVars, queueLive, main, deque, root, dropped, action,
                 handlerRecord, flagVars, objVars, recVars, strVars>>

-----------------------------------------------------------------------------
(* Thread deque.                                                           *)

DequePop ==
  /\ deque = "pop" /\ Running
  /\ messageQueue # <<>>
  /\ action' = Head(messageQueue)
  /\ messageQueue' = Tail(messageQueue)
  /\ deque' = CASE Head(messageQueue) = "Start" -> "init"
                [] Head(messageQueue) = "Stop"  -> "stop"
                [] OTHER                        -> "pop"
  /\ UNCHANGED <<netVars, queueLive, main, accept, root, dropped, handlerRecord,
                 flagVars, objVars, recVars, strVars>>

\* The loop goes round while the queue is empty.
DequeIdle ==
  /\ deque = "pop" /\ Running
  /\ messageQueue = <<>>
  /\ UNCHANGED vars

\* Mutant: the reference count is raised before the queue is allocated.
DequeInitializeCountsFirst ==
  /\ deque = "init" /\ Running
  /\ session < MaxStarts
  /\ LET s == session + 1 IN
       /\ session' = s /\ cur' = s
       /\ alive' = [alive EXCEPT ![s] = Objects]
       /\ hasQueue' = [hasQueue EXCEPT ![s] = {k \in Kinds : refCount[k] + 1 = 0}]
       /\ trigger' = [k \in Kinds |-> IF trigger[k] = 0 THEN s ELSE trigger[k]]
  /\ refCount' = [k \in Kinds |-> refCount[k] + 1]
  /\ deque' = "record"
  /\ UNCHANGED <<netVars, queueVars, main, accept, root, dropped, action,
                 handlerRecord, flagVars, recVars, strVars>>

\* Initialize: a scheduler, an environment, groupsocks, sinks and live sources,
\* all new.  A live source allocates its queue only when it is the first of
\* its class, and creates an event trigger only when its class has none.
DequeInitialize ==
  /\ deque = "init" /\ Running
  /\ session < MaxStarts
  /\ LET s == session + 1 IN
       /\ session' = s /\ cur' = s
       /\ alive' = [alive EXCEPT ![s] = Objects]
       /\ hasQueue' = [hasQueue EXCEPT ![s] = {k \in Kinds : refCount[k] = 0}]
       /\ trigger' = [k \in Kinds |-> IF trigger[k] = 0 THEN s ELSE trigger[k]]
  /\ refCount' = [k \in Kinds |-> refCount[k] + 1]
  /\ deque' = "record"
  /\ UNCHANGED <<netVars, queueVars, main, accept, root, dropped, action,
                 handlerRecord, flagVars, recVars, strVars>>

DequeCreateRecord ==
  /\ deque = "record" /\ Running
  /\ record' = [record EXCEPT ![session] = "media"]
  /\ handlerRecord' = session
  /\ deque' = "stream"
  /\ UNCHANGED <<netVars, queueVars, main, accept, root, dropped, action,
                 flagVars, objVars, torn, strVars>>

\* Mutant: a new session starts by clearing the stop flags.
DequeCreateStreamClearing ==
  /\ deque = "stream" /\ Running
  /\ stream' = [stream EXCEPT ![session] = "playVid"]
  /\ deque' = "pop"
  /\ stopRecord' = FALSE /\ stopEventLoop' = FALSE
  /\ UNCHANGED <<netVars, queueVars, main, accept, root, dropped, action,
                 handlerRecord, objVars, recVars, bound>>

DequeCreateStream ==
  /\ deque = "stream" /\ Running
  /\ stream' = [stream EXCEPT ![session] = "playVid"]
  /\ deque' = "pop"
  /\ UNCHANGED <<netVars, queueVars, main, accept, root, dropped, action,
                 handlerRecord, flagVars, objVars, recVars, bound>>

DequeStop ==
  /\ deque = "stop" /\ Running
  /\ stopEventLoop' = TRUE
  /\ deque' = "wait"
  /\ UNCHANGED <<netVars, queueVars, main, accept, root, dropped, action,
                 handlerRecord, stopRecord, objVars, recVars, strVars>>

\* Mutant: the deque thread does not wait for Record.
DequeDoesNotWait ==
  /\ deque = "wait" /\ Running
  /\ deque' = "done"
  /\ UNCHANGED <<netVars, queueVars, main, accept, root, dropped, action,
                 handlerRecord, flagVars, objVars, recVars, strVars>>

\* WaitForSingleObject: returns at once for the NULL handle.
DequeWait ==
  /\ deque = "wait" /\ Running
  /\ handlerRecord # 0 => record[handlerRecord] = "done"
  /\ deque' = "done"
  /\ UNCHANGED <<netVars, queueVars, main, accept, root, dropped, action,
                 handlerRecord, flagVars, objVars, recVars, strVars>>

-----------------------------------------------------------------------------
(* Thread Record of session s.                                             *)

RecordOpensDevices(s) ==
  /\ record[s] = "media" /\ Running
  /\ record' = [record EXCEPT ![s] = "test"]
  /\ UNCHANGED <<netVars, queueVars, ctlVars, flagVars, objVars, torn, strVars>>

\* InitializeSource fails.  The thread sets both flags, one before and one
\* after it frees what it allocated, and returns without UnInitialize.
RecordDeviceFails(s) ==
  /\ record[s] = "media" /\ Running
  /\ stopRecord' = TRUE
  /\ record' = [record EXCEPT ![s] = "failed"]
  /\ UNCHANGED <<netVars, queueVars, ctlVars, stopEventLoop, objVars, torn, strVars>>

\* Mutant: after a device failure Record runs UnInitialize as well.
RecordGivesUpReleasing(s) ==
  /\ record[s] = "failed" /\ Running
  /\ stopEventLoop' = TRUE
  /\ record' = [record EXCEPT ![s] = "teardown"]
  /\ UNCHANGED <<netVars, queueVars, ctlVars, stopRecord, objVars, torn, strVars>>

RecordGivesUp(s) ==
  /\ record[s] = "failed" /\ Running
  /\ stopEventLoop' = TRUE
  /\ record' = [record EXCEPT ![s] = "done"]
  /\ UNCHANGED <<netVars, queueVars, ctlVars, stopRecord, objVars, torn, strVars>>

RecordTest(s) ==
  /\ record[s] = "test" /\ Running
  /\ record' = [record EXCEPT ![s] = IF stopRecord THEN "teardown" ELSE "video"]
  /\ UNCHANGED <<netVars, queueVars, ctlVars, flagVars, objVars, torn, strVars>>

\* The rest of the loop body: a video sample is awaited and pushed, an audio
\* sample is awaited and pushed, the two event triggers are raised.
AfterRecordStep == [video |-> "audio", audio |-> "trigVid",
                    trigVid |-> "trigAud", trigAud |-> "test"]

RecordWork(s) ==
  /\ record[s] \in DOMAIN AfterRecordStep /\ Running
  /\ record' = [record EXCEPT ![s] = AfterRecordStep[record[s]]]
  /\ UNCHANGED <<netVars, queueVars, ctlVars, flagVars, objVars, torn, strVars>>

\* A live source gives up its event trigger when it is the last of its class.
ReleaseSource(o) ==
  LET gone == {k \in Kinds : (k = "vid" /\ o = "srcVid") \/ (k = "aud" /\ o = "srcAud")}
  IN  /\ refCount' = [k \in Kinds |-> IF k \in gone THEN refCount[k] - 1 ELSE refCount[k]]
      /\ trigger'  = [k \in Kinds |-> IF k \in gone /\ refCount[k] = 1 THEN 0 ELSE trigger[k]]

\* UnInitialize releases, one after the other, what the globals point at.
RecordTeardown(s) ==
  /\ record[s] = "teardown" /\ Running
  /\ torn[s] < Len(Teardown)
  /\ LET o == Teardown[torn[s] + 1] IN
       /\ alive' = [alive EXCEPT ![cur] = @ \ {o}]
       /\ ReleaseSource(o)
  /\ torn' = [torn EXCEPT ![s] = @ + 1]
  /\ record' = [record EXCEPT ![s] = IF torn[s] + 1 = Len(Teardown) THEN "reset" ELSE @]
  /\ UNCHANGED <<netVars, queueVars, ctlVars, flagVars, session, cur, hasQueue, strVars>>

\* The end of UnInitialize.
RecordReset(s) ==
  /\ record[s] = "reset" /\ Running
  /\ stopRecord' = FALSE /\ stopEventLoop' = FALSE
  /\ record' = [record EXCEPT ![s] = "done"]
  /\ UNCHANGED <<netVars, queueVars, ctlVars, objVars, torn, strVars>>

-----------------------------------------------------------------------------
(* Thread Stream of session s.                                             *)

StreamGoes(s, from, to) ==
  /\ stream[s] = from /\ Running
  /\ stream' = [stream EXCEPT ![s] = to]
  /\ UNCHANGED <<netVars, queueVars, ctlVars, objVars, recVars>>

StreamPlayVideo(s) == StreamGoes(s, "playVid", "playAud") /\ UNCHANGED <<flagVars, bound>>

\* The second startPlaying; then the loop starts on the current scheduler.
StreamPlayAudio(s) ==
  /\ StreamGoes(s, "playAud", "loop")
  /\ bound' = [bound EXCEPT ![s] = cur]
  /\ UNCHANGED flagVars

\* doEventLoop: one more step of the scheduler, or the loop ends.
StreamLoops(s) ==
  /\ stream[s] = "loop" /\ Running
  /\ ~stopEventLoop
  /\ UNCHANGED vars

\* Mutant: Record is told to stop before the sinks have been stopped.
StreamLeavesLoopFlagFirst(s) ==
  /\ stopEventLoop
  /\ StreamGoes(s, "loop", "stopVid")
  /\ stopRecord' = TRUE
  /\ UNCHANGED <<stopEventLoop, bound>>

StreamLeavesLoop(s) ==
  /\ stopEventLoop
  /\ StreamGoes(s, "loop", "stopVid") /\ UNCHANGED <<flagVars, bound>>

StreamStopVideo(s) == StreamGoes(s, "stopVid", "stopAud") /\ UNCHANGED <<flagVars, bound>>

StreamStopAudio(s) == StreamGoes(s, "stopAud", "flag") /\ UNCHANGED <<flagVars, bound>>

\* Mutant: Stream ends without telling Record.
StreamEndsSilently(s) == StreamGoes(s, "flag", "done") /\ UNCHANGED <<flagVars, bound>>

StreamEnds(s) ==
  /\ StreamGoes(s, "flag", "done")
  /\ stopRecord' = TRUE
  /\ UNCHANGED <<stopEventLoop, bound>>

-----------------------------------------------------------------------------
Client == ClientConnect \/ ClientClose \/ \E m \in Actions : ClientSend(m)

Main == MainListen \/ MainAccept \/ MainAcceptFails \/ MainWaitAccept
          \/ MainWaitDeque \/ MainReturn

Accept == AcceptEnd \/ AcceptPush
            \/ \E n \in 0 .. Len(wire), split \in BOOLEAN : AcceptRecv(n, split)

Deque == DequePop \/ DequeIdle \/ DequeInitialize \/ DequeCreateRecord
           \/ DequeCreateStream \/ DequeStop \/ DequeWait

Record(s) == RecordOpensDevices(s) \/ RecordDeviceFails(s) \/ RecordGivesUp(s)
               \/ RecordTest(s) \/ RecordWork(s) \/ RecordTeardown(s) \/ RecordReset(s)

Stream(s) == StreamPlayVideo(s) \/ StreamPlayAudio(s) \/ StreamLoops(s)
               \/ StreamLeavesLoop(s) \/ StreamStopVideo(s) \/ StreamStopAudio(s)
               \/ StreamEnds(s)

Down == ~Running /\ UNCHANGED vars

Next == Client \/ Main \/ Accept \/ Deque \/ Down
          \/ \E s \in Sessions : Record(s) \/ Stream(s)

Spec == Init /\ [][Next]_vars

\* The operating system runs every thread that can run, and the devices keep
\* producing samples.  Nothing is assumed of the client.
Fairness == /\ WF_vars(Main) /\ WF_vars(Accept) /\ WF_vars(Deque)
            /\ \A s \in Sessions : WF_vars(Record(s)) /\ WF_vars(Stream(s))

FairSpec == Spec /\ Fairness

-----------------------------------------------------------------------------
(* What a thread is about to dereference.                                  *)

TeardownNeeds == <<{"sinkVid", "srcVid", "scheduler", "environment"},
                   {"sinkAud", "scheduler", "environment"},
                   {"srcVid", "scheduler", "environment"},
                   {"srcAud", "scheduler", "environment"},
                   {"gsVid", "environment"},
                   {"gsAud", "environment"},
                   {"scheduler"},
                   {"environment"}>>

RecordNeeds(s) ==
  CASE record[s] = "video"    -> {"srcVid"}
    [] record[s] = "audio"    -> {"srcAud"}
    [] record[s] = "trigVid"  -> {"srcVid", "scheduler", "environment"}
    [] record[s] = "trigAud"  -> {"srcAud", "scheduler", "environment"}
    [] record[s] = "teardown" -> TeardownNeeds[torn[s] + 1]
    [] OTHER -> {}

StreamNeeds(s) ==
  CASE stream[s] \in {"playVid", "stopVid"} ->
         {"sinkVid", "srcVid", "gsVid", "scheduler", "environment"}
    [] stream[s] \in {"playAud", "stopAud"} ->
         {"sinkAud", "srcAud", "gsAud", "scheduler", "environment"}
    [] stream[s] = "loop" -> Objects
    [] OTHER -> {}

\* As long as only one Start has been handled, no thread is ever about to use
\* or to release a streaming object that UnInitialize has already released:
\* Record frees the sinks, sources, sockets and scheduler only after Stream has
\* left the event loop and stopped both sinks, and frees each of them once.
NoUseAfterFree ==
  session <= 1 =>
    \A s \in 1 .. session :
      /\ RecordNeeds(s) \subseteq alive[s]
      /\ StreamNeeds(s) \subseteq alive[s]

\* main deletes messageQueue only when neither of the two threads that hold a
\* pointer to it can touch it again.
QueueOutlivesItsUsers ==
  ~queueLive => accept = "done" /\ deque = "done"

\* A run that handled one Start whose devices opened, and that came down after
\* a Stop, has released every object, dropped both live source classes to no
\* instance and no event trigger, and left both stop flags clear.
DeviceFailed == \E s \in Sessions : record[s] \in {"failed", "done"} /\ torn[s] = 0

CleanShutdown ==
  (main \in {"free", "down"} /\ deque = "done" /\ session = 1 /\ ~DeviceFailed) =>
    /\ alive[1] = {}
    /\ \A k \in Kinds : refCount[k] = 0 /\ trigger[k] = 0
    /\ ~stopRecord /\ ~stopEventLoop

\* While one session streams, its scheduler is the one that knows the event
\* triggers Record raises, and Record finds an allocated queue in each source.
SamplesReachTheLoop ==
  session <= 1 =>
    \A s \in 1 .. session :
      record[s] \in RecordLoop => \A k \in Kinds : trigger[k] = s /\ k \in hasQueue[s]

\* A stop request is not forgotten: with one session, the flag that ends the
\* event loop goes back to zero only after Stream has seen it and finished.
StopNotForgotten ==
  [][(session <= 1 /\ stopEventLoop /\ ~stopEventLoop')
       => \A s \in 1 .. session : stream[s] = "done"]_vars

\* Once deque handles a Stop, and no second Start preceded it, the server goes
\* down: Stream leaves the loop, Record tears down, deque and main follow.
StopBringsServerDown == (deque = "stop" /\ session <= 1) ~> (main = "down")

\* The abstract view of the session: media objects, stop request, process.
Lifecycle == INSTANCE ServerLifecycle WITH
  media    <- IF session = 0 THEN "absent"
              ELSE IF session > 1 THEN "again"
              ELSE IF alive[1] = Objects THEN "live" ELSE "released",
  stopping <- deque \in {"wait", "done"},
  up       <- Running

\* The server is an implementation of ServerLifecycle: whatever the client sends,
\* the session's objects appear once, go only after a Stop and never return, and
\* a Stop takes the process down (nothing is said once a second Start is handled).
ImplementsLifecycle == Lifecycle!FairSpec

-----------------------------------------------------------------------------
(* The inductive invariant behind the safety properties.  It describes one *)
(* session completely and says nothing once a second Start is handled.     *)

Left(n) == {Teardown[i] : i \in (n + 1) .. 8}

Stopping == deque \in {"wait", "done"}

\* Record returned because InitializeSource failed.
GaveUp(s) == record[s] = "done" /\ torn[s] = 0

\* Threads and handles exist from the moment deque creates them.
CreatedInv(s) ==
  /\ record[s] = "none" <=> deque = "record"
  /\ stream[s] = "none" <=> deque \in {"record", "stream"}
  /\ deque # "record" => handlerRecord = s
  /\ deque = "done" => record[s] = "done"

\* How far UnInitialize got, and what is left of the session's objects.
TeardownInv(s) ==
  /\ record[s] \in {"none", "media", "failed"} \cup RecordLoop => torn[s] = 0
  /\ record[s] = "teardown" => torn[s] < 8
  /\ record[s] = "reset" => torn[s] = 8
  /\ record[s] = "done" => torn[s] \in {0, 8}
  /\ alive[s] = Left(torn[s])
  /\ hasQueue[s] = Kinds
  /\ refCount["vid"] = (IF torn[s] <= 2 THEN 1 ELSE 0)
  /\ refCount["aud"] = (IF torn[s] <= 3 THEN 1 ELSE 0)
  /\ trigger["vid"] = (IF torn[s] <= 2 THEN s ELSE 0)
  /\ trigger["aud"] = (IF torn[s] <= 3 THEN s ELSE 0)

\* The handshake: a flag is up only for the reason it was raised for, and
\* UnInitialize starts only after Stream is done.
HandshakeInv(s) ==
  /\ stopRecord => stream[s] = "done" \/ record[s] = "failed" \/ GaveUp(s)
  /\ stopEventLoop => Stopping \/ GaveUp(s)
  /\ stream[s] \in {"stopVid", "stopAud", "flag", "done"} => Stopping \/ GaveUp(s)
  /\ record[s] \in {"teardown", "reset"} \/ torn[s] = 8 => stream[s] = "done" /\ Stopping
  /\ record[s] = "done" /\ torn[s] = 8 => ~stopRecord /\ ~stopEventLoop

NoSessionInv ==
  /\ ~stopRecord /\ (stopEventLoop => Stopping)
  /\ handlerRecord = 0 /\ deque \notin {"record", "stream"}
  /\ \A k \in Kinds : refCount[k] = 0 /\ trigger[k] = 0

SessionInv ==
  session <= 1 =>
    /\ cur = session
    /\ \A s \in Sessions : s > session => record[s] = "none" /\ stream[s] = "none" /\ torn[s] = 0
    /\ session = 0 => NoSessionInv
    /\ \A s \in 1 .. session : CreatedInv(s) /\ TeardownInv(s) /\ HandshakeInv(s)

QueueInv ==
  /\ main \in {"listen", "accept"} =>
       accept = "none" /\ messageQueue = <<>> /\ deque \in {"none", "pop"} /\ session = 0
  /\ main = "waitDeque" => accept = "done"
  /\ main = "free" => deque = "done"
  /\ ~queueLive => main \in {"free", "down"} /\ accept = "done" /\ deque = "done"

\* The threads keep to their protocol: with one session every object that exists,
\* every flag that is up and every thread that waits is accounted for by how far
\* the other threads have got, and main frees the queue behind both its users.
IInv == TypeOK /\ SessionInv /\ QueueInv

-----------------------------------------------------------------------------
\* "Starts the server, listening to incoming JSON messages from clients, and
\* acts according to the messages": no command that recv returned is lost.
NoCommandLost == ~dropped

\* H264LiveSource's constructor, "initialize queue": every live source that
\* exists has a queue.
SourcesHaveQueues ==
  \A s \in Sessions :
    /\ "srcVid" \in alive[s] => "vid" \in hasQueue[s]
    /\ "srcAud" \in alive[s] => "aud" \in hasQueue[s]
=============================================================================
