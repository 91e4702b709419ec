---------------------------- MODULE LivePipeline ----------------------------
(***************************************************************************)
(* One streaming session while it runs: the Record thread pushes samples   *)
(* into the two live sources and raises their event triggers; the Stream   *)
(* thread starts the two sinks, runs the event loop, in which the triggers *)
(* and the sinks' timers deliver the samples, and stops the sinks.         *)
(*                                                                         *)
(* Both threads update the word fTriggersAwaitingHandling without a lock:  *)
(* Record with |= and the loop with &=~, each a load and a later store     *)
(* (a loaded word is forgotten once it has been stored).                   *)
(* The word is the set of kinds whose bit is up.  Sample queues have their *)
(* own locks, so a push and a pop are one step each.                       *)
(*                                                                         *)
(* The devices never stop giving samples.  A queue has no limit in the     *)
(* code; here a device waits while MaxWaiting of its samples wait, so that *)
(* sample numbers may be counted modulo MaxWaiting + 1.                    *)
(***************************************************************************)
EXTENDS Naturals, Sequences

CONSTANTS MaxWaiting,  \* bound: samples of one kind that wait in its queue
          MaxFrags     \* bound: RTP packets a sample needs after the first

ASSUME PipelineAssumption == MaxWaiting \in Nat \ {0} /\ MaxFrags \in Nat

Kinds == {"vid", "aud"}
Other(k) == IF k = "vid" THEN "aud" ELSE "vid"

SampleNo == 0 .. MaxWaiting
NextNo(n) == IF n = MaxWaiting THEN 0 ELSE n + 1

VARIABLES
  record, target, regR,  \* Record: pc, trigger being raised, loaded word
  loop, sel, regL,       \* Stream: pc, trigger being handled, loaded word
  stop,                  \* stopEventLoop
  pushed,                \* number of the last sample pushed, per kind
  queue,                 \* myQueue of each live source: sample numbers
  word,                  \* fTriggersAwaitingHandling
  datas,                 \* kinds whose fTriggeredEventClientDatas is set
  last,                  \* fLastUsedTriggerMask / fLastUsedTriggerNum
  playing,               \* sinks whose fSource is set
  awaiting,              \* sources with fIsCurrentlyAwaitingData
  alarms,                \* per sink, its sendNext entries in the delay queue
  frags,                 \* per sink, packets its current sample still needs
  got,                   \* number of the last sample delivered to each sink
  owed                   \* history: raised, and no handler called since

recordVars == <<record, target, regR, pushed>>
loopVars   == <<loop, sel, regL, last>>
sinkVars   == <<playing, awaiting, alarms, frags, got>>
trigVars   == <<word, datas, owed>>
vars       == <<recordVars, loopVars, sinkVars, trigVars, queue, stop>>

TypeOK ==
  /\ record \in {"test", "video", "audio", "data", "load", "store", "done"}
  /\ loop \in {"startVid", "startAud", "check", "trigger", "clearLoad", "clearStore",
               "call", "alarm", "stopVid", "stopAud", "done"}
  /\ target \in Kinds /\ sel \in Kinds /\ last \in Kinds
  /\ regR \subseteq Kinds /\ regL \subseteq Kinds
  /\ stop \in BOOLEAN
  /\ pushed \in [Kinds -> SampleNo] /\ got \in [Kinds -> SampleNo]
  /\ queue \in [Kinds -> Seq(SampleNo)]
  /\ word \subseteq Kinds /\ datas \subseteq Kinds /\ owed \subseteq Kinds
  /\ playing \subseteq Kinds /\ awaiting \subseteq Kinds
  /\ alarms \in [Kinds -> Nat]
  /\ frags \in [Kinds -> 0 .. MaxFrags]

\* Initialize created the audio trigger first and the video trigger last.
Init ==
  /\ record = "test" /\ target = "vid" /\ regR = {}
  /\ loop = "startVid" /\ sel = "vid" /\ regL = {} /\ last = "vid"
  /\ stop = FALSE
  /\ pushed = [k \in Kinds |-> 0] /\ got = [k \in Kinds |-> 0]
  /\ queue = [k \in Kinds |-> <<>>]
  /\ word = {} /\ datas = {} /\ owed = {}
  /\ playing = {} /\ awaiting = {} /\ alarms = [k \in Kinds |-> 0]
  /\ frags = [k \in Kinds |-> 0]

-----------------------------------------------------------------------------
(* Record.                                                                 *)

\* while (!stopRecord): Stream sets the flag as its last act.
RecordTest ==
  /\ record = "test"
  /\ record' = IF loop = "done" THEN "done" ELSE "video"
  /\ UNCHANGED <<target, regR, pushed, loopVars, sinkVars, trigVars, queue, stop>>

\* A sample arrives from the device, is encoded and pushed under the lock.
Push(k) ==
  /\ Len(queue[k]) < MaxWaiting
  /\ pushed' = [pushed EXCEPT ![k] = NextNo(@)]
  /\ queue' = [queue EXCEPT ![k] = Append(@, NextNo(pushed[k]))]
  /\ UNCHANGED <<target, regR, loopVars, sinkVars, trigVars, stop>>

RecordVideo == record = "video" /\ Push("vid") /\ record' = "audio"

RecordAudio == record = "audio" /\ Push("aud") /\ record' = "data"

\* Mutant: triggerEvent does not store the client data.
TriggerDataForgotten ==
  /\ record = "data" /\ record' = "load"
  /\ UNCHANGED <<datas, target, regR, pushed, word, owed, loopVars, sinkVars, queue, stop>>

\* triggerEvent first stores the client data ...
TriggerData ==
  /\ record = "data" /\ record' = "load"
  /\ datas' = datas \cup {target}
  /\ UNCHANGED <<target, regR, pushed, word, owed, loopVars, sinkVars, queue, stop>>

\* ... and then does fTriggersAwaitingHandling |= eventTriggerId.
TriggerLoad ==
  /\ record = "load" /\ record' = "store"
  /\ regR' = word
  /\ UNCHANGED <<target, pushed, loopVars, sinkVars, trigVars, queue, stop>>

TriggerStore ==
  /\ record = "store"
  /\ word' = regR \cup {target}
  /\ owed' = owed \cup {target}
  /\ record' = IF target = "vid" THEN "data" ELSE "test"
  /\ target' = Other(target) /\ regR' = {}
  /\ UNCHANGED <<pushed, datas, loopVars, sinkVars, queue, stop>>

Record == RecordTest \/ RecordVideo \/ RecordAudio \/ TriggerData \/ TriggerLoad \/ TriggerStore

-----------------------------------------------------------------------------
(* What the loop thread does to a source and its sink.                     *)

\* Mutant: a video sample ends and sendNext is scheduled, but the source still
\* counts as awaiting.
DeliverStillAwaiting(k, left) ==
  \E n \in 1 .. Len(queue[k]) :
    /\ k = "vid" => n = 1
    /\ got' = [got EXCEPT ![k] = queue[k][n]]
    /\ queue' = [queue EXCEPT ![k] = SubSeq(@, n + 1, Len(@))]
    /\ \E f \in 0 .. MaxFrags : frags' = [frags EXCEPT ![k] = f]
    /\ awaiting' = awaiting
    /\ alarms' = [left EXCEPT ![k] = @ + 1]

\* Samples go to the sink.  A video sample has its packets to itself; audio
\* samples are packed until the packet is full or the queue is empty, and in
\* the latter case the sink has already asked again.  A full packet is sent
\* and the sink schedules sendNext (left is the delay queue before that); what
\* did not fit goes into f further packets.
Deliver(k, left) ==
  \E n \in 1 .. Len(queue[k]) :
    /\ k = "vid" => n = 1
    /\ got' = [got EXCEPT ![k] = queue[k][n]]
    /\ queue' = [queue EXCEPT ![k] = SubSeq(@, n + 1, Len(@))]
    /\ \/ /\ \E f \in 0 .. MaxFrags : frags' = [frags EXCEPT ![k] = f]
          /\ awaiting' = awaiting \ {k} /\ alarms' = [left EXCEPT ![k] = @ + 1]
       \/ /\ k = "aud" /\ n = Len(queue[k]) /\ UNCHANGED frags
          /\ awaiting' = awaiting \cup {k} /\ alarms' = left

\* deliverFrame, called by the event loop: nothing to do unless asked.
DeliverIfAwaited(k) ==
  IF k \in awaiting /\ queue[k] # <<>>
    THEN Deliver(k, alarms)
    ELSE UNCHANGED <<awaiting, alarms, frags, got, queue>>

\* getNextFrame: the source notes that data is awaited and tries to deliver.
GetNextFrame(k, left) ==
  IF queue[k] # <<>>
    THEN Deliver(k, left)
    ELSE awaiting' = awaiting \cup {k} /\ alarms' = left /\ UNCHANGED <<frags, got, queue>>

-----------------------------------------------------------------------------
(* Stream.                                                                 *)

StartPlaying(k, from, to) ==
  /\ loop = from /\ loop' = to
  /\ playing' = playing \cup {k}
  /\ GetNextFrame(k, alarms)
  /\ UNCHANGED <<recordVars, sel, regL, last, trigVars, stop>>

StartVideo == StartPlaying("vid", "startVid", "startAud")
StartAudio == StartPlaying("aud", "startAud", "check")

\* Mutant: doEventLoop is called without the watch variable.
LoopCheckUnwatched ==
  /\ loop = "check" /\ loop' = "trigger"
  /\ UNCHANGED <<sel, regL, last, recordVars, sinkVars, trigVars, queue, stop>>

\* doEventLoop looks at the watch variable before every SingleStep.
LoopCheck ==
  /\ loop = "check"
  /\ loop' = IF stop THEN "stopVid" ELSE "trigger"
  /\ UNCHANGED <<sel, regL, last, recordVars, sinkVars, trigVars, queue, stop>>

\* Mutant: the search for an awaiting trigger starts at the last one used.
LoopTriggerUnfair ==
  /\ loop = "trigger"
  /\ IF word = {}
       THEN loop' = "alarm" /\ UNCHANGED sel
       ELSE loop' = "clearLoad" /\ sel' = IF last \in word THEN last ELSE Other(last)
  /\ UNCHANGED <<regL, last, recordVars, sinkVars, trigVars, queue, stop>>

\* SingleStep handles one awaiting trigger: the search starts after the last
\* one used, so that one is taken only when it is alone.
LoopTrigger ==
  /\ loop = "trigger"
  /\ IF word = {}
       THEN loop' = "alarm" /\ UNCHANGED sel
       ELSE loop' = "clearLoad" /\ sel' = IF word = {last} THEN last ELSE Other(last)
  /\ UNCHANGED <<regL, last, recordVars, sinkVars, trigVars, queue, stop>>

\* fTriggersAwaitingHandling &=~ mask.
LoopClearLoad ==
  /\ loop = "clearLoad" /\ loop' = "clearStore"
  /\ regL' = word
  /\ UNCHANGED <<sel, last, recordVars, sinkVars, trigVars, queue, stop>>

LoopClearStore ==
  /\ loop = "clearStore" /\ loop' = "call"
  /\ word' = regL \ {sel} /\ regL' = {}
  /\ UNCHANGED <<sel, last, recordVars, sinkVars, datas, owed, queue, stop>>

LoopCall ==
  /\ loop = "call" /\ loop' = "alarm"
  /\ DeliverIfAwaited(sel)
  /\ last' = sel
  /\ owed' = owed \ {sel}
  /\ UNCHANGED <<sel, regL, playing, recordVars, word, datas, stop>>

\* handleAlarm runs one due entry, here sendNext of sink k: the next packet of
\* the current sample is sent and sendNext scheduled again, or the sink asks
\* its source for the next frame.
LoopAlarm(k) ==
  /\ loop = "alarm" /\ loop' = "check"
  /\ alarms[k] > 0
  /\ IF frags[k] > 0
       THEN frags' = [frags EXCEPT ![k] = @ - 1] /\ UNCHANGED <<alarms, awaiting, got, queue>>
       ELSE GetNextFrame(k, [alarms EXCEPT ![k] = @ - 1])
  /\ UNCHANGED <<playing, sel, regL, last, recordVars, trigVars, stop>>

\* No sendNext is due: nothing, or the scheduler's own tick, is handled.
LoopNoAlarm ==
  /\ loop = "alarm" /\ loop' = "check"
  /\ UNCHANGED <<sel, regL, last, recordVars, sinkVars, trigVars, queue, stop>>

\* Mutant: the pending sendNext survives stopPlaying.
StopPlayingLeavesAlarm(k, from, to) ==
  /\ loop = from /\ loop' = to
  /\ playing' = playing \ {k}
  /\ awaiting' = awaiting \ {k}
  /\ UNCHANGED <<sel, regL, last, recordVars, alarms, frags, got, trigVars, queue, stop>>

\* stopPlaying: the source is told that nobody waits, the pending sendNext is
\* unscheduled and the sink forgets its source.
StopPlaying(k, from, to) ==
  /\ loop = from /\ loop' = to
  /\ playing' = playing \ {k}
  /\ awaiting' = awaiting \ {k}
  /\ alarms' = [alarms EXCEPT ![k] = IF @ = 0 THEN 0 ELSE @ - 1]
  /\ UNCHANGED <<sel, regL, last, recordVars, frags, got, trigVars, queue, stop>>

StopVideo == StopPlaying("vid", "stopVid", "stopAud")
StopAudio == StopPlaying("aud", "stopAud", "done")

Stream == StartVideo \/ StartAudio \/ LoopCheck \/ LoopTrigger \/ LoopClearLoad
            \/ LoopClearStore \/ LoopCall \/ (\E k \in Kinds : LoopAlarm(k)) \/ LoopNoAlarm
            \/ StopVideo \/ StopAudio

\* The deque thread handles a Stop.
AskToStop ==
  /\ ~stop /\ stop' = TRUE
  /\ UNCHANGED <<recordVars, loopVars, sinkVars, trigVars, queue>>

Next == Record \/ Stream \/ AskToStop

Spec == Init /\ [][Next]_vars

\* Both threads run, and an entry of the delay queue that stays there comes due
\* and is not for ever put off by the scheduler's tick.
FairSpec == /\ Spec /\ WF_vars(Record) /\ WF_vars(Stream)
            /\ \A k \in Kinds : SF_vars(LoopAlarm(k))

-----------------------------------------------------------------------------
\* From the last sample a sink has received, through those that wait, to the
\* last one recorded, each sample follows the one before it: the two threads
\* together lose, repeat and reorder nothing.
SamplesInOrder ==
  \A k \in Kinds :
    LET s == <<got[k]>> \o queue[k]
    IN /\ s[Len(s)] = pushed[k]
       /\ \A i \in 1 .. Len(queue[k]) : s[i + 1] = NextNo(s[i])

\* While the event loop runs, each sink either waits for its source or has one
\* sendNext pending, never both and never neither: it cannot ask for a frame
\* while one is outstanding (which aborts), and it cannot fall asleep.
OneWakeUp ==
  \A k \in playing :
    IF k \in awaiting THEN alarms[k] = 0 ELSE alarms[k] = 1

\* Once a sink has been stopped neither a trigger nor the delay queue can reach
\* it again: its source is not awaiting and no sendNext is scheduled.
StoppedSinkIsQuiet ==
  \A k \in Kinds \ playing : k \notin awaiting /\ alarms[k] = 0

\* The loop never calls a trigger handler whose client data is not yet stored.
HandlerKnowsItsSource ==
  loop \in {"clearLoad", "clearStore", "call"} => sel \in datas

\* Which sinks play at each place of the Stream thread.
PlayInv ==
  playing = CASE loop = "startVid" -> {}
              [] loop = "startAud" -> {"vid"}
              [] loop = "stopAud"  -> {"aud"}
              [] loop = "done"     -> {}
              [] OTHER             -> Kinds

\* Every copy of the trigger word names only kinds whose client data is stored.
DataInv ==
  /\ word \subseteq datas /\ regR \subseteq datas /\ regL \subseteq datas
  /\ record \in {"load", "store"} => target \in datas
  /\ HandlerKnowsItsSource

WakeInv == PlayInv /\ OneWakeUp /\ StoppedSinkIsQuiet

\* The inductive invariant.  Beyond the properties that it names, it says that the
\* client data of a trigger is stored before any copy of the unlocked word has its
\* bit up, at whatever moment the two threads load and store the word.
PInv == TypeOK /\ WakeInv /\ DataInv /\ SamplesInOrder

\* A raised trigger is not overlooked by the search: its bit goes down or the
\* loop ends, however often the other trigger is raised meanwhile.
TriggersAreServed ==
  \A k \in Kinds : (k \in word) ~> (k \notin word \/ loop = "done")

\* Once a stop is asked for, the event loop ends and both sinks are stopped.
StopEndsLoop == stop ~> (loop = "done" /\ playing = {})

\* "This function (unlike other library functions) may be called from an
\* external thread - to signal an external event": a trigger that has been
\* raised and not handled is still up, or the loop is about to handle it.
TriggerIsNotLost ==
  owed \subseteq word \cup (IF loop \in {"clearLoad", "clearStore", "call"} THEN {sel} ELSE {})
=============================================================================
