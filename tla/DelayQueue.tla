----------------------------- MODULE DelayQueue -----------------------------
(***************************************************************************)
(* The scheduler's timers: DelayQueue, a list in which each entry keeps    *)
(* the time that is left after the entry before it, and the part of the    *)
(* event loop that sleeps until the first entry is due and runs it.  The   *)
(* list follows the system clock, which an operator may set back.          *)
(*                                                                         *)
(* One thread does all of this; it calls scheduleDelayedTask and           *)
(* unscheduleDelayedTask before the loop starts, from a socket or trigger  *)
(* handler, and from the task that is being run.  Times are whole units of *)
(* the clock.  The list's own entry of infinite delay ends every walk, and *)
(* is left out.                                                            *)
(***************************************************************************)
EXTENDS Integers, SequencesExt

CONSTANTS Delays,     \* the delays that callers ask for
          MaxTasks,   \* bound: calls of scheduleDelayedTask
          MaxTime,    \* bound: units of real time
          MaxBack     \* bound: by how much the clock is set back, in all

ASSUME DelayAssumption ==
  /\ Delays \subseteq 0 .. MaxTime
  /\ MaxTasks \in Nat /\ MaxTime \in Nat /\ MaxBack \in Nat

VARIABLES
  pc,            \* setup; poll, select, alarm: in SingleStep; task: in a task
  now,           \* what gettimeofday gives
  fLastSyncTime,
  queue,         \* the entries: token and fDeltaTimeRemaining
  tokenCounter,
  sleep,         \* what is left of select's timeout
  real,          \* history: real time
  elapsed,       \* history: the time the queue has taken into account
  due,           \* history: deadline of each task, in elapsed time
  notBefore,     \* history: deadline of each task, in real time
  run            \* history: the tasks run so far, in order

clockVars == <<now, real>>
histVars  == <<due, notBefore, run>>
listVars  == <<queue, fLastSyncTime, elapsed>>
vars      == <<pc, clockVars, listVars, tokenCounter, sleep, histVars>>

Tokens  == 1 .. tokenCounter
Waiting == {queue[i].token : i \in DOMAIN queue}

TypeOK ==
  /\ pc \in {"setup", "poll", "select", "alarm", "task"}
  /\ now \in -MaxBack .. MaxTime /\ fLastSyncTime \in -MaxBack .. MaxTime
  /\ queue \in Seq([token : Tokens, delta : Nat])
  /\ tokenCounter \in 0 .. MaxTasks
  /\ sleep \in 0 .. MaxTime
  /\ real \in 0 .. MaxTime /\ elapsed \in 0 .. MaxTime
  /\ due \in [Tokens -> Nat] /\ notBefore \in [Tokens -> Nat]
  /\ run \in Seq(Tokens)

Init ==
  /\ pc = "setup" /\ now = 0 /\ fLastSyncTime = 0
  /\ queue = <<>> /\ tokenCounter = 0 /\ sleep = 0
  /\ real = 0 /\ elapsed = 0 /\ due = <<>> /\ notBefore = <<>> /\ run = <<>>

-----------------------------------------------------------------------------
(* The list.                                                               *)

\* What is left until the entry at place i of q is due: its own delta and
\* those of all entries before it.
Ahead(q, i) ==
  LET sum[j \in 0 .. Len(q)] == IF j = 0 THEN 0 ELSE sum[j - 1] + q[j].delta IN sum[i]

\* The entries use up the time that has passed, from the front.
Consume(q, passed) ==
  [i \in DOMAIN q |->
     LET left == passed - Ahead(q, i - 1)
     IN [q[i] EXCEPT !.delta = IF left <= 0 THEN @ ELSE IF left >= @ THEN 0 ELSE @ - left]]

\* synchronize: a clock that has gone back only sets fLastSyncTime.
Passed == IF now < fLastSyncTime THEN 0 ELSE now - fLastSyncTime

\* Mutant: only fLastSyncTime is brought up to date.
SynchronizedTimeOnly == queue

Synchronized == Consume(queue, Passed)

\* Mutant: entries of equal deadline are queued in front of each other.
InsertedFirst(q, t, d) ==
  LET before == {i \in DOMAIN q : Ahead(q, i) < d}
      p      == Cardinality(before) + 1
      delta  == d - Ahead(q, p - 1)
      rest   == IF p > Len(q) THEN q ELSE [q EXCEPT ![p].delta = @ - delta]
  IN InsertAt(rest, p, [token |-> t, delta |-> delta])

\* addEntry walks past the entries that are due no later than d from now, and
\* the one it stops at counts from the new entry on.
Inserted(q, t, d) ==
  LET before == {i \in DOMAIN q : Ahead(q, i) <= d}
      p      == Cardinality(before) + 1
      delta  == d - Ahead(q, p - 1)
      rest   == IF p > Len(q) THEN q ELSE [q EXCEPT ![p].delta = @ - delta]
  IN InsertAt(rest, p, [token |-> t, delta |-> delta])

\* Mutant: the next entry does not take over the time of the one removed.
RemovedAlone(q, i) == RemoveAt(q, i)

\* removeEntry: the next entry takes over the time of the one removed.
Removed(q, i) ==
  RemoveAt(IF i = Len(q) THEN q ELSE [q EXCEPT ![i + 1].delta = @ + q[i].delta], i)

-----------------------------------------------------------------------------
(* Calls of the handlers.                                                  *)

Calling == pc \in {"setup", "alarm", "task"}

\* scheduleDelayedTask.  The bound on time leaves the task time to come due.
Schedule(d) ==
  /\ Calling /\ tokenCounter < MaxTasks
  /\ real + d + MaxBack <= MaxTime
  /\ tokenCounter' = tokenCounter + 1
  /\ queue' = Inserted(Synchronized, tokenCounter', d)
  /\ fLastSyncTime' = now /\ elapsed' = elapsed + Passed
  /\ due' = Append(due, elapsed' + d) /\ notBefore' = Append(notBefore, real + d)
  /\ UNCHANGED <<pc, clockVars, sleep, run>>

\* unscheduleDelayedTask, with a token that may have run or been cancelled.
Unschedule(t) ==
  /\ Calling
  /\ \E i \in DOMAIN queue : queue[i].token = t /\ queue' = Removed(queue, i)
  /\ UNCHANGED <<pc, clockVars, fLastSyncTime, elapsed, tokenCounter, sleep, histVars>>

-----------------------------------------------------------------------------
(* SingleStep.                                                             *)

Head0(q) == q # <<>> /\ q[1].delta = 0

\* Mutant: the sleep is computed without looking at the clock.
TimeToNextAlarmStale ==
  /\ pc \in {"setup", "poll"} /\ pc' = "select"
  /\ sleep' = IF queue = <<>> THEN MaxTime ELSE queue[1].delta
  /\ UNCHANGED <<clockVars, listVars, tokenCounter, histVars>>

\* timeToNextAlarm, and select goes to sleep for that time.
TimeToNextAlarm ==
  /\ pc \in {"setup", "poll"} /\ pc' = "select"
  /\ IF Head0(queue)
       THEN sleep' = 0 /\ UNCHANGED listVars
       ELSE /\ queue' = Synchronized /\ fLastSyncTime' = now /\ elapsed' = elapsed + Passed
            /\ sleep' = IF queue = <<>> THEN MaxTime ELSE queue'[1].delta
  /\ UNCHANGED <<clockVars, tokenCounter, histVars>>

\* select returns when its time is over; a socket or the system may end it before.
SelectTimesOut ==
  /\ pc = "select" /\ sleep = 0 /\ pc' = "alarm"
  /\ UNCHANGED <<clockVars, listVars, tokenCounter, sleep, histVars>>

SelectReturnsEarly ==
  /\ pc = "select" /\ sleep > 0
  /\ pc' = "alarm" /\ sleep' = 0
  /\ UNCHANGED <<clockVars, listVars, tokenCounter, histVars>>

\* Mutant: the head is run whether or not it is due.
HandleAlarmEager ==
  /\ pc = "alarm"
  /\ LET q == IF Head0(queue) THEN queue ELSE Synchronized
     IN IF q # <<>>
          THEN pc' = "task" /\ run' = Append(run, q[1].token) /\ queue' = Removed(q, 1)
          ELSE pc' = "poll" /\ UNCHANGED run /\ queue' = q
  /\ IF Head0(queue)
       THEN UNCHANGED <<fLastSyncTime, elapsed>>
       ELSE fLastSyncTime' = now /\ elapsed' = elapsed + Passed
  /\ UNCHANGED <<clockVars, tokenCounter, sleep, due, notBefore>>

\* handleAlarm: one entry that is due is removed and then run.
HandleAlarm ==
  /\ pc = "alarm"
  /\ LET q == IF Head0(queue) THEN queue ELSE Synchronized
     IN IF Head0(q)
          THEN pc' = "task" /\ run' = Append(run, q[1].token) /\ queue' = Removed(q, 1)
          ELSE pc' = "poll" /\ UNCHANGED run /\ queue' = q
  /\ IF Head0(queue)
       THEN UNCHANGED <<fLastSyncTime, elapsed>>
       ELSE fLastSyncTime' = now /\ elapsed' = elapsed + Passed
  /\ UNCHANGED <<clockVars, tokenCounter, sleep, due, notBefore>>

TaskReturns ==
  /\ pc = "task" /\ pc' = "poll"
  /\ UNCHANGED <<clockVars, listVars, tokenCounter, sleep, histVars>>

SingleStep == TimeToNextAlarm \/ SelectTimesOut \/ HandleAlarm \/ TaskReturns

-----------------------------------------------------------------------------
(* The clock.                                                              *)

Tick ==
  /\ real < MaxTime
  /\ real' = real + 1 /\ now' = now + 1
  /\ sleep' = IF sleep > 0 THEN sleep - 1 ELSE 0
  /\ UNCHANGED <<pc, listVars, tokenCounter, histVars>>

\* The clock is set back; real - now is how much it has been set back so far.
SetBack ==
  /\ real - now < MaxBack
  /\ now' = now - 1
  /\ UNCHANGED <<pc, real, listVars, tokenCounter, sleep, histVars>>

Next == \/ \E d \in Delays : Schedule(d)
        \/ \E t \in Tokens : Unschedule(t)
        \/ SingleStep \/ SelectReturnsEarly \/ Tick \/ SetBack

Spec == Init /\ [][Next]_vars

\* The loop runs, and time goes on.
FairSpec == Spec /\ WF_vars(SingleStep) /\ WF_vars(Tick)

-----------------------------------------------------------------------------
\* Whatever is inserted, removed and synchronized, the differences in the list
\* add up: each entry is as far from being due as its deadline says, an entry
\* that is overdue has nothing left, and the order is that of the deadlines.
DeltasMatchDeadlines ==
  \A i \in DOMAIN queue :
    LET left == due[queue[i].token] - elapsed
    IN /\ Ahead(queue, i) = IF left > 0 THEN left ELSE 0
       /\ \A j \in 1 .. i - 1 : due[queue[j].token] <= due[queue[i].token]

ListInv == TypeOK /\ DeltasMatchDeadlines

\* No task runs before its delay has passed in real time, however the clock was
\* set back meanwhile.
NeverEarly == \A i \in DOMAIN run : notBefore[run[i]] <= real

\* select never sleeps past the moment at which the first entry is due.
SleepEndsInTime ==
  pc = "select" /\ queue # <<>> =>
    sleep <= (IF due[queue[1].token] > elapsed + Passed
                THEN due[queue[1].token] - (elapsed + Passed) ELSE 0)

\* A task that waits is run or unscheduled in the end.
TasksAreRun == \A t \in 1 .. MaxTasks : (t \in Waiting) ~> (t \notin Waiting)

\* The list implements the service that callers rely on.
Timer == INSTANCE TimerService WITH
           time <- elapsed, tokens <- tokenCounter, pending <- Waiting,
           due <- due, run <- {run[i] : i \in DOMAIN run}
ImplementsTimerService == Timer!Spec
=============================================================================
