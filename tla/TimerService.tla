---------------------------- MODULE TimerService ----------------------------
(***************************************************************************)
(* What scheduleDelayedTask and unscheduleDelayedTask promise to the rest  *)
(* of the program: a task runs once, when its delay has passed, in the     *)
(* order of the deadlines and, among equal deadlines, in the order in      *)
(* which the tasks were scheduled; a task that has been unscheduled does   *)
(* not run.                                                                *)
(***************************************************************************)
EXTENDS Naturals

CONSTANT Delays     \* the delays a task may be given

VARIABLES time,     \* how long the service has been running
          tokens,   \* tokens given out so far
          pending,  \* tasks that wait, by token
          due,      \* deadline of each task
          run       \* tasks that have been run

vars == <<time, tokens, pending, due, run>>

Init == time = 0 /\ tokens = 0 /\ pending = {} /\ due = <<>> /\ run = {}

Advance == time' \in Nat /\ time' > time /\ UNCHANGED <<tokens, pending, due, run>>

\* The service may notice the time that has passed while it schedules or runs.
Schedule(d) ==
  /\ time' \in Nat /\ time' >= time
  /\ tokens' = tokens + 1
  /\ pending' = pending \cup {tokens'}
  /\ due' = [t \in 1 .. tokens' |-> IF t = tokens' THEN time' + d ELSE due[t]]
  /\ UNCHANGED run

Unschedule(t) == pending' = pending \ {t} /\ UNCHANGED <<time, tokens, due, run>>

Earlier(t, u) == due[t] < due[u] \/ (due[t] = due[u] /\ t < u)

RunTask(t) ==
  /\ t \in pending
  /\ time' \in Nat /\ time' >= time /\ due[t] <= time'
  /\ \A u \in pending \ {t} : Earlier(t, u)
  /\ pending' = pending \ {t} /\ run' = run \cup {t}
  /\ UNCHANGED <<tokens, due>>

Next == \/ Advance
        \/ \E d \in Delays : Schedule(d)
        \/ \E t \in pending : Unschedule(t) \/ RunTask(t)

Spec == Init /\ [][Next]_vars
=============================================================================
