CONSTANTS
  Delays = {0, 1, 2}
  MaxTasks = 3
  MaxTime = 5
  MaxBack = 2
SPECIFICATION FairSpec
INVARIANTS ListInv NeverEarly SleepEndsInTime
PROPERTIES ImplementsTimerService TasksAreRun
CHECK_DEADLOCK FALSE
