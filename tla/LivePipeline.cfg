CONSTANTS
  MaxWaiting = 2
  MaxFrags = 1
SPECIFICATION FairSpec
INVARIANTS PInv OneWakeUp StoppedSinkIsQuiet
PROPERTIES TriggersAreServed StopEndsLoop
CHECK_DEADLOCK FALSE
