CONSTANTS
  MaxMsgs = 3
  MaxStarts = 2
SPECIFICATION FairSpec
INVARIANTS IInv NoUseAfterFree CleanShutdown SamplesReachTheLoop
PROPERTIES StopNotForgotten StopBringsServerDown ImplementsLifecycle
