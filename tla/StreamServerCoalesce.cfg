CONSTANTS
  MaxMsgs = 2
  MaxStarts = 1
SPECIFICATION Spec
INVARIANT NoCommandLost
