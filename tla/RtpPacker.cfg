CONSTANTS
  HeaderSize = 2
  fPreferred = 7
  fMax = 8
  fLimit = 20
  MaxRestarts = 1
SPECIFICATION PackerFairSpec
INVARIANTS PackInv OverflowIsSafe FramesUnbroken RoomForFrames
PROPERTY OverflowIsSent
CHECK_DEADLOCK FALSE
