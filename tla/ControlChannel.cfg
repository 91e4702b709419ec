CONSTANTS
  MaxConnects = 2
  MaxPresses = 3
  MaxEnds = 1
  MaxParts = 1
SPECIFICATION FairSpec
INVARIANTS ChannelInv CheckIsTruthful
PROPERTIES CheckEnds StartReachesBoth
CHECK_DEADLOCK FALSE
