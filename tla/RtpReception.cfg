CONSTANTS
  Modulus = 8
  First = 5
  MaxPackets = 3
  Reach = 3
  fThresholdTime = 1
  fMaxSize = 1
  MaxChanges = 2
  OtherParts = {}
  OtherUnits = {5}
SPECIFICATION FairSpec
INVARIANTS   ExtendedNumbersCount
PROPERTY PacketsMoveOn
