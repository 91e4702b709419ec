CONSTANTS
  fMaxOutputPacketSize = 4
  MaxFrame = 11
SPECIFICATION FairSpec
INVARIANTS FInv FragmentsRejoin
PROPERTY NalUnitsEnd
