SPECIFICATION Spec
CONSTANTS
  Addrs = {1}
  Multicast = {1}
  Ports = {1, 2}
  Ttls = {1, 255}
  Ids = {0, 1}
  GroupAddr = 1
  GroupPort = 1
  GroupTtl = 255
  SocketTtl = 1
  RtpPort = 2
  MaxDests = 3
INVARIANTS DestinationsInv OwnTtl SessionIsUndone
