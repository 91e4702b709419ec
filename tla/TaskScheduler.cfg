CONSTANTS
  Sockets = {0, 1, 2}
  ConditionSets = {{"read"}, {"read", "write"}}
  MAX_NUM_EVENT_TRIGGERS = 2
  Clients = {c1, c2}
  NULL = NULL
SPECIFICATION FairSpec
INVARIANTS SchedulerInv EventsKeepTheirOwner
PROPERTIES EventsAreHandled SocketsAreHandled
