CONSTANTS
  MaxMsgs = 2
  MaxStarts = 2
SPECIFICATION Spec
INVARIANT SourcesHaveQueues
