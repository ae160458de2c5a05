SPECIFICATION Spec
CONSTANTS
  n1 = n1
  CycleLen = 2
  SocTolerance = 1
  BasicEthernetTimeout = 3
  EmcyCapacity = 2
  MaxEntries = 1
  HbNodes <- NoHbNodes
  HbTimeout <- NoHbTimeout
  Commands <- AllCommands
  SoARequests <- AllSoARequests
  PollLatency = 1
  MaxTime = 2
  MaxRx = 5
  MaxPending = 1
INVARIANTS
  TypeOK
PROPERTIES
  EmergencyMeansFallback
  EmergencyFifo
  ImplementsLifecycle
