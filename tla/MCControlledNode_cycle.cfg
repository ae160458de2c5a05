SPECIFICATION Spec
CONSTANTS
  n1 = n1
  CycleLen = 2
  SocTolerance = 1
  BasicEthernetTimeout = 3
  EmcyCapacity = 1
  MaxEntries = 1
  HbNodes <- OneHbNode
  HbTimeout <- OneHbTimeout
  Commands <- CycleCommands
  SoARequests <- NoSoARequests
  PollLatency = 0
  MaxTime = 9
  MaxRx = 1
  MaxPending = 0
INVARIANTS
  SupervisionArmed
  SilenceBounded
PROPERTIES
  ImplementsLifecycle
