SPECIFICATION FairSpec
CONSTANTS
  MaxNodeId = 2
  Cns <- OneCn
  Mandatory <- OneCn
  IsochronousNodes <- FirstOnly
  AsyncOnlyNodes <- NoList
  MultiplexAssign <- EveryCycle
  MuxLen = 1
  PublishCycles <- NoCycles
  StartupFlags <- NoFlags
  HasCfm = FALSE
  CycleTime = 2
  PresTimeout <- ShortPres
  AsyncTimeout = 1
  WaitNotActive = 1
  Reports = {"PreOp1", "PreOp2"}
  EnFlags = {TRUE, FALSE}
  Priorities = {7}
  Senders = {1}
  IdentResults = {"matches"}
  MaxRequests = 1
  MaxCommands = 0
  MaxBacklog = 0
  MaxSdo = 0
PROPERTIES
  PollEnds
  CyclesContinue
