SPECIFICATION Spec
CONSTANTS
  MaxNodeId = 3
  Cns <- TwoCns
  Mandatory <- OneCn
  IsochronousNodes <- FirstOnly
  AsyncOnlyNodes <- SecondOnly
  MultiplexAssign <- EveryCycle
  MuxLen = 2
  PublishCycles <- FirstCycle
  StartupFlags <- AppConfFlags
  HasCfm = TRUE
  CycleTime = 2
  PresTimeout <- ShortPres
  AsyncTimeout = 1
  WaitNotActive = 1
  Reports = {"PreOp2"}
  EnFlags = {TRUE, FALSE}
  Priorities = {7}
  Senders = {1}
  IdentResults = {"matches", "oldConfiguration"}
  MaxRequests = 0
  MaxCommands = 1
  MaxBacklog = 0
  MaxSdo = 1
INVARIANTS
  WaitArmed
  SelfGrantUsed

  
