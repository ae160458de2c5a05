SPECIFICATION Spec
CONSTANTS
  MaxNodeId = 3
  Cns <- TwoCns
  Mandatory <- TwoCns
  IsochronousNodes <- BothInTurn
  AsyncOnlyNodes <- NoList
  MultiplexAssign <- SecondMultiplexed
  MuxLen = 2
  PublishCycles <- NoCycles
  StartupFlags <- NoFlags
  HasCfm = FALSE
  CycleTime = 2
  PresTimeout <- ShortPres
  AsyncTimeout = 1
  WaitNotActive = 1
  Reports = {"PreOp2", "CsStopped"}
  EnFlags = {FALSE}
  Priorities = {7}
  Senders = {1, 2}
  IdentResults = {"matches"}
  MaxRequests = 0
  MaxCommands = 0
  MaxBacklog = 0
  MaxSdo = 0
INVARIANTS
  TypeOK
  WaitArmed
PROPERTIES
  ImplementsBoot
