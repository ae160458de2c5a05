SPECIFICATION FairSpec
CONSTANTS
  MaxHistory = 2
  SegBytes = 6
  SnModulus = 8
  Targets = {1, 2}
  Makes <- MCMakes
  Jobs <- MCJobs
  Dictionary <- Objects
  MaxJobs = 2
  MaxInFlight = 1
INVARIANTS
  AtMostOnce
  WriteDelivered
PROPERTIES
  JobEnds
CHECK_DEADLOCK FALSE
