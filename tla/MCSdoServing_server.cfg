SPECIFICATION FairSpec
CONSTANTS
  MaxHistory = 2
  SegBytes = 4
  SnModulus = 3
  Clients = {1, 2}
  Dictionary <- Objects
  Requests <- MCRequests
INVARIANTS
  UploadUntorn
  ResendReady
  RetriesBounded
PROPERTIES
  UploadEnds
