SPECIFICATION Spec
CONSTANTS
  MaxHistory = 2
  SegBytes = 4
  SnModulus = 3
  Clients = {1}
  Dictionary <- Objects
  Requests <- OneWrite
PROPERTIES
  ClosedIgnores
