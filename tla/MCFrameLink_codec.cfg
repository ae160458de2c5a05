SPECIFICATION Spec
CONSTANTS
  MaxHistory = 2
  Messages <- AllMessages
  Eth <- TestEth
INVARIANTS
  IntactArrives
  CutNotMisread
