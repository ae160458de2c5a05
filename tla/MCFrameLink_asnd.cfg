SPECIFICATION Spec
CONSTANTS
  MaxHistory = 2
  Messages <- CnResponses
  Eth <- TestEth
INVARIANTS
  AsndCarriesServices
