SPECIFICATION Spec
CONSTANTS
  MaxHistory = 2
  EmbSeqs = 2
  MnDictionary <- MCMnDictionary
  CnDictionary <- MCCnDictionary
  Outputs <- OutObjects
  Inputs <- InObjects
  OutBox <- Place
  InBox <- Place
  MnLayouts <- MCMnLayouts
  CnLayouts <- MCCnLayouts
  MaxPicture = 2
  MaxChanges = 2
  MaxRequests = 4
INVARIANTS
  PictureWhole
  AnswerMatches
  ExecutedInOrder
