SPECIFICATION Spec
CONSTANTS
  Requests <- SomeRequests
  maxR = 1200
  NoWord = NoWord
INVARIANTS
  TypeOK
  WordMeetsRequest
  NothingMissed
CHECK_DEADLOCK FALSE
