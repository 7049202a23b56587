SPECIFICATION SmFairSpec
CONSTANTS
  Call = {c1, c2}
  CallInfo = {1}
  CallType <- MCCallType
  Type <- MCType
  Main = 0
  Handler = {1, 2}
  Waiter = {0, 1, 2}
  NilCh = NilCh
  LateSigAPI = FALSE
INVARIANTS CallsUnderLock ReturnMeansReleased
PROPERTY NobodyWaits
CHECK_DEADLOCK FALSE
