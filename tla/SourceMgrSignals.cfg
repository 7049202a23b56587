SPECIFICATION SmSpec
CONSTANTS
  Call = {c1, c2}
  CallInfo = {1}
  CallType <- MCCallType
  Type <- MCType
  Main = 0
  Handler = {1, 2}
  Waiter = {0, 1, 2}
  NilCh = NilCh
  LateSigAPI = TRUE
INVARIANT NoClosePanic
CHECK_DEADLOCK FALSE
