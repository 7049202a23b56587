SPECIFICATION McSpec
CONSTANTS
  Call = {c1, c2, c3, c4}
  CallInfo = {1, 2, 3}
  ping = ping
  fetch = fetch
  CallType = {ping, fetch}
  Type <- MCType
  Waiter = {w1}
  Proc = {p1, p2, p3}
  NoFile = NoFile
  MaxCrashes = 1
  MaxRounds = 2
  Caller = {k1, k2, k3}
  foo = foo
  Foo = Foo
  https_foo = https_foo
  https_Foo = https_Foo
  ssh_foo = ssh_foo
  ssh_Foo = ssh_Foo
  Str <- MCStr
  Names = {foo, Foo, https_Foo}
  Fold <- MCFold
  Deduce <- MCDeduce
  None = None
INVARIANTS QuietAfterWait OneGateway
PROPERTIES  EveryoneReturns
CHECK_DEADLOCK FALSE
