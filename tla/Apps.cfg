SPECIFICATION McSpec
CONSTANTS
  Posts = {"j1", "j2"}
  MaxTroubles = 1
  Jobs = {"j1", "j2"}
  MaxDeletes = 1
  Order <- MCOrder
  Protected = {"f"}
  Pakets <- MCPakets
  Suggest <- MCSuggest
  Requests = {"r1", "r2"}
  Todos = {"t1", "t2"}
  MaxMessages = 2
  MaxStarts = 2
  Spellings = {"a", "A", "b", "pip"}
  Canonical <- MCCanonical
  Ignored = {"pip"}
  MaxPkgs = 2
  MaxNamed = 1
  MaxDeps = 2
INVARIANTS LockIsWatched RecordsTrue   GraphComplete
 
CHECK_DEADLOCK FALSE
