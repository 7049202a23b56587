SPECIFICATION McSpec
CONSTANTS
  Procs = {p1, p2}
  NoProc = NoProc
  Listeners = {"l1", "l2"}
  Stats = {"missing", "s1", "s2"}
  MaxWatchers = 2
  MaxIntervals = 3
  MaxChanges = 2
  Names = {"f", "g"}
  MaxRetries = 1
  Users = {"u1", "u2"}
  TempNames = {"n1", "n2"}
  Makers = {"m1", "m2"}
  Depth = 2
  Changers = {"c1", "c2"}
  Texts = {"t1", "t2"}
  MaxRemovals = 2
  Deepest <- MCDeepest
  ZipNames = {"y.zip", "z.zip"}
  MaxTargets = 2
INVARIANTS  CopyHonest  HelpersSettle SplitAsOnDisk
PROPERTY NobodyForgotten
CHECK_DEADLOCK FALSE
