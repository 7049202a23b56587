SPECIFICATION McSpec
CONSTANTS
  ZipFile = "zip"
  DiskFile = "disk"
  Datas <- MCDatas
  MaxHandles = 2
  MaxWrites = 1
  Paths = {"p", "q"}
  Existing = "p"
  Standard = {0}
  MaxFd = 2
  MaxOpens = 3
  MaxSize = 1
  Page = 2
  MinHeap = 4
  MaxHeap = 8
  MaxTries = 2
  MaxLeaks = 3
  Chars = {65, 127, 128, 2047, 2048, 65535, 65536, 1114111}
  MaxChars = 3
  MaxParts = 3
INVARIANTS FormsRight HandlesTrue StreamsKept ViewsFresh  ConversionsRight
CHECK_DEADLOCK FALSE
