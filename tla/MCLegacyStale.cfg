\* The main thread alone, direct Put and Get: GetReturnsLatest.
CONSTANTS
  v1 = v1
  v2 = v2
  DelSign = DelSign
  NotFound = NotFound
  Keys = {1, 2, 3}
  Vals = {v1, v2}
  MemLimit = 2
  CacheCap = 2
  NumWorkers = 1
  ClientOps <- SeqOps
  MaxCalls = 6
SPECIFICATION Spec
INVARIANT GetReturnsLatest
