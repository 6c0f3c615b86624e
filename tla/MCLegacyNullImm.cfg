\* The main thread alone, direct Puts that rotate the memtable while a
\* detached MinorCompaction thread has not yet locked m_.
CONSTANTS
  v1 = v1
  v2 = v2
  DelSign = DelSign
  NotFound = NotFound
  Keys = {1, 2}
  Vals = {v1}
  MemLimit = 1
  CacheCap = 2
  NumWorkers = 1
  ClientOps <- FillOps
  MaxCalls = 3
SPECIFICATION Spec
INVARIANT NoNullDereference
