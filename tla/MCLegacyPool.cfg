\* Pooled Puts beside direct and pooled Gets with two pool workers: every
\* call returns unless a MinorCompaction thread crashed the process.  A
\* state where a call or a queued task is stuck violates CallsReturn, so
\* deadlock is left to that property.
CONSTANTS
  v1 = v1
  v2 = v2
  DelSign = DelSign
  NotFound = NotFound
  Keys = {1, 2, 3}
  Vals = {v1}
  MemLimit = 1
  CacheCap = 2
  NumWorkers = 2
  ClientOps <- PoolOps
  MaxCalls = 3
SPECIFICATION Spec
PROPERTY CallsReturn
CHECK_DEADLOCK FALSE
