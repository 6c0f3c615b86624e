\* One writer and one reader while flushes, compactions and the nested flush run: the garbage sweep keeps every file still in use.
CONSTANTS
  w1 = w1
  w2 = w2
  r1 = r1
  v1 = v1
  v2 = v2
  Keys = {1, 2}
  Vals = {v1, v2}
  NumLevels = 3
  Writers = {w1}
  Readers = {r1}
  Batches <- MCBatches1
  SyncModes = {FALSE}
  WriteMemSize = 0
  L0CompactionThreshold = 2
  L0StopWriteThreshold = 3
  MaxFileEntries = 2
  BaseLevelEntries = 4
  SmallGroup = 1
  MaxGroup = 4
  MaxWrites = 4
  IOFaults = FALSE
SPECIFICATION Spec
INVARIANT SSTablesOnDisk
