\* One writer, one reader, flushes to level 0 (no compaction is triggered
\* below the level-0 threshold), I/O faults: DBImpl implements KVStore.
CONSTANTS
  w1 = w1
  w2 = w2
  r1 = r1
  v1 = v1
  v2 = v2
  Keys = {1}
  Vals = {v1, v2}
  NumLevels = 3
  Writers = {w1}
  Readers = {r1}
  Batches <- MCBatches2
  SyncModes = {TRUE}
  WriteMemSize = 0
  L0CompactionThreshold = 4
  L0StopWriteThreshold = 12
  MaxFileEntries = 2
  BaseLevelEntries = 4
  SmallGroup = 1
  MaxGroup = 4
  MaxWrites = 3
  IOFaults = TRUE
SPECIFICATION Spec
PROPERTY KVSpec
