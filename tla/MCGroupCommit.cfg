\* Two writers commit as one group: DBImpl no longer implements KVStore.
CONSTANTS
  w1 = w1
  w2 = w2
  r1 = r1
  v1 = v1
  v2 = v2
  Keys = {1, 2}
  Vals = {v1, v2}
  NumLevels = 3
  Writers = {w1, w2}
  Readers = {}
  Batches <- MCBatches1
  SyncModes = {FALSE}
  WriteMemSize = 0
  L0CompactionThreshold = 4
  L0StopWriteThreshold = 12
  MaxFileEntries = 2
  BaseLevelEntries = 4
  SmallGroup = 1
  MaxGroup = 4
  MaxWrites = 2
  IOFaults = FALSE
SPECIFICATION Spec
PROPERTY KVSpec
