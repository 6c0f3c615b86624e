\* Two writers, the level-0 stall and imm_ waits, compactions, I/O faults:
\* only the front writer leads, a reader never sees half a group, every
\* DB::Write returns under weak fairness of the threads, and the
\* memtable never holds an entry that has no WAL record, and the WAL
\* records follow the sequence order.  The DB stops when
\* its clients stop calling; WriteReturns says that no such stop leaves a
\* writer waiting, so a stop is not reported as a deadlock here.
CONSTANTS
  w1 = w1
  w2 = w2
  r1 = r1
  v1 = v1
  v2 = v2
  Keys = {1, 2}
  Vals = {v1, v2}
  NumLevels = 3
  Writers = {w1, w2}
  Readers = {}
  Batches <- MCBatches1
  SyncModes = {FALSE, TRUE}
  WriteMemSize = 0
  L0CompactionThreshold = 2
  L0StopWriteThreshold = 2
  MaxFileEntries = 2
  BaseLevelEntries = 4
  SmallGroup = 1
  MaxGroup = 4
  MaxWrites = 3
  IOFaults = TRUE
SPECIFICATION FairSpec
INVARIANT TypeOK SingleLeader PublishedOrInFlight MemInLiveWAL WALInSequenceOrder
PROPERTY WriteReturns
CHECK_DEADLOCK FALSE
