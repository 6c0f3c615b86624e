\* The merge: up to three tables over three keys, one value beside the
\* delete mark.  The WAL: blocks of 8 bytes with 3-byte headers (5 payload
\* bytes a block, trailers of 1 and 2 bytes), up to three records of up to
\* 7 bytes, written without I/O failures.  The block: every set of keys of
\* one or two bytes over {1, 2} (up to six keys), with restart intervals 1,
\* 2 and 3, sought with every target of up to three bytes.  The SSTable:
\* every run of one to three internal keys (user keys of one or two bytes
\* over {1, 3}, tags 1 and 2), with block sizes that cut a block after one
\* or after two or three entries, restart intervals 1 and 16 (the default),
\* sought and looked up with every user key of up to two bytes over 1..3.
CONSTANTS
  a = a
  DelMark = DelMark
  MergeKeys = {1, 2, 3}
  MergeVals = {a, DelMark}
  MaxTables = 3
  BlockSize = 8
  HeadSize = 3
  MaxRecords = 3
  MaxRecLen = 7
  Faults <- NoFaults
  KeyBytes = {1, 2}
  MaxKeyLen = 2
  Intervals = {1, 2, 3}
  MaxByte = 3
  LookupTag = 3
  TableBytes = {1, 3}
  TableTags = {1, 2}
  MaxTableKeys = 3
  TableBlockSizes = {14, 20}
  TableIntervals = {1, 16}
SPECIFICATION Spec
INVARIANT MergeIsNewest WALCrashRecoversPrefix BlockIterationInOrder
          BlockSeekFindsFirstGE TableIterationInOrder TableSeekFindsFirstGE
          InternalGetFindsNewest
