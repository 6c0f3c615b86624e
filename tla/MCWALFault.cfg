\* The WAL alone, with one Flush of one record failing after 0 to
\* HeadSize bytes: blocks of 8 bytes with 3-byte headers, up to three
\* records of up to 7 bytes.  The merge, block and SSTable inputs are left
\* out (no tables, no restart intervals).
CONSTANTS
  a = a
  DelMark = DelMark
  MergeKeys = {}
  MergeVals = {DelMark}
  MaxTables = 0
  BlockSize = 8
  HeadSize = 3
  MaxRecords = 3
  MaxRecLen = 7
  Faults <- AllFaults
  KeyBytes = {1}
  MaxKeyLen = 1
  Intervals = {}
  MaxByte = 3
  LookupTag = 3
  TableBytes = {1}
  TableTags = {1}
  MaxTableKeys = 0
  TableBlockSizes = {}
  TableIntervals = {}
SPECIFICATION Spec
INVARIANT AckedRecordsRecovered
