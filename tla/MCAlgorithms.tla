---------------------------- MODULE MCAlgorithms ----------------------------
(***************************************************************************)
(* The pure algorithms of the code, each checked against its reference    *)
(* over every small input: the k-way merge of the legacy MajorCompaction  *)
(* (LegacyMerge), the write-ahead log format (LogFormat), and the SSTable *)
(* block format (SSTableBlock).  An initial state is one input; Next only *)
(* stutters.                                                               *)
(***************************************************************************)
EXTENDS Naturals, Sequences, FiniteSets

CONSTANTS
  MergeKeys, MergeVals, DelMark, MaxTables,   \* LegacyMerge's inputs
  BlockSize, HeadSize,                        \* the scaled WAL block
  MaxRecords,  \* bound: records appended to one log
  MaxRecLen,   \* bound: bytes in one record
  Faults,      \* Flush failures enumerated: {NoFail}, or every failure
  KeyBytes,    \* the byte values block keys are made of
  MaxKeyLen,   \* bound: bytes in a block key
  Intervals,   \* block_restart_interval values
  MaxByte,     \* 0xff, scaled down
  LookupTag,   \* the tag of KMaxSequenceNum, above every entry's tag
  TableBytes,  \* the bytes of the user keys of SSTable entries
  TableTags,   \* the tags (sequence and type) of SSTable entries
  MaxTableKeys,    \* bound: entries in one SSTable
  TableBlockSizes, \* block_size values
  TableIntervals   \* block_restart_interval values of the data blocks

Merge == INSTANCE LegacyMerge
Log   == INSTANCE LogFormat
Cmp   == INSTANCE Comparator
Blk   == INSTANCE SSTableBlock WITH Less <- LAMBDA a, b : Cmp!BytewiseLess(a, b)
Sst   == INSTANCE SSTable

\* Every Flush failure: fragment `at` of record `rec` writes `keep` bytes.
AllFaults ==
  {Log!NoFail} \cup
  [rec : 1..MaxRecords, at : 1..2, keep : 0..HeadSize]

\* The runs' choices of Faults.
NoFaults == {Log!NoFail}

MergeInputs ==
  {[alg |-> "merge", kv |-> kv, last |-> last] :
     kv \in UNION {[1..n -> Merge!Tables] : n \in 1..MaxTables},
     last \in BOOLEAN}

WALInputs ==
  {[alg |-> "wal", lens |-> lens, fail |-> fail] :
     lens \in UNION {[1..n -> 0..MaxRecLen] : n \in 1..MaxRecords},
     fail \in Faults}

\* Byte strings of length lo..hi.
Strings(lo, hi) == UNION {[1..n -> KeyBytes] : n \in lo..hi}

\* The set S of keys in bytewise order.
SortBy(S, Lt(_, _)) ==
  [i \in 1..Cardinality(S) |-> CHOOSE x \in S : Cardinality({y \in S : Lt(y, x)}) = i - 1]
SortKeys(S) == SortBy(S, Cmp!BytewiseLess)

BlockInputs ==
  {[alg |-> "block", keys |-> SortKeys(S), interval |-> i] :
     S \in SUBSET Strings(1, MaxKeyLen), i \in Intervals}

\* Internal keys: a user key of one or two bytes and a tag.
TableKeys ==
  {Cmp!InternalKey(u, g) : u \in UNION {[1..n -> TableBytes] : n \in 1..2}, g \in TableTags}

\* Every non-empty sorted run of up to MaxTableKeys entries, as the memtable
\* or a compaction hands them to the builder, with the table BuildSSTable
\* writes for it (built once per input).
TableInput(keys, i, b) ==
  [alg |-> "table", keys |-> keys, interval |-> i, blockSize |-> b,
   table |-> Sst!BuildSSTable(keys, i, b)]
TableInputs ==
  {TableInput(SortBy(S, Cmp!InternalLess), i, b) :
     S \in {S \in SUBSET TableKeys : S # {} /\ Cardinality(S) <= MaxTableKeys},
     i \in TableIntervals, b \in TableBlockSizes}

VARIABLE input

Init == input \in MergeInputs \cup WALInputs \cup BlockInputs \cup TableInputs
Next == UNCHANGED input
Spec == Init /\ [][Next]_input

\* The log DBImpl::Write builds from the input's records.
Written == Log!WriteLog(Log!NewLog, input.lens, 1, input.fail)

\* The payloads of the records 1..n with indices in seq.
Payloads(seq) == [k \in 1..Len(seq) |-> Log!Payload(seq[k], input.lens[seq[k]])]

\* The records whose last byte lies within the first t bytes of the file.
DurableBy(ends, t) == {i \in DOMAIN ends : ends[i] <= t}

\* The block the table builder writes for the input's keys.
Block == Blk!BuildBlock(input.keys, input.interval)

\* The iterator after SeekToFirst and n calls of Next.
RECURSIVE IterAt(_, _)
IterAt(blk, n) ==
  IF n = 0 THEN Blk!SeekToFirst(blk, Blk!NewIter(blk))
  ELSE Blk!SeekNextKey(blk, IterAt(blk, n - 1))

\* The iterator stands on entry i (1-based) of the keys, or is not valid
\* when i is 0 or past the end.
At(blk, it, keys, i) ==
  IF i \in 1..Len(keys)
  THEN Blk!Valid(it, blk) /\ it.key = keys[i] /\ it.value = i
  ELSE ~Blk!Valid(it, blk)

\* Where an iterator may be when Seek is called: not valid, or on a key.
Starts(blk, keys) == {Blk!NewIter(blk)} \cup {IterAt(blk, n) : n \in 0..Len(keys) - 1}

\* The index of the first key >= t (Len + 1 when none).
FirstGEBy(keys, t, Lt(_, _)) ==
  IF \E i \in 1..Len(keys) : ~Lt(keys[i], t)
  THEN CHOOSE i \in 1..Len(keys) : ~Lt(keys[i], t) /\ \A j \in 1..i - 1 : Lt(keys[j], t)
  ELSE Len(keys) + 1
FirstGE(keys, t) == FirstGEBy(keys, t, Cmp!BytewiseLess)

SeekOK(blk, keys, it, i) ==
  /\ At(blk, it, keys, i)
  /\ At(blk, Blk!SeekNextKey(blk, it), keys, IF i > Len(keys) THEN 0 ELSE i + 1)
  /\ i <= Len(keys) => At(blk, Blk!Prev(blk, it), keys, i - 1)

\* The table BuildSSTable wrote for the input, and the lookup keys: a user
\* key of up to two bytes of any value with an entry's tag or the lookup tag.
Table == input.table
Targets ==
  {Cmp!InternalKey(u, g) : u \in UNION {[1..n -> 1..MaxByte] : n \in 0..2},
                           g \in TableTags \cup {LookupTag}}

\* The two-level iterator after SeekToFirst and n Nexts, or SeekToLast and
\* n Prevs.
RECURSIVE TIterAt(_, _)
TIterAt(t, n) ==
  IF n = 0 THEN Sst!SeekToFirst(t, Sst!NewIterator(t)) ELSE Sst!Next(t, TIterAt(t, n - 1))
RECURSIVE TBackAt(_, _)
TBackAt(t, n) ==
  IF n = 0 THEN Sst!SeekToLast(t, Sst!NewIterator(t)) ELSE Sst!Prev(t, TBackAt(t, n - 1))

\* The iterator stands on entry i, or is not valid when i is 0 or past the end.
TAt(t, ti, keys, i) ==
  IF i \in 1..Len(keys)
  THEN Sst!Valid(t, ti) /\ ti.data.key = keys[i] /\ ti.data.value = i
  ELSE ~Sst!Valid(t, ti)

TStarts(t, keys) == {Sst!NewIterator(t)} \cup {TIterAt(t, n) : n \in 0..Len(keys) - 1}

TSeekOK(t, keys, ti, i) ==
  /\ TAt(t, ti, keys, i)
  /\ i <= Len(keys) => TAt(t, Sst!Next(t, ti), keys, i + 1)

\* InternalGet's answer g for target tgt, whose first entry >= tgt is i.
GetOK(g, keys, i, tgt) ==
  /\ g.found => i <= Len(keys) /\ g.key = keys[i] /\ g.value = i
  /\ i <= Len(keys) /\ Cmp!UserKey(keys[i]) = Cmp!UserKey(tgt) => g.found

---------------------------------------------------------------------------
(* Properties.                                                             *)

\* The merge loop of MajorCompaction writes, in key order, each key once
\* with the value of the newest table that holds it (a larger index is
\* newer), and drops delete marks only at the last level.
MergeIsNewest ==
  input.alg = "merge" =>
    Merge!CodeMerge(input.kv, input.last) = Merge!Reference(input.kv, input.last)

\* A crash may cut the WAL after any byte.  RecoverLogFile's reader then
\* returns exactly the records AddRecord finished before the cut, in
\* order: block trailers, fragments split across blocks and a torn last
\* fragment are all read correctly.
WALCrashRecoversPrefix ==
  input.alg = "wal" =>
    \A t \in 0..Len(Written.w.file) :
      Log!Recover(SubSeq(Written.w.file, 1, t)) =
        Payloads([k \in 1..Cardinality(DurableBy(Written.ends, t)) |-> k])

\* Every record whose Write returned ok is replayed by recovery, in order,
\* and nothing else is: what DBImpl::Write acknowledged survives a restart.
AckedRecordsRecovered ==
  input.alg = "wal" => Log!Recover(Written.w.file) = Payloads(Written.acked)

\* A block BlockBuilder wrote, with any restart interval, reads back in
\* order: SeekToFirst and Next visit every key once with its value, Prev
\* from each key steps to the one before (across restart points), and
\* SeekToLast stands on the last key.
BlockIterationInOrder ==
  input.alg = "block" =>
    /\ \A n \in 0..Len(input.keys) : At(Block, IterAt(Block, n), input.keys, n + 1)
    /\ \A n \in 0..Len(input.keys) - 1 :
         At(Block, Blk!Prev(Block, IterAt(Block, n)), input.keys, n)
    /\ At(Block, Blk!SeekToLast(Block, Blk!NewIter(Block)), input.keys, Len(input.keys))

\* Seek of any target, from an iterator that is not valid or stands on any
\* key, lands on the first key >= the target (binary search over the
\* restart points, the shortcut from the current position, the linear
\* scan), and leaves the iterator so that Next and Prev step from there.
BlockSeekFindsFirstGE ==
  input.alg = "block" =>
    \A t \in Strings(0, MaxKeyLen + 1), it \in Starts(Block, input.keys) :
      SeekOK(Block, input.keys, Blk!Seek(Block, it, t), FirstGE(input.keys, t))

\* An SSTable BuildSSTable wrote reads back through the two-level iterator
\* in order, forward from SeekToFirst and backward from SeekToLast, across
\* the data blocks the index names; and the file's meta records its first
\* and last key.
TableIterationInOrder ==
  input.alg = "table" =>
    /\ Table.meta.smallest = input.keys[1]
    /\ Table.meta.largest = input.keys[Len(input.keys)]
    /\ \A n \in 0..Len(input.keys) :
         /\ TAt(Table, TIterAt(Table, n), input.keys, n + 1)
         /\ TAt(Table, TBackAt(Table, n), input.keys, Len(input.keys) - n)

\* The two-level iterator's Seek, from a fresh iterator or one standing on
\* any entry (so that the open data block may be kept), lands on the first
\* entry >= the target, also when the target falls between a block's last
\* key and its separator in the index.
TableSeekFindsFirstGE ==
  input.alg = "table" =>
    \A tgt \in Targets, ti \in TStarts(Table, input.keys) :
      TSeekOK(Table, input.keys, Sst!Seek(Table, ti, tgt),
              FirstGEBy(input.keys, tgt, Cmp!InternalLess))

\* InternalGet, which searches only the one data block the index names,
\* returns the first entry >= the lookup key whenever that entry has the
\* lookup key's user key (what TableCache::Get's callback accepts), and
\* never returns any other entry: the separators FindShortestMiddle and
\* FindShortestBigger put in the index never send a lookup to the wrong
\* block.
InternalGetFindsNewest ==
  input.alg = "table" =>
    \A tgt \in Targets :
      GetOK(Sst!InternalGet(Table, tgt), input.keys,
            FirstGEBy(input.keys, tgt, Cmp!InternalLess), tgt)

=============================================================================
