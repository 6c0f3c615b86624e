# TLA+ models of lsmkv

This directory holds TLA+ models of the LSM-tree key-value store in
`src/lsmkv`. It has the modules, the TLC configurations that check them,
and `PROJECT.json`. `PROJECT.json` lists every component, run, mutant,
finding and hazard, and maps every modelled definition to the source lines
it translates.

## The system

`DBImpl` (`src/lsmkv/db/dbimpl.cc`) implements the interface of
`include/db.h`: `Put`, `Delete`, `Write(batch)` and `Get`.

- **Writers.** Threads calling `Write` queue on `writers_`. The front one
  becomes the *leader*:
  - it makes room (`MakeRoomForWrite`);
  - it merges the batches of the writers behind it (`MergeBatchGroup`);
  - it numbers the merged batch from `last_sequence_ + 1`;
  - with `mu_` released, it appends the batch to the WAL, syncs when asked,
    and inserts it into the memtable `mem_`;
  - with `mu_` held again, it publishes the sequence number, completes its
    followers and wakes the next writer.
- **Memtable rotation.** When `mem_` is full, `MakeRoomForWrite` opens a new
  WAL, turns `mem_` into `imm_` and schedules the background thread.
  Writers wait on `background_cv_` while `imm_` is still there or while
  level 0 has too many files.
- **Readers.** `Get` takes `last_sequence_`, `mem_`, `imm_` and `current_`
  under `mu_`. It then probes them without the lock: the memtables first,
  then level 0 newest file first, then one file per deeper level
  (`Version::Get`).
- **Background thread.** `Env::Schedule` has one background thread.
  `BackgroundCompactionCall` runs on it:
  - it either flushes `imm_` to a level-0 SSTable (`CompactionMemtable`),
    or picks a compaction (`VersionSet::PickCompaction`);
  - a pick is either a *single move* of one file one level down, or a merge
    (`DoCompactionLevel`);
  - the merge runs without `mu_`, writes output files, flushes a new `imm_`
    in the middle if one appears, and installs the result with
    `LogAndApply`;
  - after each change, `GarbageFilesClean` deletes the SSTables no live
    Version uses and the WALs below the manifest's log number;
  - an I/O failure becomes `background_status_`, which stops all further
    background work.

### The older engine in `src/src`

`KVStore` of `src/src/kvstore.cc` (header `src/include/kvstore.h`) is a
second, simpler store:

- **Put** (lines 56-81) takes `read_write_m_` exclusively. When the key is
  new and the memtable is full, it waits on `cv_` for `kv_store_mode_ ==
  normal`, moves `mem_table_` to `immutable_table_` and starts a detached
  thread running `MinorCompaction`. It then writes the memtable and, when
  `to_cache` is set, `cache_`.
- **Get** (lines 87-134) answers from `cache_`, then the memtable, then
  the immutable table; it waits while the mode is `compact`, then scans
  the levels' `std::set<TableCache>` from level 0 down.
- **Del** is a Put of `kDelSign`; `PutTask`, `GetTask` and `DelTask`
  push the call into `pool_`, a `ThreadPool` (`include/thread_pool.h`).
- **MinorCompaction** (lines 179-198) locks `m_`, sets the mode to
  `compact`, writes the immutable table to level 0, runs
  `MajorCompaction(1)`, clears `immutable_table_`, resets the mode and
  notifies `cv_`.
- **MajorCompaction** (lines 200-329) compacts a level that holds more
  than 2^(i+1) files into the next one, with a k-way merge of the inputs
  (`min_key` and `Update`), and recurses downward.
- **`cache_`** is a `caches::FixedSizedCache` (`include/cache.h`) with an
  LRU policy; FIFO and LFU policies are in the same headers.

## Modules

| Module | Models | Kind |
|---|---|---|
| `LSMFormat` | internal keys and their order (`internal_key.h/.cc`), memtable lookup (`memtable.cc`), files and Versions, `FindFile`, `Version::ForEachFile` / `Version::Get`, `DBImpl::Get`'s lookup order | operators |
| `Compaction` | `EvalCompactionScore`, `GetRange`, `GetOverlappingFiles`, `AddBoundaryInputs`, `PickCompaction`, `SingalMove`, `IsBaseLevelForKey`, the drop rule of the merge loop, the merged iterator | operators, RECURSIVE where the code loops |
| `DBImpl` | the writer threads, reader threads and background thread, and the properties | state machine |
| `KVStore` | what `include/db.h` promises: an atomic map, with writes that take effect in groups in some order, or fail with no effect | abstract specification |
| `MCDBImpl` | the model values and batch sets the `.cfg` files use | TLC instance |
| `ThreadPool` | `include/thread_pool.h`: the worker loop with the `cond_.wait` split into predicate test and block, `Enqueue` with `notify_one` after unlocking, `~ThreadPool` | state machine |
| `LegacyCache` | `FixedSizedCache` and its LRU, FIFO and LFU policies as operators on a record `[items, order]` | operators |
| `FixedSizedCache` | client calls of `Put`, `Get` (of a key `Cached` reports) and `Remove` on one cache, with a history of insertions and uses | state machine |
| `LRUCache` | the DB's sharded, reference-counted LRU cache (`util/cache.cc`: `Lookup`, `Insert` with its eviction loop, `Release`, `Erase`, `Ref`, `Unref`, `FinishErase`) under `TableCache`'s threads (`FindTable` split at its unlocked file open, `Get`, the iterator cleanup, `Evict`) | state machine |
| `SkipList` | the memtable's skip list (`skiplist.h`): `Insert` as a search step and one step per level linked, and the lock-free `FindGreaterOrEqual`, `FindLess` and `FindLast` one pointer load per step | state machine |
| `MCStructures` | three client programs, one chosen in Init: one call sequence against an LRU, a FIFO and an LFU `FixedSizedCache` at once; two `TableCache` threads over `LRUCache`; the skip list's writer beside a reader | composition, TLC instance |
| `LegacyMerge` | the k-way merge of `MajorCompaction` (`min_key`, the recursive `Update`, lines 159-176 and 255-311) against the newest-value reference | RECURSIVE operators |
| `LogFormat` | the WAL format (`db/log`): `Writer::AddRecord` cutting a record into fragments and block trailers, `WritePhysicalRecord` over a `WritableFile` whose `Flush` may fail partway, `Reader::ReadRecord`/`ReadPhysicalRecord` with the CRC, bad-record and EOF paths, and `RecoverLogFile`'s read loop | RECURSIVE operators |
| `SSTableBlock` | an SSTable block (`block_builder.cc`, `block_reader.cc`): `BlockBuilder::Add` with prefix compression and a restart point every `block_restart_interval` keys, `Finish`, `Reset`, and `BlockReader::Iter`'s `SeekToFirst`, `Next`, `Prev`, `SeekToLast` and `Seek` (binary search over restart points, the shortcut from a valid position, the linear scan) | RECURSIVE operators |
| `Comparator` | `ByteWiseComparator` (`util/comparator.cc`) and `InternalKeyComparator` (`db/format/internal_key.cc`): the bytewise and internal-key orders, and the separators `FindShortestMiddle` and `FindShortestBigger` in both | RECURSIVE operators |
| `SSTable` | the two-level table: `BuildSSTable` and `SSTableBuilder` (`Add`, `Flush`, `WriteBlock`, `WriteRawBlock`, `Finish` with the filter index, index block and footer), `SSTableReader`'s `Open`, `InternalGet` and `NewIterator`, and `TwoLevelIterator` (`util/iterator.cc`: `Seek*`, `Next`, `Prev`, `UpdateDataBlock`, `SkipEmptyDataBlock`) | RECURSIVE operators |
| `MCAlgorithms` | the pure algorithms (`LegacyMerge`, `LogFormat`, `SSTableBlock`, `SSTable`) checked over every small input, one input per initial state | TLC instance |
| `LegacyKVStore` | the older engine: `Put`/`Get`/`Del`, their pooled forms through an `INSTANCE` of `ThreadPool`, the detached `MinorCompaction` threads, the recursive `MajorCompaction`, `cache_` through an `INSTANCE` of `LegacyCache` | composition |
| `MCLegacyKVStore` | the call sets of the legacy runs | TLC instance |

### How DBImpl's state and actions match the code

- **Variables** correspond to fields:
  - `writers` is `writers_`, and `wpc` says where each writer thread is;
  - `mem`/`imm` are `mem_`/`imm_`;
  - `lastSeq`, `nextFile`, `vsLogNumber`, `current` and `compactPointer`
    are the VersionSet's fields;
  - `logfileNumber` is `logfile_number_`, and `curLog` is the WAL that
    `log_` writes to;
  - `logs` are the WAL files on disk and `disk` the SSTables on disk;
  - `filesWriting` is `files_writing_`;
  - `bgStatus` and `bgScheduled` are `background_status_` and
    `background_scheduled_`;
  - `comp` is the running `CompactionState`.
- **Data is abstracted:**
  - a key is a small integer and a value a model value;
  - a batch is a sequence of operations;
  - a WAL record is a whole batch with its first sequence number;
  - an SSTable is its number and set of entries;
  - sizes are counted in entries (`WriteMemSize`, `MaxFileEntries`,
    `BaseLevelEntries`).
- **Each action is one critical section of `mu_`, or one stretch of code
  that runs without it.** The write path has these actions:
  - `BeginWrite`;
  - `WriterWakes` (the wait loop);
  - `MakeRoomBreak`, `MakeRoomWait`, `MakeRoomRotate` and
    `MakeRoomRotateFail` (one loop iteration each; the breaking iteration
    also runs `MergeBatchGroup` and numbering, which follow it under the
    same lock);
  - `WriteLog` (AddRecord and Sync, unlocked);
  - `WriteInsert` (InsertMemTable, unlocked);
  - `FinishWrite` (lines 277-299);
  - `WriteReturn`.

  The other threads have these actions:
  - readers: `GetSnapshot` (locked) and `GetRead` (unlocked lookup);
  - background: `BgCallError`, `BgCallMove`,
    `BgCallFlush` → `FlushEnd`, and `BgCallCompact` → `CompactStep`* /
    `CompactNestedFlush` → `CompactFinish`.
- **Failures.** Each file operation that can fail takes an `ok` flag from
  `Faults` when the constant `IOFaults` is TRUE. The operations are WAL
  creation, WAL close, AddRecord, Sync, SSTable build, output write and
  manifest write. The error path of the code follows each one.

### How the legacy modules match the code

- **ThreadPool.** `tasks`, `stop`, `mutex` are `tasks_`, `stop_`,
  `mutex_`; `wpc` is where each worker is in its loop and `running` the
  task it popped; `opc` is the owner thread (an `Enqueue`'s notify, or
  `~ThreadPool`). `cond_.wait(lock, pred)` is `while (!pred()) wait()`:
  `WorkerLock` locks (or relocks after a wakeup), `WorkerCheckWait` /
  `WorkerExit` / `WorkerPop` are the outcomes of the predicate under the
  lock, and `WorkerBlock` is `wait()` releasing the lock and blocking in
  one step. `Enqueue` pushes under the lock and `EnqueueNotify` is the
  `notify_one` after it; `DestroyStop` stores `stop_` without the lock,
  then `DestroyNotifyAll` and `DestroyJoin` follow.
- **LegacyCache / FixedSizedCache.** A cache is `[items, order]`:
  `cache_items_map_` and the policy's container front first (`lru_queue_`,
  `fifo_queue_`, or `frequency_storage_` with its counts). Each public
  call holds `mutex_` throughout, so it is one step. `CachePut` is the
  whole of `Put`, eviction of `ReplCandidate()` included. The LFU
  `emplace_hint` positions are modelled by where libstdc++ puts an equal
  key for that hint.
- **LegacyKVStore.** `mem`/`imm` are `mem_table_`/`immutable_table_`
  (`<<>>` for nullptr), `mode` is `kv_store_mode_`, `m` holds `m_`, `rwW`
  and `rwR` hold `read_write_m_` exclusively or shared, `store` is
  `sstable_meta_info_` and `level_num_vec_`, and `minor` counts detached
  `MinorCompaction` threads that have not locked `m_` yet. The pool's
  variables are those of `ThreadPool`, through `INSTANCE`. Each client
  thread (the main thread and every worker running a task) steps through
  `PutFast` or `PutBlock`/`PutWait`, and `GetFast` or
  `GetSlow`/`GetMode`/`GetScan`: one action per stretch between two
  waits on `cv_`. A compaction thread runs `MinorStart` (lock `m_`, mode
  compact, write level 0) or `MinorCrash` (it finds `immutable_table_`
  null), then `MinorFinish`, whose `MajorCompaction` is a RECURSIVE
  operator that returns every result the code can produce. The one open
  choice is the order of `std::priority_queue` among tables that
  compare equal, which the standard leaves unspecified.
- **`std::set<TableCache>`** is a set with `SetInsert`, which ignores a
  table equivalent under `TableCache::operator<` to one it holds, exactly
  as `std::set::insert` does.

## Runs

The DB runs use 3 levels, 2 entries per output file, 4 entries for level 1,
and write_mem_size 0, so every write rotates the memtable.

| Run | cfg | Checks | Result |
|---|---|---|---|
| liveness | MCLiveness | TypeOK, SingleLeader, PublishedOrInFlight, MemInLiveWAL, WALInSequenceOrder, WriteReturns | pass (about 202k states) |
| gc_safety | MCGCSafety | SSTablesOnDisk | pass (about 195k states) |
| refinement | MCRefinement | KVSpec (DBImpl implements KVStore) | pass (about 73k states) |
| group_commit_lost_writes | MCGroupCommit | KVSpec | violation |
| compaction_drops_newest | MCCompactionView | BackgroundKeepsView | violation |
| structures | MCStructures | PolicyTracksItemsAll, EvictsVictimAll, RefsCountHolders, CacheStructureConsistent, ListsSortedNested, SearchLinearizable | pass (about 265k states) |
| legacy_pool | MCLegacyPool | CallsReturn | pass (about 58k states) |
| algorithms | MCAlgorithms | MergeIsNewest, WALCrashRecoversPrefix, BlockIterationInOrder, BlockSeekFindsFirstGE, TableIterationInOrder, TableSeekFindsFirstGE, InternalGetFindsNewest | pass (about 38k inputs) |
| wal_io_failure | MCAlgorithms (MCWALFault.cfg) | AckedRecordsRecovered | violation |
| pool_shutdown_hangs | MCPoolShutdown | DestructorReturns | violation |
| legacy_stale_read | MCLegacyStale | GetReturnsLatest | violation |
| legacy_null_immutable | MCLegacyNullImm | NoNullDereference | violation |

What the passing runs show:

- **liveness** (two writers, synchronous and not, flushes and
  compactions, a stall threshold of 2 level-0 files, I/O faults):
  - only the writer at the front of `writers_` ever runs the unlocked
    section;
  - every memtable entry is either published or belongs to the one group
    in flight, so a reader's snapshot never sees half a group;
  - the WAL records follow sequence order across files;
  - every memtable entry is in a WAL file that the garbage sweep keeps;
  - every `Write` returns under the fairness below;
  - this run uses `CHECK_DEADLOCK FALSE` because the DB rightly stops when
    its clients stop calling. `WriteReturns` is what says that no stop
    leaves a writer waiting.
- **gc_safety** (a writer and a reader):
  - the garbage sweep never deletes a file that is in `current_`, in a
    Version a reader holds, or in a running compaction, its unfinished
    outputs included;
  - this includes a sweep run by a flush nested inside the compaction.
- **refinement** (a writer, a reader, puts and deletes of one key, I/O
  faults):
  - the whole DBImpl behaves as the atomic map of `KVStore`;
  - the refinement mapping takes the map to be what `Get` returns at
    `last_sequence_`, and a writer to be pending until its group is
    published.
- **structures** (three programs, one per behaviour, so their state
  spaces add up):
  - legacy caches (capacity 2, three keys, seven calls, the same calls to
    all three policies): each `Put` of a new key into a full cache evicts
    the policy's victim, computed from a history of insertions and uses
    (least recently used, first inserted, least used). Through `Remove`,
    the FIFO queue and the LFU multimap list exactly the cached keys.
    `Remove` is not sent to the LRU cache (see the defects below);
  - table cache (two threads, three files, capacity 2 split over two
    shards, five handles): a handle's `refs` is always its holders plus
    one while it is cached. So no thread's table is freed under it, and
    none is leaked, through duplicate `Insert`s of one file by two threads
    that both missed, `Evict` of a held table, and eviction. `lru_` holds
    exactly the cached, unheld entries (the only ones `Insert` evicts),
    `in_use_` the held ones, and `HandleTable` and `usage_` agree;
  - skip list (three keys, heights up to 3, one reader): between any two
    steps of `Insert` every level is sorted and inside the level below.
    A `Seek`, `Prev` or `SeekToLast` running beside the writer returns a
    result consistent with some moment of its run: no key already in the
    list when it began lies between its key and its result.
- **legacy_pool** (two workers, memtable of one entry, three calls: pooled
  Puts of two keys beside direct and pooled Gets, one of a key never put):
  every call a client thread starts returns and every queued task is run,
  unless the process died. This covers the `cv_` waits of Put and Get
  against the detached compaction threads, and the `notify_one` after
  `Enqueue` unlocks. `CHECK_DEADLOCK FALSE`: the program stops when the
  main thread has made its calls, and `CallsReturn` says no stop leaves a
  call waiting.
- **algorithms** (every small input, one per initial state):
  - the legacy `min_key`/`Update` merge (up to three tables over three
    keys, values or delete marks, at a last level or not) writes each key
    once, in key order, with the value of the newest table, and drops
    delete marks only at the last level;
  - the WAL (blocks of 8 bytes with 3-byte headers, up to three records
    of 0 to 7 bytes, no I/O failure): for a crash that cuts the file after
    any byte, the reader returns exactly the records `AddRecord` finished
    before the cut. This covers trailers of 1 and 2 bytes, zero-length
    fragments at the end of a block, records of three fragments, and cuts
    inside a header, a payload and a trailer;
  - the SSTable block (every set of up to six keys of one or two bytes,
    restart intervals 1, 2 and 3): `SeekToFirst` and `Next` visit every
    key in order with its value, `Prev` from each key steps to the one
    before across restart points, and `SeekToLast` lands on the last key
    (`BlockIterationInOrder`); `Seek` of every target of up to three bytes,
    from an unpositioned iterator or one standing on any key, lands on the
    first key >= the target and leaves `Next` and `Prev` consistent with
    that position (`BlockSeekFindsFirstGE`). This exercises the shortcut
    of line 124, which is only taken when the current key is below the
    target;
  - the SSTable (every set of up to three internal keys over user bytes
    {1, 3} and tags {1, 2}, block sizes 14 and 20, restart intervals 1
    and 16), built by `BuildSSTable` and read through `TwoLevelIterator`:
    `meta` records the first and last key, `SeekToFirst`/`Next` and
    `SeekToLast`/`Prev` visit every key in order across data blocks
    (`TableIterationInOrder`); `Seek` of every internal key of up to two
    user bytes over 1..3, with the lookup tag or a stored tag, lands on the
    first key >= the target even when the index separator of the data
    block it picks was shortened past the target's block
    (`TableSeekFindsFirstGE`); `InternalGet` of a lookup key finds the
    newest entry of that user key whenever one exists and never hands the
    callback an entry of another user key that precedes it
    (`InternalGetFindsNewest`). Mutants: `Prev` that stays in its data
    block, `Seek` without `SkipEmptyDataBlock`, and a separator that gets
    the lookup tag without being shortened.

Each violation run checks one property, and TLC reports it violated. The
findings are in `PROJECT.json`:

1. `MergeBatchGroup` appends the leader's batch once per follower, so the
   followers' writes are lost while each follower is told OK
   (dbimpl.cc:146).
2. The merge loop sets `same_key` on a *new* user key, so it drops the
   newest entry of each key (dbimpl.cc:611-625).
3. `~ThreadPool` stores `stop_` without `mutex_`. A worker that tested the
   predicate but has not blocked misses `notify_all`, so `join` never
   returns (thread_pool.h:62).
4. Every SSTable has timestamp 1 (`time_stamp_++` from 0, skiplist.cc:89),
   so `TableCache::operator<` orders and identifies tables by min key
   alone. `std::set::insert` ignores a level-0 table with the same min key
   as one already there. One thread doing Put 1, 2, 3, 1, 2 then Get(3)
   reads "" (test/correctness.cc expects the value).
5. A second memtable rotation can happen before the first detached
   `MinorCompaction` thread has locked `m_` (Put waits only for mode
   normal). `immutable_table_` is overwritten, and the second thread then
   dereferences the null pointer the first one left (kvstore.cc:67, 186).
6. A `Flush` that fails partway through a WAL fragment leaves a torn
   fragment, but `WritePhysicalRecord` still advances `block_offset_` by
   the whole fragment (log_writer.cc:82). `DBImpl::Write` reports the
   error to that group only and keeps appending later groups to the same
   log (dbimpl.cc:266). The next record is then out of step with the
   reader's blocks: its header shares a block with the torn bytes, and the
   reader drops that block. Recovery loses a record whose `Write` returned
   OK. TLC's shortest example is two empty records, where the first
   `Flush` writes one header byte.

Every property of a passing run has a mutant in `PROJECT.json`. A mutant
replaces one mapped definition with a plausible bug, and TLC finds the
property violated under that run's own cfg. For example, writers lead
without being at the front of the queue, the background call ends without
`SignalAll`, `Enqueue` skips `notify_one`, a `MinorCompaction` leaves the
mode compact, LRU `Touch` does not splice, the LFU re-insert keeps the
old count, and `Update` never takes a key over from an older table.

### Defects without a run

The model showed these too, but no run checks them: the project keeps one
run per question, and these are less central than the ones above. Each is
listed as a hazard in `PROJECT.json`.

- `GetRange` returns the intersection of the input ranges, so level 1
  can end up with overlapping files (version.cc:616).
- `Write` overwrites `MakeRoomForWrite`'s status with `AddRecord`'s, so
  writes continue after a background error (dbimpl.cc:256/266).
- `logfile_number_` is never updated on rotation, so the manifest's log
  number stays at the first WAL (dbimpl.cc:747).
- `LRUCachePolicy::Erase` ignores its key, so `Remove` on the LRU cache
  drops another key from the policy (lru_cache_policy.h:40).
- `ReadRecord` ignores a bad fragment without clearing the partial
  record (log_reader.cc:49). When a middle fragment is corrupted on disk,
  the first and last fragments are returned joined, as one record. A
  one-off evaluation of `LogFormat.Recover` shows this; corruption is not
  among the faults of any run.
- The legacy `Put` without `to_cache`, and `Del`, leave a stale value in
  `cache_` that `Get` answers first (kvstore.cc:80, 90).
- The legacy `MajorCompaction` computes `last_level` after appending the
  level's directory entry, so it is never true and delete marks are never
  dropped, contrary to the comment at line 297 (kvstore.cc:217). It only
  costs space, so no property tells it apart.

Read from the source while modelling `SSTable`, outside the default
options the model uses (no filter policy, `check_crc` false):

- `SSTableReader::InternalGet` skips the block when
  `filter->KeyMayMatch(...)` is true, the opposite of what the comment
  says (sstable_reader.cc:160). The footer also records the filter block's
  handle where `ReadFilterIndex` expects the filter index block
  (sstable_builder.cc:241), so `ReadFilterIndex` parses the filter data
  itself as a block of entries.
- `WriteRawBlock` stores the CRC of the contents alone, then extends the
  CRC with the type byte without storing it; `ReadBlock` checks the CRC of
  the contents and the type byte (sstable_builder.cc:195-198,
  block_format.cc:67-68), so with `check_crc` every block read fails.

## Bounds

Each bound is chosen so the interesting cases happen within it:

- **Write calls: `MaxWrites` 3-4.** With write_mem_size 0, every write
  rotates the memtable. Three or four writes are enough to reach
  rotations, flushes, two level-0 files, a level-0 compaction, single
  moves, and a flush nested in a merge.
- **Thresholds: 2.** The level-0 compaction threshold and the stall
  threshold are 2, so stalls and compactions happen after two flushes.
- **Group sizes: `SmallGroup` 1 and `MaxGroup` 4.** These stand for 1 KB
  and 1 MB in operations, so a one-operation leader takes at most one
  follower, which is the same cut-off the code makes for small writes.
- **Keys: one or two.** Two keys make key ranges, overlaps and drops
  possible.
- **Table cache: two threads, three files, capacity 2, five handles.**
  The capacity gives each of the two shards a capacity of 1. Two files
  share shard 0, so inserting one evicts the other when it is unheld.
  Five handles allow a replaced duplicate, an eviction and a re-insert.
- **Skip list: three keys, `KMaxHeight` 3, one reader.** Heights 1 to 3
  give nodes that the writer links above the current height (the
  `max_height_` race) and searches that go down several levels. Readers
  do not interact, so one is enough.
- **Caches: capacity 2, three keys, seven calls.** A third key makes
  every Put of a new key into a full cache an eviction, and seven calls
  allow several evictions after different use patterns.
- **Legacy store: `MemLimit` 1-2 entries, `MaxCalls` 3-6, one or two
  workers.** With a one-entry memtable every Put of a new key rotates, so
  two calls reach the rotation race and three a compaction thread running
  beside a blocked Put and Get. The sequential run needs three keys and
  six calls to put two level-0 tables with the same min key.
- **Legacy merge: up to three tables over three keys.** Three tables let a
  key be taken over twice in one `Update` recursion.
- **WAL: `BlockSize` 8, `HeadSize` 3, three records of up to 7 bytes.**
  The code's 32768 and 7 only set where fragments are cut. With 5 payload
  bytes per block, a 7-byte record spans two blocks. With three records,
  trailers of 1 and 2 bytes (zero-filled) occur, and so does exactly 3
  bytes left (a zero-length fragment). The failure run lets one `Flush`,
  of the first or second fragment of any record, write 0 to 3 bytes.

- **Block: keys of at most two bytes over {1, 2}, intervals 1 to 3.**
  Six distinct keys give every prefix relation (a key that is a prefix of
  the next, keys sharing a byte, keys sharing nothing), up to three restart
  points at interval 2 and two at interval 3, so the binary search has
  both halves to choose from and the shortcut has a position inside and
  outside the chosen interval. Targets of length 0 to 3 fall before,
  between, on and after every key.

- **SSTable: up to three keys, user bytes {1, 3}, tags {1, 2}, block
  sizes 14 and 20, intervals 1 and 16.** Bytes 1 and 3 leave a gap, so
  `FindShortestMiddle` really shortens (a separator 2 between 1.. and
  3..); MaxByte 3 makes `FindShortestBigger` skip a 0xff byte. Block size
  14 cuts a data block after every entry and 20 after two or three, so
  tables have one to three data blocks. Two tags of one user key give
  the newest-first order and the lookup tag 3 sorts before both.

Every action and every disjunct is taken in some passing run, fault
branches included.

## Fairness

`FairSpec` gives weak fairness to three kinds of step:

- each writer's steps while it is inside `Write`;
- each reader's unlocked lookup;
- the background thread.

These are OS threads, and every wait is on a condition variable that is
signalled under `mu_`, so a thread that can move eventually does. Nothing
forces a client to call `Write` again, so `BeginWrite` has no fairness.

The background fairness is written as
`[]<>~BgRunnable \/ []<><<BgNext>>_vars`. This is the definition of weak
fairness, with `BgRunnable` spelling out `ENABLED <<BgNext>>_vars`. We
checked that `BgRunnable` equals that ENABLED on a small model. Written
this way, TLC does not evaluate `PickCompaction` over and over to decide
ENABLED.

In the legacy store, each client thread, each worker's loop, the owner's
`notify_one` and the compaction threads have weak fairness: all are OS
threads. The main thread's next call and `~ThreadPool` have none, since
the caller decides whether they happen. Spurious wakeups are not
modelled, so no property relies on them.

## Abstractions and their justification

- **Block bytes.** A key is a sequence of small integers compared like
  `std::string_view::compare`. The varint lengths and fixed32 restart
  array are abstracted to the entries `[shared, delta, value]` and the
  restart offsets they encode; an offset is an entry index. The reader's
  corruption paths (`ParsedEntry` failing, a restart entry with a shared
  prefix) need bytes the builder never writes and are left out.

- **SSTable bytes.** An internal key is its user bytes followed by one
  element, the tag; `PackSequenceAndType` is that number. `ByteSize`
  counts one byte for each varint and each value. A file is the sequence
  of blocks appended, each with its `BlockHandle`, and `ReadBlock` of a
  handle returns the block written there. Snappy compression is a round
  trip, the CRC is off by default (`check_crc`), and `filter_policy` is
  nullptr by default, so all three are left out; their defects are listed
  under "Defects without a run".

- **Cache and skip list steps.** Each `LRUCache` call holds the shard's
  `mu_`, so it is one step. `HandleTable`'s chains and `Resize` are a map
  from key to handle. In the skip list, a node is its key (internal keys
  are unique). One `Insert` step links one level: the node's own
  `next_[i]` is stored before `prev[i]` publishes it, and no reader can
  reach the node at that level in between. Acquire and release loads and
  stores are modelled as sequentially consistent steps. The relaxed
  `max_height_` may be read old or new, and both orders are explored.

- **WAL bytes and CRC.** A byte of the log is a payload byte (record,
  index), a trailer zero, or one of a header's bytes carrying the
  header's fields. The CRC is taken to be exact: a fragment passes iff
  its type and payload are the ones it was written with. Bytes that are
  not an intact header are read as some header whose length overruns the
  buffer or whose CRC fails, and both paths drop the buffer. At the end
  of the file they give `KEof` and `KBadRecord`, and `ReadRecord`
  returns false after either. `SequentialFile::Read` of a regular file
  returns a short block only at its end.

- **`LogAndApply` is one atomic step.** The code releases `mu_` for the
  manifest write. Any thread that runs during that window sees the old
  `current_`, which is the same as running before the step. Hazard
  version.cc:466 records this.
- **The merge loop produces one output file per step, and a nested flush
  happens between outputs.** That is where `has_imm_` is tested in a way
  that changes what the merge can see.
- **The legacy `MajorCompaction` is one step.** It runs under `m_`, which
  every writer of the levels holds. `Get` scans the levels under
  `read_write_m_` only, so in the code it races with a compaction; the
  model lets the scan happen before or after, not during (hazard
  kvstore.cc:119).
- **Not modelled in the DB:**
  - `StopBefore` (grandparent overlap), which never triggers within the
    bounds;
  - seek compaction;
  - `closed_` and DB close;
  - a compaction pick at the last level. The code would read past
    `files_`; see the hazards.

## Not modelled yet, and the plan

These parts are listed as not_modelled or partly in `PROJECT.json`:

- crash recovery beyond the WAL read loop: replay into the memtable and
  level 0, and `VersionSet::Recover` (partly modelled);
- the Bloom filter, the filter blocks, compression and the block CRC of
  the SSTable, off under the default options, and write failures of the
  table file (the table itself is modelled);
- Env.

In the older engine, `~KVStore` and the destruction order of its members,
the constructor's directory scan, and the file format are not modelled.
The engine persists nothing across a restart, since `Reset` empties the
directory, so there is no recovery to model.

The next steps, in order:

1. Replay of recovered WAL records into DBImpl (RecoverLogFile's
   memtable and level-0 flush) as a restart action.
2. `~KVStore` in the legacy composition: it stores the memtable and runs
   compactions while `pool_` may still run queued tasks.
3. `LogAndApply` split at its unlock, plus DB close (`closed_`) in the
   background model.

The map covers about 31% of the implementation's lines.
