\* Three FixedSizedCache objects of capacity 2 (LRU, FIFO, LFU) over three
\* keys, fed the same sequence of seven calls; or two TableCache threads
\* over three file numbers, a capacity of 2 (1 a shard, two keys in shard
\* 0) and at most 5 handles allocated; or a skip list of height up to 3
\* getting three keys, beside one reader.
CONSTANTS
  c1 = c1
  c2 = c2
  Clients = {c1, c2}
  Keys = {1, 2, 3}
  Shards = {0, 1}
  Capacity = 2
  MaxHandles = 5
  r1 = r1
  Readers = {r1}
  ListKeys = {1, 2, 3}
  MaxHeight = 3
  v1 = v1
  CacheKeys = {1, 2, 3}
  CacheVals = {v1}
  CacheCap = 2
  MaxCalls = 7
SPECIFICATION Spec
INVARIANT PolicyTracksItemsAll RefsCountHolders CacheStructureConsistent ListsSortedNested SearchLinearizable
PROPERTY EvictsVictimAll
