------------------------------ MODULE LRUCache ------------------------------
(***************************************************************************)
(* The reference-counted LRU cache of the DB (src/lsmkv/util/cache.cc) as *)
(* TableCache uses it (db/sstable/table_cache.cc).  ShardLRUCache routes  *)
(* a key to one of KNumShard LRUCache shards, each under its own mu_, so  *)
(* every cache call is one step.  A client thread's FindTable is a Lookup *)
(* and, on a miss, an Insert after the file is opened without any lock:   *)
(* two steps another thread may run between.                               *)
(*                                                                         *)
(* cache is one record: hs[h] is LRUHandle h (key, refs, in_cache, and     *)
(* whether it is allocated or freed), lru[s] and inUse[s] are shard s's   *)
(* lru_ and in_use_ lists from oldest to newest, usage[s] its usage_, and  *)
(* table[k] the handle HandleTable maps key k to.  Handles are numbered in *)
(* allocation order.  The hash chains and Resize of HandleTable only       *)
(* implement that map and are not modelled.                                *)
(***************************************************************************)
EXTENDS Naturals, Sequences, FiniteSets

CONSTANTS
  Clients,     \* threads calling TableCache::Get / NewIterator
  Keys,        \* file numbers
  Shards,      \* 0..KNumShard-1
  ShardOf,     \* Shard(Hash(key)): the murmur hash's top bit, per key
  Capacity,    \* the capacity NewLRUCache is given
  MaxHandles   \* bound: LRUHandles allocated by Insert

ASSUME ShardOf \in [Keys -> Shards]

None == 0
Handles == 1..MaxHandles

VARIABLES cache, client

vars == <<cache, client>>

\* ShardLRUCache's constructor, lines 251-256.
ShardCapacity == (Capacity + (Cardinality(Shards) - 1)) \div Cardinality(Shards)

\* TableCache inserts every table with charge 1 (table_cache.cc line 71).
Charge == 1

ShardOfHandle(c, h) == ShardOf[c.hs[h].key]

\* LRU_Remove, lines 211-214: unlink e from whichever list holds it.
LRU_Remove(seq, h) == SelectSeq(seq, LAMBDA x : x # h)

\* Mutant: moving the entry to in_use_ forgets to count the reference.
RefNoCountOnMove(c, h) ==
  IF c.hs[h].refs = 1 /\ c.hs[h].inCache
  THEN [c EXCEPT !.lru[ShardOfHandle(c, h)] = LRU_Remove(@, h),
                 !.inUse[ShardOfHandle(c, h)] = Append(@, h)]
  ELSE [c EXCEPT !.hs[h].refs = @ + 1]

\* Ref, lines 216-222: an entry only the cache held moves to in_use_.
Ref(c, h) ==
  IF c.hs[h].refs = 1 /\ c.hs[h].inCache
  THEN [c EXCEPT !.lru[ShardOfHandle(c, h)] = LRU_Remove(@, h),
                 !.inUse[ShardOfHandle(c, h)] = Append(@, h),
                 !.hs[h].refs = @ + 1]
  ELSE [c EXCEPT !.hs[h].refs = @ + 1]

\* Mutant: the last client reference leaves the entry on in_use_.
UnrefNoRelink(c, h) ==
  IF c.hs[h].refs = 1
  THEN [c EXCEPT !.hs[h].refs = 0, !.hs[h].state = "freed"]
  ELSE [c EXCEPT !.hs[h].refs = @ - 1]

\* Unref, lines 224-234: the last reference calls the deleter and frees
\* the handle; an entry left to the cache alone moves back to lru_.
Unref(c, h) ==
  IF c.hs[h].refs = 1
  THEN [c EXCEPT !.hs[h].refs = 0, !.hs[h].state = "freed"]
  ELSE IF c.hs[h].inCache /\ c.hs[h].refs = 2
  THEN [c EXCEPT !.inUse[ShardOfHandle(c, h)] = LRU_Remove(@, h),
                 !.lru[ShardOfHandle(c, h)] = Append(@, h),
                 !.hs[h].refs = 1]
  ELSE [c EXCEPT !.hs[h].refs = @ - 1]

\* FinishErase, lines 236-244, of the handle HandleTable gave back.
FinishErase(c, h) ==
  IF h = None THEN c
  ELSE Unref([c EXCEPT !.lru[ShardOfHandle(c, h)] = LRU_Remove(@, h),
                       !.inUse[ShardOfHandle(c, h)] = LRU_Remove(@, h),
                       !.hs[h].inCache = FALSE,
                       !.usage[ShardOfHandle(c, h)] = @ - Charge], h)

\* HandleTable::Remove (lines 54-62) of key k, then FinishErase: Erase.
EraseKey(c, k) == FinishErase([c EXCEPT !.table[k] = None], c.table[k])

\* The eviction loop of Insert, lines 185-189: the oldest entry of lru_
\* goes while the shard is over capacity.
RECURSIVE EvictLoop(_, _)
EvictLoop(c, s) ==
  IF c.usage[s] > ShardCapacity /\ c.lru[s] # <<>>
  THEN EvictLoop(EraseKey(c, c.hs[Head(c.lru[s])].key), s)
  ELSE c

\* Lines 175-183: with a capacity the new handle is referenced by the
\* cache too, put on in_use_, and replaces the table's old entry (the
\* value HandleTable::Insert returns, lines 40-52), which is erased.
CacheIt(c, h, k) ==
  IF ShardCapacity > 0
  THEN FinishErase([c EXCEPT !.hs[h].refs = 2, !.hs[h].inCache = TRUE,
                             !.inUse[ShardOf[k]] = Append(@, h),
                             !.usage[ShardOf[k]] = @ + Charge,
                             !.table[k] = h], c.table[k])
  ELSE c

\* Insert, lines 158-192: a fresh handle with one reference, the caller's.
Insert(c, k) ==
  EvictLoop(CacheIt([c EXCEPT !.nalloc = @ + 1,
                              !.hs[c.nalloc + 1] = [key |-> k, refs |-> 1,
                                inCache |-> FALSE, state |-> "live"]],
                    c.nalloc + 1, k),
            ShardOf[k])

---------------------------------------------------------------------------
(* TableCache's calls, one client thread each.  A client is idle, opening *)
(* the table file of key k after a Lookup miss, or holding handle h (the  *)
(* reading of TableCache::Get, or an iterator from NewIterator).           *)

Init ==
  /\ cache = [hs    |-> [h \in Handles |-> [key |-> CHOOSE k \in Keys : TRUE,
                           refs |-> 0, inCache |-> FALSE, state |-> "unused"]],
              lru   |-> [s \in Shards |-> <<>>],
              inUse |-> [s \in Shards |-> <<>>],
              usage |-> [s \in Shards |-> 0],
              table |-> [k \in Keys |-> None],
              nalloc |-> 0]
  /\ client = [c \in Clients |-> [pc |-> "idle", key |-> None, h |-> None]]

\* FindTable, lines 56-57: Lookup (cache.cc lines 149-156) refs a hit.
Lookup(c, k) ==
  /\ client[c].pc = "idle"
  /\ IF cache.table[k] # None
     THEN /\ cache' = Ref(cache, cache.table[k])
          /\ client' = [client EXCEPT ![c] = [pc |-> "hold", key |-> k,
                                               h |-> cache.table[k]]]
     ELSE /\ client' = [client EXCEPT ![c] = [pc |-> "open", key |-> k,
                                               h |-> None]]
          /\ UNCHANGED cache

\* FindTable, lines 58-66: opening the file or the table fails.
OpenFails(c) ==
  /\ client[c].pc = "open"
  /\ client' = [client EXCEPT ![c] = [pc |-> "idle", key |-> None, h |-> None]]
  /\ UNCHANGED cache

\* FindTable, lines 67-72: the opened table is inserted; the caller holds
\* the handle Insert returns.
InsertTable(c) ==
  /\ client[c].pc = "open"
  /\ cache.nalloc < MaxHandles
  /\ cache' = Insert(cache, client[c].key)
  /\ client' = [client EXCEPT ![c] = [pc |-> "hold", key |-> client[c].key,
                                       h |-> cache.nalloc + 1]]

\* Get's Release after InternalGet (line 39), or the iterator's cleanup
\* UnrefEntry (lines 24-28): Release (cache.cc lines 194-197) unrefs.
Release(c) ==
  /\ client[c].pc = "hold"
  /\ cache' = Unref(cache, client[c].h)
  /\ client' = [client EXCEPT ![c] = [pc |-> "idle", key |-> None, h |-> None]]

\* Evict (lines 44-48), from GarbageFilesClean: Erase (cache.cc 199-202).
Evict(k) ==
  /\ cache' = EraseKey(cache, k)
  /\ UNCHANGED client

Next ==
  \/ \E c \in Clients, k \in Keys : Lookup(c, k)
  \/ \E c \in Clients : OpenFails(c) \/ InsertTable(c) \/ Release(c)
  \/ \E k \in Keys : Evict(k)

Spec == Init /\ [][Next]_vars


---------------------------------------------------------------------------
(* Properties.                                                             *)

Holders(h) == {c \in Clients : client[c].pc = "hold" /\ client[c].h = h}
InCache(s) == {h \in 1..cache.nalloc : cache.hs[h].inCache /\ ShardOfHandle(cache, h) = s}
ListSet(seq) == {seq[i] : i \in DOMAIN seq}
Once(seq) == \A i, j \in DOMAIN seq : seq[i] = seq[j] => i = j

\* Through Lookup, Insert (with a replaced entry and evictions), Release and
\* Evict by any threads in any order, a handle's refs is the number of
\* threads holding it plus one while it is in the cache, and the deleter
\* runs exactly when refs drops to 0: no held handle is freed, and no
\* handle that is neither held nor cached is leaked.
RefsCountHolders ==
  \A h \in 1..cache.nalloc :
    /\ cache.hs[h].refs =
         Cardinality(Holders(h)) + (IF cache.hs[h].inCache THEN 1 ELSE 0)
    /\ cache.hs[h].state = "freed" <=> cache.hs[h].refs = 0

\* In every shard, lru_ lists exactly the cached entries no client holds
\* (the only ones Insert may evict), in_use_ exactly the held ones, each
\* once; usage_ is their total charge; and HandleTable maps each key to its
\* one cached entry.
CacheStructureConsistent ==
  /\ \A s \in Shards :
       /\ Once(cache.lru[s]) /\ Once(cache.inUse[s])
       /\ ListSet(cache.lru[s]) = {h \in InCache(s) : cache.hs[h].refs = 1}
       /\ ListSet(cache.inUse[s]) = {h \in InCache(s) : cache.hs[h].refs > 1}
       /\ cache.usage[s] = Cardinality(InCache(s)) * Charge
  /\ \A k \in Keys :
       {h \in 1..cache.nalloc : cache.hs[h].inCache /\ cache.hs[h].key = k} =
         IF cache.table[k] = None THEN {} ELSE {cache.table[k]}

=============================================================================
