------------------------------ MODULE MCStructures ------------------------------
(***************************************************************************)
(* One client program run against three caches::FixedSizedCache objects  *)
(* at once, one per replacement policy.  Each call (Put, Get of a key     *)
(* that Cached() reports, Remove) goes to all three caches; a Get of a    *)
(* key one cache does not hold is skipped by that cache, as the client's  *)
(* `if (cache.Cached(k))` skips it.  Remove goes to the FIFO and LFU      *)
(* caches only: LRUCachePolicy::Erase ignores its key (lru_cache_policy.h *)
(* line 40), so Remove desynchronises an LRU cache.                       *)
(*                                                                         *)
(* The same run explores two more programs, one chosen in Init: client    *)
(* threads of the DB's TableCache over the sharded, reference-counted LRU *)
(* cache (LRUCache), and the memtable's skip list with its writer and a   *)
(* lock-free reader (SkipList).  The programs share nothing, so each      *)
(* behaviour runs one of them and the state spaces add up.                *)
(***************************************************************************)
EXTENDS Naturals

CONSTANTS CacheKeys, CacheVals, CacheCap, MaxCalls,
          Clients, Keys, Shards, Capacity, MaxHandles,  \* LRUCache's
          ListKeys, MaxHeight, Readers                   \* SkipList's

VARIABLES lruCache, lruUse, fifoCache, fifoUse, lfuCache, lfuUse, calls,
          cache, client, next, maxHeight, writer, written, reader, program

policyVars == <<lruCache, lruUse, fifoCache, fifoUse, lfuCache, lfuUse, calls>>
cacheVars == <<cache, client>>
listVars == <<next, maxHeight, writer, written, reader>>
vars == <<policyVars, cacheVars, listVars, program>>

\* Shard(Hash(k)) for the three file numbers: two share a shard, so a shard
\* of capacity 1 evicts.
MCShardOf == [k \in Keys |-> IF k = 3 THEN 1 ELSE 0]

Shard == INSTANCE LRUCache WITH ShardOf <- MCShardOf

List == INSTANCE SkipList WITH Keys <- ListKeys

AllOps == {"put", "get", "remove"}

LRU  == INSTANCE FixedSizedCache WITH Policy <- "LRU", Ops <- AllOps,
                                      cache <- lruCache, use <- lruUse
FIFO == INSTANCE FixedSizedCache WITH Policy <- "FIFO", Ops <- AllOps,
                                      cache <- fifoCache, use <- fifoUse
LFU  == INSTANCE FixedSizedCache WITH Policy <- "LFU", Ops <- AllOps,
                                      cache <- lfuCache, use <- lfuUse

Init ==
  /\ program \in {"policies", "table_cache", "skiplist"}
  /\ LRU!Init /\ FIFO!Init /\ LFU!Init
  /\ Shard!Init
  /\ List!Init

\* The same call on each cache; `skip` when the cache does not take it.
LRUCall(op, k, v) ==
  \/ op = "put" /\ LRU!Put(k, v)
  \/ op = "get" /\ LRU!Get(k)
  \/ /\ \/ op = "get" /\ ~LRU!Cached(lruCache, k)
        \/ op = "remove"
     /\ UNCHANGED <<lruCache, lruUse>>

FIFOCall(op, k, v) ==
  \/ op = "put" /\ FIFO!Put(k, v)
  \/ op = "get" /\ FIFO!Get(k)
  \/ op = "remove" /\ FIFO!RemoveCall(k)
  \/ op \in {"get", "remove"} /\ ~FIFO!Cached(fifoCache, k)
     /\ UNCHANGED <<fifoCache, fifoUse>>

LFUCall(op, k, v) ==
  \/ op = "put" /\ LFU!Put(k, v)
  \/ op = "get" /\ LFU!Get(k)
  \/ op = "remove" /\ LFU!RemoveCall(k)
  \/ op \in {"get", "remove"} /\ ~LFU!Cached(lfuCache, k)
     /\ UNCHANGED <<lfuCache, lfuUse>>

Call(op, k, v) ==
  /\ program = "policies"
  /\ calls < MaxCalls
  /\ LRUCall(op, k, v) /\ FIFOCall(op, k, v) /\ LFUCall(op, k, v)
  /\ calls' = calls + 1
  /\ UNCHANGED <<cacheVars, listVars, program>>

Next ==
  \/ \E op \in AllOps, k \in CacheKeys, v \in CacheVals : Call(op, k, v)
  \/ program = "policies" /\ calls = MaxCalls
     /\ UNCHANGED vars   \* the client has finished
  \/ program = "table_cache" /\ Shard!Next
     /\ UNCHANGED <<policyVars, listVars, program>>
  \/ program = "skiplist" /\ List!Next
     /\ UNCHANGED <<policyVars, cacheVars, program>>

Spec == Init /\ [][Next]_vars

---------------------------------------------------------------------------
(* Properties.                                                             *)

\* Put of a new key into a full cache evicts each policy's victim: the
\* least recently used key (LRU: Put and Get splice to the front), the
\* first inserted (FIFO), one of the least used (LFU: the multimap's
\* first entry after the hinted insertions).
EvictsVictimAll == LRU!EvictsVictim /\ FIFO!EvictsVictim /\ LFU!EvictsVictim

\* Through Put, Get and Remove, the FIFO queue and the LFU multimap list
\* exactly the keys of cache_items_map_, each once.
PolicyTracksItemsAll == FIFO!PolicyTracksItems /\ LFU!PolicyTracksItems

\* TableCache's threads never use a freed table, and never leak one: a
\* handle's refs counts its holders and the cache (LRUCache).
RefsCountHolders == Shard!RefsCountHolders

\* Each shard's lru_ holds exactly the cached, unheld tables, so Insert
\* evicts only those, and HandleTable, in_use_ and usage_ agree with it.
CacheStructureConsistent == Shard!CacheStructureConsistent

\* While the memtable's writer links a node level by level, every level of
\* the skip list stays sorted and inside the level below (SkipList).
ListsSortedNested == List!ListsSortedNested

\* A lock-free Seek, Prev or SeekToLast that runs alongside an Insert
\* returns what it would have returned at some moment of its run.
SearchLinearizable == List!SearchLinearizable

=============================================================================
