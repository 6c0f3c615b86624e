--------------------------- MODULE FixedSizedCache ---------------------------
(***************************************************************************)
(* Client threads calling the public operations of one                    *)
(* caches::FixedSizedCache (src/include/cache.h): Put, Get of a key that  *)
(* Cached() reported, and Remove.  Each call holds mutex_ from start to    *)
(* end, so calls are atomic steps in some order.                           *)
(*                                                                         *)
(* `use` is a history variable, not part of the cache: for each cached    *)
(* key the step number of its insertion, of its last use, and how often    *)
(* it was used since it was inserted.  It gives each policy's reference    *)
(* victim: least recently used, first inserted, least frequently used.    *)
(***************************************************************************)
EXTENDS LegacyCache

CONSTANTS
  Ops,          \* the operations the clients call: a subset of
                \* {"put", "get", "remove"}
  MaxCalls      \* bound: number of calls in a behaviour

VARIABLES cache, use, calls

cacheVars == <<cache, use, calls>>

NoUse == [ins |-> 0, last |-> 0, n |-> 0]

Init ==
  /\ cache = EmptyCache
  /\ use = [k \in CacheKeys |-> NoUse]
  /\ calls = 0

\* cache.Put(k, v).  A key that leaves the cache loses its history.
Put(k, v) ==
  /\ "put" \in Ops
  /\ calls < MaxCalls
  /\ cache' = CachePut(cache, k, v)
  /\ use' = [j \in CacheKeys |->
               IF j = k
               THEN IF Cached(cache, k)
                    THEN [use[k] EXCEPT !.last = calls + 1, !.n = @ + 1]
                    ELSE [ins |-> calls + 1, last |-> calls + 1, n |-> 1]
               ELSE IF Cached(cache', j) THEN use[j] ELSE NoUse]
  /\ calls' = calls + 1

\* if (cache.Cached(k)) cache.Get(k): a hit touches the key.
Get(k) ==
  /\ "get" \in Ops
  /\ calls < MaxCalls
  /\ Cached(cache, k)
  /\ cache' = CacheGet(cache, k)
  /\ use' = [use EXCEPT ![k].last = calls + 1, ![k].n = @ + 1]
  /\ calls' = calls + 1

\* cache.Remove(k) of a cached key.
RemoveCall(k) ==
  /\ "remove" \in Ops
  /\ calls < MaxCalls
  /\ Cached(cache, k)
  /\ cache' = CacheRemove(cache, k)
  /\ use' = [use EXCEPT ![k] = NoUse]
  /\ calls' = calls + 1

Next ==
  \/ \E k \in CacheKeys, v \in CacheVals : Put(k, v)
  \/ \E k \in CacheKeys : Get(k)
  \/ \E k \in CacheKeys : RemoveCall(k)

\* The clients stop after MaxCalls calls.
Done == calls = MaxCalls /\ UNCHANGED cacheVars

Spec == Init /\ [][Next \/ Done]_cacheVars

---------------------------------------------------------------------------
(* Properties.                                                             *)

\* The policy's container lists exactly the keys of cache_items_map_, each
\* once.  Put's eviction removes ReplCandidate() from both, and Remove
\* must erase the removed key from the policy; if they disagree, a later
\* eviction erases a key that is not in the map, or Touch splices an
\* iterator key_finder_ does not hold.
PolicyTracksItems ==
  /\ IsInjective(OrderKeys(cache.order))
  /\ Range(OrderKeys(cache.order)) = DOMAIN cache.items

\* The reference victim of each policy among the cached keys.
IsVictim(k) ==
  \A j \in DOMAIN cache.items :
    CASE Policy = "LRU" -> use[k].last <= use[j].last
      [] Policy = "FIFO" -> use[k].ins <= use[j].ins
      [] Policy = "LFU" -> use[k].n <= use[j].n

\* When Put of a new key into a full cache evicts a key, the key evicted is
\* the policy's victim: the least recently used one (LRU: Get and Put
\* splice to the front), the first inserted (FIFO), or one of the least
\* used (LFU: the multimap's first entry after the hinted insertions).
EvictsVictim ==
  [][\A k \in DOMAIN cache.items :
       (k \notin DOMAIN cache'.items /\ DOMAIN cache'.items # DOMAIN cache.items \ {k})
         => IsVictim(k)]_cacheVars

=============================================================================
