---------------------------- MODULE LegacyCache ----------------------------
(***************************************************************************)
(* caches::FixedSizedCache of src/include/cache.h with its replacement     *)
(* policies (lru_cache_policy.h, fifo_cache_policy.h, lfu_cache_policy.h). *)
(*                                                                         *)
(* A cache is a record: `items` is cache_items_map_ (a function from the   *)
(* cached keys to their values) and `order` the policy's container, front  *)
(* first: lru_queue_ / fifo_queue_ (std::list) or frequency_storage_ (a    *)
(* std::multimap ordered by use count).  Every entry is [key, freq]; freq  *)
(* stays 1 under LRU and FIFO.  The iterator maps key_finder_ /            *)
(* key_lookup_ / lfu_storage_ are the position of a key in `order`.        *)
(* Each public operation holds mutex_ throughout, so it is one step.       *)
(***************************************************************************)
EXTENDS Naturals, Sequences, SequencesExt, FiniteSets

CONSTANTS
  CacheKeys,    \* the keys that may be cached
  CacheVals,    \* the values stored with them
  CacheCap,     \* cache_cap_ (max_size of the constructor)
  Policy        \* "LRU", "FIFO" or "LFU": the Policy template argument

ASSUME CacheCap \in Nat \ {0}   \* the constructor throws on 0
ASSUME Policy \in {"LRU", "FIFO", "LFU"}

Entry(k, f) == [key |-> k, freq |-> f]

EmptyCache == [items |-> [k \in {} |-> CHOOSE v \in CacheVals : TRUE],
               order |-> <<>>]

\* The keys the policy's container holds, front first.
OrderKeys(q) == [i \in 1..Len(q) |-> q[i].key]

---------------------------------------------------------------------------
(* LRUCachePolicy                                                          *)

\* Insert: lru_queue_.emplace_front(key).
LRUInsert(q, k) == Cons(Entry(k, 1), q)

\* Mutant: Touch leaves the key's node where it is.
LRUTouchInPlace(q, k) == q

\* Touch: splice the key's node to the front of lru_queue_.
LRUTouch(q, k) ==
  Cons(Entry(k, 1), RemoveFirstMatch(q, LAMBDA e : e.key = k))

\* Erase ignores its argument: it drops lru_queue_.back() and its
\* key_finder_ entry.
LRUErase(q, k) == Front(q)

\* ReplCandidate: lru_queue_.back().
LRUCandidate(q) == Last(q).key

---------------------------------------------------------------------------
(* FIFOCachePolicy                                                         *)

\* Insert: fifo_queue_.emplace_front(key).
FIFOInsert(q, k) == Cons(Entry(k, 1), q)

\* Touch does nothing under FIFO.
FIFOTouch(q, k) == q

\* Mutant: Erase drops the back of fifo_queue_ whatever its argument.
FIFOEraseBack(q, k) == Front(q)

\* Erase: fifo_queue_.erase(key_lookup_[key]).
FIFOErase(q, k) == RemoveFirstMatch(q, LAMBDA e : e.key = k)

\* ReplCandidate: fifo_queue_.back().
FIFOCandidate(q) == Last(q).key

---------------------------------------------------------------------------
(* LFUCachePolicy: frequency_storage_ is a multimap<count, key>.           *)
(* emplace_hint(cbegin(), 1, key) puts the new key before every entry,     *)
(* since no count is below 1.  Touch re-inserts <count+1, key> with the    *)
(* hint cend(), which places it after every entry whose count is not      *)
(* greater (the libstdc++ equal-insert position for that hint).           *)

LFUInsert(q, k) == Cons(Entry(k, 1), q)

\* Where an entry with count f goes when the hint is cend().
AfterCount(q, f) == Cardinality({i \in 1..Len(q) : q[i].freq <= f}) + 1

LFUReinsert(q, e) == InsertAt(q, AfterCount(q, e.freq), e)

\* Mutant: the touched entry is re-inserted with its old count (the
\* make_pair of elem_for_update->first without the + 1).
LFUTouchNoIncrement(q, k) ==
  LET e == q[SelectInSeq(q, LAMBDA x : x.key = k)]
  IN  LFUReinsert(RemoveFirstMatch(q, LAMBDA x : x.key = k), Entry(k, e.freq))

LFUTouch(q, k) ==
  LET e == q[SelectInSeq(q, LAMBDA x : x.key = k)]
  IN  LFUReinsert(RemoveFirstMatch(q, LAMBDA x : x.key = k),
                  Entry(k, e.freq + 1))

\* Erase: frequency_storage_.erase(lfu_storage_[key]).
LFUErase(q, k) == RemoveFirstMatch(q, LAMBDA e : e.key = k)

\* ReplCandidate: frequency_storage_.cbegin()->second.
LFUCandidate(q) == Head(q).key

---------------------------------------------------------------------------
(* The policy chosen by the template argument.                             *)

PolicyInsert(q, k) ==
  CASE Policy = "LRU" -> LRUInsert(q, k)
    [] Policy = "FIFO" -> FIFOInsert(q, k)
    [] Policy = "LFU" -> LFUInsert(q, k)

PolicyTouch(q, k) ==
  CASE Policy = "LRU" -> LRUTouch(q, k)
    [] Policy = "FIFO" -> FIFOTouch(q, k)
    [] Policy = "LFU" -> LFUTouch(q, k)

PolicyErase(q, k) ==
  CASE Policy = "LRU" -> LRUErase(q, k)
    [] Policy = "FIFO" -> FIFOErase(q, k)
    [] Policy = "LFU" -> LFUErase(q, k)

ReplCandidate(q) ==
  CASE Policy = "LRU" -> LRUCandidate(q)
    [] Policy = "FIFO" -> FIFOCandidate(q)
    [] Policy = "LFU" -> LFUCandidate(q)

---------------------------------------------------------------------------
(* FixedSizedCache                                                         *)

\* The map without key k (cache_items_map_.erase).
DropItem(m, k) == [j \in DOMAIN m \ {k} |-> m[j]]

\* Erase(key): cache_policy_.Erase(key), the (empty) on_erase callback,
\* and cache_items_map_.erase(FindElem(key)).
CacheErase(c, k) ==
  [items |-> DropItem(c.items, k), order |-> PolicyErase(c.order, k)]

\* Insert: cache_policy_.Insert(key) and cache_items_map_.emplace.
CacheInsert(c, k, v) ==
  [items |-> [j \in DOMAIN c.items \cup {k} |->
                IF j = k THEN v ELSE c.items[j]],
   order |-> PolicyInsert(c.order, k)]

\* Put, lines 55-70: a new key first evicts ReplCandidate() when the cache
\* is full; a cached key is touched and overwritten (Update).
CachePut(c, k, v) ==
  IF k \notin DOMAIN c.items
  THEN IF Cardinality(DOMAIN c.items) + 1 > CacheCap
       THEN CacheInsert(CacheErase(c, ReplCandidate(c.order)), k, v)
       ELSE CacheInsert(c, k, v)
  ELSE [items |-> [c.items EXCEPT ![k] = v],
        order |-> PolicyTouch(c.order, k)]

\* Cached(key), line 94: a lookup only.
Cached(c, k) == k \in DOMAIN c.items

\* Get(key) of a cached key, lines 83-88 via GetInternal: the policy is
\* touched and the value returned.
CacheGet(c, k) == [c EXCEPT !.order = PolicyTouch(c.order, k)]

\* Remove(key), lines 111-123, of a cached key.
CacheRemove(c, k) == CacheErase(c, k)

=============================================================================
