--------------------------- MODULE MCLegacyKVStore ---------------------------
(* Instances of the legacy KVStore for TLC: the calls the main thread may   *)
(* make are built from small sets of keys and values.                      *)
EXTENDS LegacyKVStore

CONSTANTS v1, v2

\* Put(k, v, to_cache) or PutTask for every key and value; Del(k) or DelTask
\* is a Put of kDelSign without caching; Get(k) or GetTask.
PutOps(ks, vs, caching, viaPool) ==
  [kind : {"put"}, key : ks, val : vs, cache : caching, task : viaPool]
DelOps(ks, viaPool) ==
  [kind : {"put"}, key : ks, val : {DelSign}, cache : {FALSE}, task : viaPool]
GetOps(ks, viaPool) == [kind : {"get"}, key : ks, task : viaPool]

\* The main thread alone: direct calls.
SeqOps ==
  PutOps(Keys, Vals, {FALSE}, {FALSE}) \cup DelOps(Keys, {FALSE})
  \cup GetOps(Keys, {FALSE})

\* Puts only, direct: fills the levels.
FillOps == PutOps(Keys, {v1}, {FALSE}, {FALSE})

\* Pooled Puts of keys 1 and 2 beside direct and pooled Gets of keys 2
\* and 3; key 3 is never put, so its Get reads the levels.
PoolOps ==
  PutOps({1, 2}, {v1}, {FALSE}, {TRUE}) \cup GetOps({2, 3}, {FALSE, TRUE})

=============================================================================
