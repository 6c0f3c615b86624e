---------------------------- MODULE LegacyKVStore ----------------------------
(***************************************************************************)
(* The older engine KVStore of src/src/kvstore.cc (include/kvstore.h):     *)
(* a skip-list memtable mem_table_, an immutable memtable that a detached  *)
(* MinorCompaction thread stores as a level-0 SSTable, the recursive       *)
(* MajorCompaction over sstable_meta_info_, the LRU cache_, and the        *)
(* ThreadPool pool_ that runs PutTask/GetTask/DelTask.                     *)
(*                                                                         *)
(* Data is abstracted: a key is a small integer, a value a model value,    *)
(* options::kDelSign the model value DelSign, and sizes are counted in     *)
(* entries: a memtable or an output SSTable holds MemLimit entries, which  *)
(* stands for kMemTable (2 MB) with values of one size.  An SSTable is a   *)
(* record of its name <<level, number>>, its timestamp and its key/value   *)
(* map; its TableCache metadata (min and max key) is derived from the map. *)
(***************************************************************************)
EXTENDS Naturals, Sequences, SequencesExt, FiniteSets

CONSTANTS
  Keys,          \* keys the clients use
  Vals,          \* values the clients put
  DelSign,       \* options::kDelSign
  NotFound,      \* the empty string Get returns for a missing key
  MemLimit,      \* kMemTable, in entries
  CacheCap,      \* options::kCacheCap
  NumWorkers,    \* pool_{4}
  ClientOps,     \* the calls the main thread makes (see Op below)
  MaxCalls       \* bound: number of calls the main thread makes

ASSUME MemLimit \in Nat \ {0}
ASSUME DelSign \notin Vals /\ NotFound \notin Vals \cup {DelSign}

\* A call: Put(key, val, to_cache), Del(key) (which is Put(key, kDelSign),
\* to_cache false), or Get(key); `task` says it goes through the pool
\* (PutTask, DelTask, GetTask) instead of being called directly.
Op == [kind : {"put"}, key : Keys, val : Vals \cup {DelSign},
       cache : BOOLEAN, task : BOOLEAN]
      \cup [kind : {"get"}, key : Keys, task : BOOLEAN]
ASSUME ClientOps \subseteq Op

TaskIds == 1..MaxCalls

VARIABLES
  tasks, stop, mutex, wpc, running, opc, joined, enqueued  \* pool_

Pool == INSTANCE ThreadPool WITH Tasks <- TaskIds

Workers == Pool!Workers
Main    == NumWorkers + 1     \* the thread that owns the KVStore
MC      == NumWorkers + 2     \* a MinorCompaction thread holding m_
Nobody  == 0
Clients == Workers \cup {Main}

Cache == INSTANCE LegacyCache
           WITH CacheKeys <- Keys, CacheVals <- Vals, Policy <- "LRU"

---------------------------------------------------------------------------
(* SSTables and sstable_meta_info_ (table_cache.h/.cc).                    *)

MinKey(f) == Min(DOMAIN f.data)    \* TableCache::GetMinKey
MaxKey(f) == Max(DOMAIN f.data)    \* TableCache::GetMaxKey

\* TableCache::operator<: timestamp first, then min key.
FileLess(a, b) ==
  IF a.ts = b.ts THEN MinKey(a) < MinKey(b) ELSE a.ts < b.ts

\* Neither is less: std::set treats the two as the same element.
Equiv(a, b) == a.ts = b.ts /\ MinKey(a) = MinKey(b)

\* std::set::insert adds nothing when an equivalent element is present.
SetInsert(S, f) == IF \E g \in S : Equiv(g, f) THEN S ELSE S \cup {f}

\* The files of a level in set order, begin() first.
InOrder(S) == SetToSortSeq(S, FileLess)

\* options::SSTMaxNumForLevel: 2^(i+1) files at level i.
SSTMaxNumForLevel(i) == 2 ^ (i + 1)

\* A store: sstable_meta_info_ (level i at position i+1) and
\* level_num_vec_, the last file number used in each level's directory.
Lvl(st, i) == st.meta[i + 1]

\* SkipList::Store writes time_stamp_ after incrementing it; a SkipList
\* starts at 0 and is stored once, so every level-0 file has timestamp 1.
StoreTimestamp == 1

---------------------------------------------------------------------------
(* MajorCompaction(level), kvstore.cc lines 200-329.                       *)

\* The level's directory and entries are created when missing (210-214).
Grow(st, level) ==
  IF level < Len(st.meta) THEN st
  ELSE [st EXCEPT !.meta = Append(@, {}), !.num = Append(@, 0)]

\* compactNum (230-232): all of level 0, else the excess of level-1.
CompactNum(st, level) ==
  IF level - 1 = 0 THEN Cardinality(Lvl(st, 0))
  ELSE Cardinality(Lvl(st, level - 1)) - SSTMaxNumForLevel(level - 1)

\* The first compactNum files of level-1 in set order (235-245).
UpperInputs(st, level) ==
  SubSeq(InOrder(Lvl(st, level - 1)), 1, CompactNum(st, level))

KeysOf(S) == UNION {DOMAIN f.data : f \in S}

\* The files of `level` whose range meets [tempMin, tempMax] (248-253).
LowerInputs(st, level, up) ==
  {f \in Lvl(st, level) : MaxKey(f) >= Min(KeysOf(up))
                          /\ MinKey(f) <= Max(KeysOf(up))}

\* sort_table pops the smallest TableCache first; an upper input and a
\* lower file can be equivalent, and the heap pops equivalent files in an
\* order the code leaves open.  `flip` is the set of lower files popped
\* before their equivalent upper input.
PopBefore(a, b, up, flip) ==
  \/ FileLess(a, b)
  \/ Equiv(a, b) /\ (IF a \in up THEN b \notin flip ELSE a \in flip)

PopOrder(up, low, flip) ==
  SetToSortSeq(up \cup low, LAMBDA a, b : PopBefore(a, b, up, flip))

\* KVToCompact merged so that, per key, the value of the file popped last
\* wins (the min_key / Update loop, 255-311; LegacyMerge checks the loop).
NewestOf(seq) ==
  [k \in KeysOf(Range(seq)) |->
     seq[Max({i \in DOMAIN seq : k \in DOMAIN seq[i].data})].data[k]]

\* last_level is tested after the directory was created (216-217).
IsLastLevel(st, level) == level = Len(st.meta)

\* Delete marks are not written at the last level (297-299).
Kept(m, last) ==
  IF last THEN [k \in {j \in DOMAIN m : m[j] # DelSign} |-> m[k]] ELSE m

\* WriteToFile, lines 333-394: the next number of the level's directory,
\* the file written with the merge's timestamp, and its TableCache
\* inserted into the level's set.
WriteToFile(st, level, ts, data) ==
  [meta |-> [st.meta EXCEPT ![level + 1] =
               SetInsert(@, [name |-> <<level, st.num[level + 1] + 1>>,
                             ts |-> ts, data |-> data])],
   num  |-> [st.num EXCEPT ![level + 1] = @ + 1]]

\* The merged pairs in key order are cut into tables of MemLimit entries
\* (lines 300-305) and the rest is written at the end (314-315).
RECURSIVE WriteChunks(_, _, _, _, _)
WriteChunks(st, level, ts, m, ks) ==
  IF ks = <<>> THEN st
  ELSE WriteChunks(
         WriteToFile(st, level, ts,
           [k \in Range(SubSeq(ks, 1, Min({MemLimit, Len(ks)}))) |-> m[k]]),
         level, ts, m, SubSeq(ks, Min({MemLimit, Len(ks)}) + 1, Len(ks)))

\* Lines 318-326: every input file is removed (RmFile) and erased from its
\* level's set, by equivalence.
RemoveInputs(st, level, up, low) ==
  [meta |-> [st.meta EXCEPT
               ![level] = {g \in @ : \A f \in up : ~Equiv(g, f)},
               ![level + 1] = {g \in @ : \A f \in low : ~Equiv(g, f)}],
   num  |-> st.num]

\* One merge of level-1 into level for a given order of equivalent files.
MergeInto(st, level, up, low, flip) ==
  RemoveInputs(
    WriteChunks(st, level, Last(InOrder(up)).ts,
                Kept(NewestOf(PopOrder(up, low, flip)),
                     IsLastLevel(st, level)),
                SetToSortSeq(KeysOf(up \cup low), <)),
    level, up, low)

\* Equivalent pairs: a lower file equivalent to an upper input.
Ties(up, low) == {f \in low : \E u \in up : Equiv(u, f)}

CompactLevel(st, level, up) ==
  {MergeInto(st, level, up, LowerInputs(st, level, up), flip) :
     flip \in SUBSET Ties(up, LowerInputs(st, level, up))}

\* MajorCompaction(level): the set of stores it can leave.
RECURSIVE MajorCompaction(_, _)
MajorCompaction(st, level) ==
  IF Cardinality(Lvl(st, level - 1)) <= SSTMaxNumForLevel(level - 1)
  THEN {st}
  ELSE UNION {MajorCompaction(r, level + 1) :
                r \in CompactLevel(Grow(st, level), level,
                        Range(UpperInputs(Grow(st, level), level)))}

---------------------------------------------------------------------------
(* The store's state.                                                      *)

VARIABLES
  mem,       \* mem_table_: key -> value
  imm,       \* immutable_table_: <<>> for nullptr, else <<its map>>
  mode,      \* kv_store_mode_
  m,         \* the thread holding m_ (MC: a MinorCompaction thread)
  rwW,       \* the thread holding read_write_m_ exclusively, or Nobody
  rwR,       \* the threads holding read_write_m_ shared
  minor,     \* detached MinorCompaction threads that have not locked m_
  store,     \* [meta, num]: the SSTables (see Lvl above)
  cache,     \* cache_
  cpc,       \* where each client thread is in its call
  mainOp,    \* the call the main thread is making directly
  taskOp,    \* the call each pool task makes
  calls,     \* calls the main thread has made
  answer,    \* per client, its last Get: the key, the answer, and the
             \* value last put (history, for GetReturnsLatest)
  kv,        \* history: the value last put for each key
  crashed    \* the process died (a null dereference)

poolVars == <<tasks, stop, mutex, wpc, running, opc, joined, enqueued>>
kvVars == <<mem, imm, mode, m, rwW, rwR, minor, store, cache, cpc, mainOp,
            taskOp, calls, answer, kv, crashed>>
vars == <<kvVars, poolVars>>

NoOp == [kind |-> "none"]
NoAnswer == [key |-> 0, got |-> NotFound, want |-> NotFound]

\* What Get returns for a stored value: "" for a delete mark.
Visible(v) == IF v = DelSign THEN NotFound ELSE v

\* The call a client thread runs: the main thread's own, or the pool
\* task a worker popped.
CurrentOp(t) == IF t = Main THEN mainOp ELSE taskOp[running[t]]

\* A client that is about to start its call.
Ready(t) ==
  IF t = Main THEN cpc[Main] = "call"
  ELSE wpc[t] = "run" /\ cpc[t] = "idle"

\* The call returns; a worker's task() returns and its loop goes on.
Finish(t) ==
  /\ cpc' = [cpc EXCEPT ![t] = "idle"]
  /\ IF t \in Workers THEN Pool!WorkerRun(t) ELSE UNCHANGED poolVars

Init ==
  /\ Pool!PoolInit
  /\ mem = [k \in {} |-> NotFound]
  /\ imm = <<>>
  /\ mode = "normal"
  /\ m = Nobody
  /\ rwW = Nobody
  /\ rwR = {}
  /\ minor = 0
  /\ store = [meta |-> <<{}>>, num |-> <<0>>]
  /\ cache = Cache!EmptyCache
  /\ cpc = [t \in Clients |-> "idle"]
  /\ mainOp = NoOp
  /\ taskOp = [i \in TaskIds |-> NoOp]
  /\ calls = 0
  /\ answer = [t \in Clients |-> NoAnswer]
  /\ kv = [k \in Keys |-> NotFound]
  /\ crashed = FALSE

---------------------------------------------------------------------------
(* The main thread calls Put/Get/Del, or PutTask/GetTask/DelTask, which    *)
(* Enqueue the call in pool_ (ThreadPool::Enqueue).                        *)

Call(op) ==
  /\ ~crashed
  /\ calls < MaxCalls
  /\ cpc[Main] = "idle"
  /\ opc = "idle"
  /\ calls' = calls + 1
  /\ IF op.task
     THEN /\ Pool!Enqueue(calls + 1)
          /\ taskOp' = [taskOp EXCEPT ![calls + 1] = op]
          /\ UNCHANGED <<cpc, mainOp>>
     ELSE /\ cpc' = [cpc EXCEPT ![Main] = "call"]
          /\ mainOp' = op
          /\ UNCHANGED <<taskOp, poolVars>>
  /\ UNCHANGED <<mem, imm, mode, m, rwW, rwR, minor, store, cache, answer,
                 kv, crashed>>

---------------------------------------------------------------------------
(* Put, lines 56-81, under read_write_m_ held exclusively.                 *)

\* memory_ > kMemTable after adding a new key: the memtable rotates.
Rotates(k) == k \notin DOMAIN mem /\ Cardinality(DOMAIN mem) + 1 > MemLimit

\* Lines 72-80: when rotating, mem_table_ becomes immutable_table_, a new
\* mem_table_ is made and a MinorCompaction thread detached; then the pair
\* goes into mem_table_ and, if to_cache, into cache_.
PutEffect(k, v, c) ==
  /\ mem' = IF Rotates(k) THEN (k :> v) ELSE (k :> v) @@ mem
  /\ imm' = IF Rotates(k) THEN <<mem>> ELSE imm
  /\ minor' = IF Rotates(k) THEN minor + 1 ELSE minor
  /\ cache' = IF c THEN Cache!CachePut(cache, k, v) ELSE cache
  /\ kv' = [kv EXCEPT ![k] = v]

\* A Put that does not wait on cv_ (line 67 false or no rotation).
PutFast(t) ==
  /\ ~crashed /\ Ready(t) /\ CurrentOp(t).kind = "put"
  /\ rwW = Nobody /\ rwR = {}
  /\ ~(Rotates(CurrentOp(t).key) /\ imm # <<>>)
  /\ PutEffect(CurrentOp(t).key, CurrentOp(t).val, CurrentOp(t).cache)
  /\ Finish(t)
  /\ UNCHANGED <<mode, m, rwW, rwR, store, mainOp, taskOp, calls, answer,
                 crashed>>

\* Rotating while immutable_table_ is set: the thread keeps the lock and
\* goes to wait on cv_ (lines 67-69).
PutBlock(t) ==
  /\ ~crashed /\ Ready(t) /\ CurrentOp(t).kind = "put"
  /\ rwW = Nobody /\ rwR = {}
  /\ Rotates(CurrentOp(t).key) /\ imm # <<>>
  /\ rwW' = t
  /\ cpc' = [cpc EXCEPT ![t] = "put_wait"]
  /\ UNCHANGED <<mem, imm, mode, m, rwR, minor, store, cache, mainOp,
                 taskOp, calls, answer, kv, crashed, poolVars>>

\* The thread gets m_ with kv_store_mode_ == normal, leaves the block
\* (unlocking m_) and rotates; only the mode is tested, not that
\* immutable_table_ was stored.
PutWait(t) ==
  /\ ~crashed /\ cpc[t] = "put_wait"
  /\ m = Nobody /\ mode = "normal"
  /\ PutEffect(CurrentOp(t).key, CurrentOp(t).val, CurrentOp(t).cache)
  /\ rwW' = Nobody
  /\ Finish(t)
  /\ UNCHANGED <<mode, m, rwR, store, mainOp, taskOp, calls, answer, crashed>>

---------------------------------------------------------------------------
(* Get, lines 87-134, under read_write_m_ held shared.                     *)

\* cache_, mem_table_ or the immutable table answers (lines 90-110).
FastHit(k) ==
  \/ Cache!Cached(cache, k)
  \/ k \in DOMAIN mem
  \/ imm # <<>> /\ k \in DOMAIN imm[1]

FastAnswer(k) ==
  IF Cache!Cached(cache, k) THEN cache.items[k]
  ELSE IF k \in DOMAIN mem THEN Visible(mem[k])
  ELSE Visible(imm[1][k])

Answered(t, k, v) ==
  answer' = [answer EXCEPT ![t] = [key |-> k, got |-> v,
                                   want |-> Visible(kv[k])]]

GetFast(t) ==
  /\ ~crashed /\ Ready(t) /\ CurrentOp(t).kind = "get"
  /\ rwW = Nobody
  /\ FastHit(CurrentOp(t).key)
  /\ Answered(t, CurrentOp(t).key, FastAnswer(CurrentOp(t).key))
  /\ cache' = IF Cache!Cached(cache, CurrentOp(t).key)
              THEN Cache!CacheGet(cache, CurrentOp(t).key) ELSE cache
  /\ Finish(t)
  /\ UNCHANGED <<mem, imm, mode, m, rwW, rwR, minor, store, mainOp, taskOp,
                 calls, kv, crashed>>

\* No hit: with an immutable table the thread first waits out a running
\* compaction (lines 111-114), then reads the levels.
GetSlow(t) ==
  /\ ~crashed /\ Ready(t) /\ CurrentOp(t).kind = "get"
  /\ rwW = Nobody
  /\ ~FastHit(CurrentOp(t).key)
  /\ rwR' = rwR \cup {t}
  /\ cpc' = [cpc EXCEPT ![t] = IF imm # <<>> THEN "get_mode" ELSE "get_scan"]
  /\ UNCHANGED <<mem, imm, mode, m, rwW, minor, store, cache, mainOp, taskOp,
                 calls, answer, kv, crashed, poolVars>>

\* while (kv_store_mode_ == compact) { lock m_; wait for normal }: the
\* loop ends once the thread reads a mode other than compact.
GetMode(t) ==
  /\ ~crashed /\ cpc[t] = "get_mode"
  /\ mode # "compact"
  /\ cpc' = [cpc EXCEPT ![t] = "get_scan"]
  /\ UNCHANGED <<mem, imm, mode, m, rwW, rwR, minor, store, cache, mainOp,
                 taskOp, calls, answer, kv, crashed, poolVars>>

\* Levels from 0 down; in a level, from the last TableCache of the set
\* (rbegin) back; the first file holding the key answers (lines 119-133).
HitLevels(st, k) ==
  {i \in 0..(Len(st.meta) - 1) : \E f \in Lvl(st, i) : k \in DOMAIN f.data}

ScanLevels(st, k) ==
  IF HitLevels(st, k) = {} THEN NotFound
  ELSE (CHOOSE f \in Lvl(st, Min(HitLevels(st, k))) :
          /\ k \in DOMAIN f.data
          /\ \A g \in Lvl(st, Min(HitLevels(st, k))) :
               k \in DOMAIN g.data /\ g # f => FileLess(g, f)).data[k]

GetScan(t) ==
  /\ ~crashed /\ cpc[t] = "get_scan"
  /\ Answered(t, CurrentOp(t).key,
              Visible(ScanLevels(store, CurrentOp(t).key)))
  /\ rwR' = rwR \ {t}
  /\ Finish(t)
  /\ UNCHANGED <<mem, imm, mode, m, rwW, minor, store, cache, mainOp, taskOp,
                 calls, kv, crashed>>

---------------------------------------------------------------------------
(* A detached MinorCompaction thread, lines 179-198.  It never takes       *)
(* read_write_m_.                                                          *)

\* It locks m_, sets compact, and stores immutable_table_ as the next
\* level-0 file (lines 180-190).
MinorStart ==
  /\ ~crashed /\ minor > 0 /\ m = Nobody
  /\ imm # <<>>
  /\ m' = MC
  /\ minor' = minor - 1
  /\ mode' = "compact"
  /\ store' = WriteToFile(store, 0, StoreTimestamp, imm[1])
  /\ UNCHANGED <<mem, imm, rwW, rwR, cache, cpc, mainOp, taskOp, calls,
                 answer, kv, crashed, poolVars>>

\* immutable_table_ is nullptr: immutable_table_->Store dereferences it
\* (line 186) and the process dies.
MinorCrash ==
  /\ ~crashed /\ minor > 0 /\ m = Nobody
  /\ imm = <<>>
  /\ m' = MC
  /\ minor' = minor - 1
  /\ mode' = "compact"
  /\ crashed' = TRUE
  /\ UNCHANGED <<mem, imm, rwW, rwR, store, cache, cpc, mainOp, taskOp,
                 calls, answer, kv, poolVars>>

\* Mutant: kv_store_mode_ is left compact when the thread finishes.
MinorFinishKeepsMode ==
  /\ ~crashed /\ m = MC
  /\ \E r \in MajorCompaction(store, 1) : store' = r
  /\ imm' = <<>>
  /\ m' = Nobody
  /\ UNCHANGED <<mode, mem, rwW, rwR, minor, cache, cpc, mainOp, taskOp,
                 calls, answer, kv, crashed, poolVars>>

\* MajorCompaction(1), immutable_table_ = nullptr, mode normal, unlock
\* and notify (lines 192-197).
MinorFinish ==
  /\ ~crashed /\ m = MC
  /\ \E r \in MajorCompaction(store, 1) : store' = r
  /\ imm' = <<>>
  /\ mode' = "normal"
  /\ m' = Nobody
  /\ UNCHANGED <<mem, rwW, rwR, minor, cache, cpc, mainOp, taskOp, calls,
                 answer, kv, crashed, poolVars>>

---------------------------------------------------------------------------

\* A pool worker's own loop steps (the task's return is Finish).
WorkerLoop(w) ==
  /\ ~crashed
  /\ \/ Pool!WorkerLock(w) \/ Pool!WorkerCheckWait(w)
     \/ Pool!WorkerPop(w) \/ Pool!WorkerBlock(w)
  /\ UNCHANGED kvVars

OwnerNotify == ~crashed /\ Pool!EnqueueNotify /\ UNCHANGED kvVars

ClientStep(t) ==
  \/ PutFast(t) \/ PutBlock(t) \/ PutWait(t)
  \/ GetFast(t) \/ GetSlow(t) \/ GetMode(t) \/ GetScan(t)

MinorStep == MinorStart \/ MinorCrash \/ MinorFinish

\* The program has stopped: it crashed, or the main thread made all its
\* calls and every call, task and compaction thread has finished.
Stopped ==
  \/ crashed
  \/ /\ calls = MaxCalls /\ opc = "idle" /\ tasks = <<>>
     /\ \A t \in Clients : cpc[t] = "idle"
     /\ \A w \in Workers : wpc[w] = "waiting"
     /\ minor = 0 /\ m = Nobody

Next ==
  \/ \E op \in ClientOps : Call(op)
  \/ OwnerNotify
  \/ \E w \in Workers : WorkerLoop(w)
  \/ \E t \in Clients : ClientStep(t)
  \/ MinorStep
  \/ Stopped /\ UNCHANGED vars

\* Every thread is an OS thread that keeps running while it can: client
\* threads, pool workers, the owner's notify, and the compaction threads.
\* The main thread's next call is its own choice and has no fairness.
Fairness ==
  /\ \A t \in Clients : WF_vars(ClientStep(t))
  /\ \A w \in Workers : WF_vars(WorkerLoop(w))
  /\ WF_vars(OwnerNotify)
  /\ WF_vars(MinorStep)

Spec == Init /\ [][Next]_vars /\ Fairness

---------------------------------------------------------------------------
(* Properties.                                                             *)

\* Get returns the value of the last Put of the key, and "" after Del or
\* when it was never put (test/correctness.cc checks exactly this).  Get
\* holds read_write_m_ shared, so no Put runs while it reads.
GetReturnsLatest == \A t \in Clients : answer[t].got = answer[t].want

\* MinorCompaction never finds immutable_table_ null: each detached thread
\* stores the table that the Put which spawned it made immutable.
NoNullDereference == ~crashed

\* Every call returns unless the process died: a call a client thread
\* started returns, and a task in pool_'s queue is run by a worker.  The
\* cv_ waits end because kv_store_mode_ is compact only while a
\* MinorCompaction thread holds m_, and that thread always resets it.
CallsReturn ==
  /\ \A t \in Clients : cpc[t] # "idle" ~> (cpc[t] = "idle" \/ crashed)
  /\ \A i \in TaskIds :
       (\E j \in 1..Len(tasks) : tasks[j] = i)
         ~> (\E w \in Workers : running[w] = i) \/ crashed

=============================================================================
