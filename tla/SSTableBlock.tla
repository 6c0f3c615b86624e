---------------------------- MODULE SSTableBlock ----------------------------
(***************************************************************************)
(* A data or index block of an SSTable (src/lsmkv/db/sstable): BlockBuilder *)
(* writing prefix-compressed entries with a restart point every            *)
(* block_restart_interval keys, and BlockReader::Iter reading them back:  *)
(* Seek's binary search over the restart points with its shortcut from a  *)
(* valid position, the linear scan, Next, Prev and SeekToLast.            *)
(*                                                                         *)
(* A key is a sequence of small integers; Less is the iterator's cmp_    *)
(* (the bytewise or the internal key order, module Comparator).  An entry is *)
(* [shared, delta, value]; the varint and fixed32 encodings of the block  *)
(* are abstracted to the entries and the restart array they encode, and   *)
(* an offset is an entry index (entry o is entries[o + 1]), so a block is  *)
(* [entries, restarts].  The reader's corruption paths (ParsedEntry       *)
(* failing, a restart entry with shared # 0) cannot occur on a block the  *)
(* builder wrote and are not modelled.                                    *)
(***************************************************************************)
EXTENDS Integers, Sequences

CONSTANT Less(_, _)   \* the comparator's a < b

\* The length of the common prefix (block_builder.cc lines 17-20).
RECURSIVE SharedLen(_, _)
SharedLen(a, b) ==
  IF a # <<>> /\ b # <<>> /\ Head(a) = Head(b)
  THEN 1 + SharedLen(Tail(a), Tail(b)) ELSE 0

---------------------------------------------------------------------------
(* BlockBuilder (block_builder.cc).                                         *)

\* The constructor (lines 8-11) and Reset (lines 56-63).
NewBuilder == [entries |-> <<>>, restarts |-> <<0>>, counter |-> 0, lastKey |-> <<>>]

\* Add, lines 12-35: within a restart interval the key shares its prefix
\* with the last key; otherwise a restart point starts at this entry.
Add(b, key, value, interval) ==
  IF b.counter < interval
  THEN [b EXCEPT !.entries = Append(@, [shared |-> SharedLen(key, b.lastKey),
                   delta |-> SubSeq(key, SharedLen(key, b.lastKey) + 1, Len(key)),
                   value |-> value]),
                 !.counter = @ + 1, !.lastKey = key]
  ELSE [b EXCEPT !.entries = Append(@, [shared |-> 0, delta |-> key, value |-> value]),
                 !.restarts = Append(@, Len(b.entries)),
                 !.counter = 1, !.lastKey = key]

\* The table builder adds the keys in order; Finish (lines 37-44) appends
\* the restart array and its size.  Entry i's value is i.
RECURSIVE AddAll(_, _, _, _)
AddAll(b, keys, i, interval) ==
  IF i > Len(keys) THEN b ELSE AddAll(Add(b, keys[i], i, interval), keys, i + 1, interval)

Finish(b) == [entries |-> b.entries, restarts |-> b.restarts]

BuildBlock(keys, interval) == Finish(AddAll(NewBuilder, keys, 1, interval))

---------------------------------------------------------------------------
(* BlockReader::Iter (block_reader.cc).  The iterator is [offset, next,   *)
(* ri, key, value]: offset_, NextEntryOffset() (the end of value_),        *)
(* restart_index_, key_ and the value.  offset = Len(entries) is invalid. *)

Limit(blk) == Len(blk.entries)                       \* restart_offset_
NumRestarts(blk) == Len(blk.restarts)
RestartOffset(blk, r) == blk.restarts[r + 1]         \* GetRestartOffset

\* The constructor, lines 35-44: not valid.
NewIter(blk) == [offset |-> Limit(blk), next |-> Limit(blk), ri |-> NumRestarts(blk),
                 key |-> <<>>, value |-> 0]

Valid(it, blk) == it.offset < Limit(blk)

\* SeekToRestart, lines 177-182.
SeekToRestart(blk, it, r) ==
  [it EXCEPT !.key = <<>>, !.ri = r, !.next = RestartOffset(blk, r)]

\* The loop of lines 202-205: restart_index_ follows the entry.
RECURSIVE FollowRestart(_, _, _)
FollowRestart(blk, ri, offset) ==
  IF ri + 1 < NumRestarts(blk) /\ RestartOffset(blk, ri + 1) <= offset
  THEN FollowRestart(blk, ri + 1, offset) ELSE ri

\* SeekNextKey, lines 183-207: parse the entry at NextEntryOffset.
SeekNextKey(blk, it) ==
  IF it.next >= Limit(blk)
  THEN [it EXCEPT !.offset = Limit(blk), !.ri = NumRestarts(blk)]
  ELSE [offset |-> it.next, next |-> it.next + 1,
        ri |-> FollowRestart(blk, it.ri, it.next),
        key |-> SubSeq(it.key, 1, blk.entries[it.next + 1].shared)
                  \o blk.entries[it.next + 1].delta,
        value |-> blk.entries[it.next + 1].value]

\* SeekToFirst, lines 138-141.
SeekToFirst(blk, it) == SeekNextKey(blk, SeekToRestart(blk, it, 0))

\* `while (SeekNextKey() && NextEntryOffset() < bound) {}` (lines 75-76,
\* 145-146): scan on to the entry that ends at bound.
RECURSIVE ScanTo(_, _, _)
ScanTo(blk, it, bound) ==
  IF ~Valid(SeekNextKey(blk, it), blk) THEN SeekNextKey(blk, it)
  ELSE IF SeekNextKey(blk, it).next < bound THEN ScanTo(blk, SeekNextKey(blk, it), bound)
  ELSE SeekNextKey(blk, it)

\* SeekToLast, lines 143-147.
SeekToLast(blk, it) ==
  ScanTo(blk, SeekToRestart(blk, it, NumRestarts(blk) - 1), Limit(blk))

\* Prev, lines 62-77: back to the last restart point before the entry,
\* then forward to the entry just before it.
RECURSIVE PrevRestart(_, _, _)

\* Mutant: the loop stops at a restart point at the entry itself.
PrevRestartStrict(blk, ri, old) ==
  IF RestartOffset(blk, ri) > old
  THEN IF ri = 0 THEN -1 ELSE PrevRestart(blk, ri - 1, old)
  ELSE ri

PrevRestart(blk, ri, old) ==
  IF RestartOffset(blk, ri) >= old
  THEN IF ri = 0 THEN -1 ELSE PrevRestart(blk, ri - 1, old)
  ELSE ri

PrevFrom(blk, it, r) ==
  IF r = -1 THEN [it EXCEPT !.offset = Limit(blk), !.ri = NumRestarts(blk)]
  ELSE ScanTo(blk, SeekToRestart(blk, it, r), it.offset)

Prev(blk, it) == PrevFrom(blk, it, PrevRestart(blk, it.ri, it.offset))

\* Mutant: the shortcut is taken whenever the search stays in the
\* iterator's restart interval, also when its key is past the target.
SkipSeekAnyCompare(lo, it, cc) == lo = it.ri

\* Line 124: the search resumes from the current entry only when it lies
\* in the chosen interval and before the target.
SkipSeek(lo, it, cc) == lo = it.ri /\ cc < 0

\* The binary search of lines 98-121 over restart points lo..hi: the last
\* restart point whose key is below the target (or lo).
RECURSIVE BinarySearch(_, _, _, _)
BinarySearch(blk, target, lo, hi) ==
  IF lo >= hi THEN lo
  ELSE IF Less(blk.entries[RestartOffset(blk, (lo + hi + 1) \div 2) + 1].delta, target)
  THEN BinarySearch(blk, target, (lo + hi + 1) \div 2, hi)
  ELSE BinarySearch(blk, target, lo, (lo + hi + 1) \div 2 - 1)

\* The linear search of lines 128-135: the first key >= target.
RECURSIVE LinearSeek(_, _, _)
LinearSeek(blk, it, target) ==
  IF ~Valid(SeekNextKey(blk, it), blk) THEN SeekNextKey(blk, it)
  ELSE IF ~Less(SeekNextKey(blk, it).key, target) THEN SeekNextKey(blk, it)
  ELSE LinearSeek(blk, SeekNextKey(blk, it), target)

\* Lines 122-135, after the binary search chose lo.
SeekFrom(blk, it, target, lo, cc) ==
  LinearSeek(blk, IF SkipSeek(lo, it, cc) THEN it ELSE SeekToRestart(blk, it, lo), target)

\* The comparison of lines 85-94 of the current key with the target.
Compare(a, b) == IF Less(a, b) THEN -1 ELSE IF a = b THEN 0 ELSE 1

\* Seek, lines 79-136.  From a valid position the search is narrowed to
\* one side of the iterator's restart interval, or ends at once on an
\* equal key.
Seek(blk, it, target) ==
  IF ~Valid(it, blk)
  THEN SeekFrom(blk, it, target, BinarySearch(blk, target, 0, NumRestarts(blk) - 1), 0)
  ELSE CASE Compare(it.key, target) < 0 ->
              SeekFrom(blk, it, target, BinarySearch(blk, target, it.ri, NumRestarts(blk) - 1), -1)
         [] Compare(it.key, target) > 0 ->
              SeekFrom(blk, it, target, BinarySearch(blk, target, 0, it.ri), 1)
         [] OTHER -> it

=============================================================================
