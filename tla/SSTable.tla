------------------------------- MODULE SSTable -------------------------------
(***************************************************************************)
(* An SSTable of the DB (src/lsmkv/db/sstable): BuildSSTable and           *)
(* SSTableBuilder cutting sorted internal keys into data blocks and        *)
(* writing the index block of separators, the filter index block and the  *)
(* footer; SSTableReader::Open, InternalGet and NewIterator, the           *)
(* TwoLevelIterator of util/iterator.cc over the index block and the data  *)
(* blocks it names.                                                         *)
(*                                                                         *)
(* The table comparator is InternalKeyComparator (AdaptOption sets it in   *)
(* dbimpl.cc).  A file is the sequence of blocks appended to it, each with *)
(* its BlockHandle [offset, size], and the footer.  Block contents are the *)
(* SSTableBlock records; Snappy compression is a round trip and the CRC    *)
(* is not checked (check_crc is false by default), so both are left out.  *)
(* filter_policy is nullptr by default: no filter block is written and    *)
(* InternalGet never consults one.  Writes do not fail.                    *)
(***************************************************************************)
EXTENDS Integers, Sequences

CONSTANTS MaxByte, LookupTag

Cmp == INSTANCE Comparator
Blk == INSTANCE SSTableBlock WITH Less <- LAMBDA a, b : Cmp!InternalLess(a, b)

KBlockTailSize == 5                    \* block_format.h: type and crc
KFooterLength == 48                    \* Footer::KEncodeLength
NoHandle == [offset |-> -1, size |-> 0]
NoIter == [offset |-> -1, next |-> -1, ri |-> -1, key |-> <<>>, value |-> 0]

\* BlockBuilder::ByteSize (block_builder.cc lines 46-54): the entries (the
\* three varint lengths of a byte each, the key delta, a one-byte value),
\* the restart array and its size.
RECURSIVE EntriesSize(_)
EntriesSize(es) == IF es = <<>> THEN 0 ELSE 3 + Len(Head(es).delta) + 1 + EntriesSize(Tail(es))
ByteSize(b) == EntriesSize(b.entries) + 4 * Len(b.restarts) + 4

---------------------------------------------------------------------------
(* SSTableBuilder (sstable_builder.cc).  The Rep is [data, index, lastKey, *)
(* num, offset, over, handle, file, footer]: the two block builders,       *)
(* last_key_, num_entries_, offset_, data_block_over_, data_block_handle_, *)
(* the blocks appended and the footer.                                     *)

NewRep == [data |-> Blk!NewBuilder, index |-> Blk!NewBuilder, lastKey |-> <<>>,
           num |-> 0, offset |-> 0, over |-> FALSE, handle |-> NoHandle,
           file |-> <<>>, footer |-> [index |-> NoHandle, filter |-> [offset |-> 0, size |-> 0]]]

Handle(r, blk) == [offset |-> r.offset, size |-> ByteSize(blk)]

\* WriteRawBlock, lines 187-203: the contents and the 5-byte tail.
WriteRawBlock(r, blk) ==
  [r EXCEPT !.file = Append(@, [handle |-> Handle(r, blk), contents |-> blk]),
            !.offset = @ + ByteSize(blk) + KBlockTailSize]

\* WriteBlock, lines 165-185: Finish the builder and write it (the caller
\* resets the builder).
WriteBlock(r, b) == WriteRawBlock(r, Blk!Finish(b))

\* Flush, lines 150-161: a non-empty data block is written and the index
\* entry for it is owed.
Flush(r) ==
  IF r.data.entries = <<>> THEN r
  ELSE [WriteBlock(r, r.data) EXCEPT !.data = Blk!NewBuilder, !.over = TRUE,
                                     !.handle = Handle(r, Blk!Finish(r.data))]

\* Lines 126-136: the index entry of the last block, keyed by a separator
\* between its last key and the new key.
AddIndexEntry(r, key) ==
  IF r.over
  THEN [r EXCEPT !.index = Blk!Add(@, Cmp!InternalFindShortestMiddle(r.lastKey, key), r.handle, 1),
                 !.over = FALSE]
  ELSE r

\* Lines 140-147: the entry goes into the data block, which is flushed
\* once it reaches block_size.
AddData(r, key, value, interval, blockSize) ==
  IF ByteSize(Blk!Add(r.data, key, value, interval)) >= blockSize
  THEN Flush([r EXCEPT !.data = Blk!Add(@, key, value, interval), !.lastKey = key, !.num = @ + 1])
  ELSE [r EXCEPT !.data = Blk!Add(@, key, value, interval), !.lastKey = key, !.num = @ + 1]

\* SSTableBuilder::Add, lines 114-148.
Add(r, key, value, interval, blockSize) ==
  AddData(AddIndexEntry(r, key), key, value, interval, blockSize)

\* Finish, lines 214-224: the filter index block, empty without a filter.
WriteFilterIndex(r) == WriteBlock(r, Blk!NewBuilder)

\* Lines 225-237: the last block's index entry, keyed by a key above its
\* last key, then the index block, whose handle the footer records.
CloseIndex(r) ==
  IF r.over
  THEN [r EXCEPT !.index = Blk!Add(@, Cmp!InternalFindShortestBigger(r.lastKey), r.handle, 1),
                 !.over = FALSE]
  ELSE r
WriteIndex(r) ==
  [WriteBlock(r, r.index) EXCEPT !.footer.index = Handle(r, Blk!Finish(r.index))]

\* Lines 238-249: the footer (filter handle unset: no filter block).
WriteFooter(r) == [r EXCEPT !.offset = @ + KFooterLength]

Finish(r) == WriteFooter(WriteIndex(CloseIndex(WriteFilterIndex(Flush(r)))))

\* The loop of BuildSSTable over the iterator, entry i with value i.
RECURSIVE AddAll(_, _, _, _, _)
AddAll(r, keys, i, interval, blockSize) ==
  IF i > Len(keys) THEN r
  ELSE AddAll(Add(r, keys[i], i, interval, blockSize), keys, i + 1, interval, blockSize)

\* BuildSSTable, lines 20-64: an empty input leaves file_size 0 and the
\* file removed; otherwise meta gets the first and last key and the size.
BuildSSTable(keys, interval, blockSize) ==
  IF keys = <<>> THEN [exists |-> FALSE, meta |-> [size |-> 0]]
  ELSE LET r == Finish(AddAll(NewRep, keys, 1, interval, blockSize))
       IN  [exists |-> TRUE, file |-> r.file, footer |-> r.footer,
            meta |-> [smallest |-> keys[1], largest |-> keys[Len(keys)], size |-> r.offset]]

---------------------------------------------------------------------------
(* SSTableReader (sstable_reader.cc) and TwoLevelIterator (iterator.cc). *)
(* A two-level iterator is [index, data, handle]: index_iter_, data_iter_ *)
(* (NoIter for nullptr) and data_block_handle_.                          *)

\* ReadBlock (block_format.cc lines 49-113) of a handle the file holds.
ReadBlock(t, h) == t.file[CHOOSE i \in DOMAIN t.file : t.file[i].handle = h].contents

\* Open, lines 29-64: the footer's index block.
IndexBlock(t) == ReadBlock(t, t.footer.index)

DataBlock(t, ti) == ReadBlock(t, ti.handle)

NewIterator(t) == [index |-> Blk!NewIter(IndexBlock(t)), data |-> NoIter, handle |-> NoHandle]

Valid(t, ti) == ti.data # NoIter /\ Blk!Valid(ti.data, DataBlock(t, ti))

\* UpdateDataBlock, lines 155-167: the block the index names, kept when it
\* is the one already open.
UpdateDataBlock(t, ti) ==
  IF ~Blk!Valid(ti.index, IndexBlock(t)) THEN [ti EXCEPT !.data = NoIter]
  ELSE IF ti.data # NoIter /\ ti.index.value = ti.handle THEN ti
  ELSE [ti EXCEPT !.data = Blk!NewIter(ReadBlock(t, ti.index.value)), !.handle = ti.index.value]

DataFirst(t, ti) == IF ti.data = NoIter THEN ti ELSE [ti EXCEPT !.data = Blk!SeekToFirst(DataBlock(t, ti), @)]
DataLast(t, ti) == IF ti.data = NoIter THEN ti ELSE [ti EXCEPT !.data = Blk!SeekToLast(DataBlock(t, ti), @)]
DataSeek(t, ti, key) == IF ti.data = NoIter THEN ti ELSE [ti EXCEPT !.data = Blk!Seek(DataBlock(t, ti), @, key)]
IndexNext(t, ti) == [ti EXCEPT !.index = Blk!SeekNextKey(IndexBlock(t), @)]
IndexPrev(t, ti) == [ti EXCEPT !.index = Blk!Prev(IndexBlock(t), @)]

\* SkipEmptyDataBlock, lines 169-189: move the index on until a data block
\* has an entry in the direction of travel.
RECURSIVE SkipEmptyDataBlock(_, _, _)
SkipEmptyDataBlock(t, ti, forward) ==
  IF Valid(t, ti) THEN ti
  ELSE IF ~Blk!Valid(ti.index, IndexBlock(t)) THEN [ti EXCEPT !.data = NoIter]
  ELSE SkipEmptyDataBlock(t,
         IF forward THEN DataFirst(t, UpdateDataBlock(t, IndexNext(t, ti)))
         ELSE DataLast(t, UpdateDataBlock(t, IndexPrev(t, ti))), forward)

\* Mutant: Prev stays in the data block it stepped out of.
PrevInBlock(t, ti) == [ti EXCEPT !.data = Blk!Prev(DataBlock(t, ti), @)]

\* Next and Prev, lines 191-201.
Next(t, ti) == SkipEmptyDataBlock(t, [ti EXCEPT !.data = Blk!SeekNextKey(DataBlock(t, ti), @)], TRUE)

Prev(t, ti) == SkipEmptyDataBlock(t, [ti EXCEPT !.data = Blk!Prev(DataBlock(t, ti), @)], FALSE)

\* Mutant: Seek takes the block the index names as the answer.
SeekNoSkip(t, ti, key) ==
  DataSeek(t, UpdateDataBlock(t, [ti EXCEPT !.index = Blk!Seek(IndexBlock(t), @, key)]), key)

\* Seek, SeekToFirst and SeekToLast, lines 203-228.
Seek(t, ti, key) ==
  SkipEmptyDataBlock(t, DataSeek(t, UpdateDataBlock(t,
    [ti EXCEPT !.index = Blk!Seek(IndexBlock(t), @, key)]), key), TRUE)

SeekToFirst(t, ti) ==
  SkipEmptyDataBlock(t, DataFirst(t, UpdateDataBlock(t,
    [ti EXCEPT !.index = Blk!SeekToFirst(IndexBlock(t), @)])), TRUE)

SeekToLast(t, ti) ==
  SkipEmptyDataBlock(t, DataLast(t, UpdateDataBlock(t,
    [ti EXCEPT !.index = Blk!SeekToLast(IndexBlock(t), @)])), FALSE)

\* InternalGet, lines 151-178: the one block the index names for key is
\* searched; the callback gets the entry found, if any.
Answer(blk, it) ==
  IF Blk!Valid(it, blk) THEN [found |-> TRUE, key |-> it.key, value |-> it.value]
  ELSE [found |-> FALSE]
GetIn(t, ix, key) ==
  IF ~Blk!Valid(ix, IndexBlock(t)) THEN [found |-> FALSE]
  ELSE Answer(ReadBlock(t, ix.value), Blk!Seek(ReadBlock(t, ix.value), Blk!NewIter(ReadBlock(t, ix.value)), key))
InternalGet(t, key) == GetIn(t, Blk!Seek(IndexBlock(t), Blk!NewIter(IndexBlock(t)), key), key)

=============================================================================
