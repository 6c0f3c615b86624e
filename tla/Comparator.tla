----------------------------- MODULE Comparator -----------------------------
(***************************************************************************)
(* The key orders of the DB: ByteWiseComparator (util/comparator.cc), the  *)
(* default user comparator, and InternalKeyComparator (db/format/          *)
(* internal_key.cc), the order of every memtable, block and SSTable, with *)
(* the separators FindShortestMiddle and FindShortestBigger that the       *)
(* SSTable builder writes into the index block.                            *)
(*                                                                         *)
(* A user key is a sequence of bytes, numbers in 1..MaxByte (MaxByte is    *)
(* 0xff).  An internal key is the user key followed by one element, the   *)
(* tag: the fixed64 PackSequenceAndType(seq, type) is abstracted to one    *)
(* number, compared as the code compares the decoded fixed64.              *)
(***************************************************************************)
EXTENDS Naturals, Sequences

CONSTANTS
  MaxByte,     \* 0xff: a byte FindShortest* does not increment
  LookupTag    \* PackSequenceAndType(KMaxSequenceNum, KTypeLookup)

\* ByteWiseComparator::Compare, lines 11-13: a < b as std::string_view.
RECURSIVE BytewiseLess(_, _)
BytewiseLess(a, b) ==
  IF b = <<>> THEN FALSE
  ELSE IF a = <<>> THEN TRUE
  ELSE IF Head(a) # Head(b) THEN Head(a) < Head(b)
  ELSE BytewiseLess(Tail(a), Tail(b))

\* The loop of lines 19-22: the length of the common prefix of a and b.
RECURSIVE DiffIndex(_, _)
DiffIndex(a, b) ==
  IF a # <<>> /\ b # <<>> /\ Head(a) = Head(b) THEN 1 + DiffIndex(Tail(a), Tail(b)) ELSE 0

\* ByteWiseComparator::FindShortestMiddle, lines 15-32: at the first
\* differing byte d of start, when d + 1 is still below limit's byte,
\* start becomes its prefix up to d with d incremented.
FindShortestMiddle(start, limit) ==
  IF /\ DiffIndex(start, limit) < Len(start)
     /\ DiffIndex(start, limit) < Len(limit)
     /\ start[DiffIndex(start, limit) + 1] < MaxByte
     /\ start[DiffIndex(start, limit) + 1] + 1 < limit[DiffIndex(start, limit) + 1]
  THEN SubSeq(start, 1, DiffIndex(start, limit)) \o <<start[DiffIndex(start, limit) + 1] + 1>>
  ELSE start

\* ByteWiseComparator::FindShortestBigger, lines 33-42: the first byte
\* below 0xff is incremented and the rest cut off.
FindShortestBigger(start) ==
  IF \E i \in 1..Len(start) : start[i] < MaxByte
  THEN LET i == CHOOSE i \in 1..Len(start) : start[i] < MaxByte /\
                  \A j \in 1..i - 1 : start[j] = MaxByte
       IN  SubSeq(start, 1, i - 1) \o <<start[i] + 1>>
  ELSE start

---------------------------------------------------------------------------
(* Internal keys (internal_key.h, internal_key.cc).                       *)

UserKey(k) == SubSeq(k, 1, Len(k) - 1)          \* ExtractUserKey
Tag(k) == k[Len(k)]
InternalKey(user, tag) == user \o <<tag>>       \* AppendInternalKey

\* InternalKeyComparator::Compare, lines 46-60: by user key, then the
\* larger sequence number (the newer entry) first.
InternalLess(a, b) ==
  \/ BytewiseLess(UserKey(a), UserKey(b))
  \/ UserKey(a) = UserKey(b) /\ Tag(a) > Tag(b)

\* Mutant: the user key gets the lookup tag even when it was not shortened.
InternalFindShortestMiddleNoSizeCheck(start, limit) ==
  InternalKey(FindShortestMiddle(UserKey(start), UserKey(limit)), LookupTag)

\* InternalKeyComparator::FindShortestMiddle, lines 62-73: the user key is
\* shortened, and a shorter, larger user key gets the lookup tag, which
\* sorts before every entry of that user key.
InternalFindShortestMiddle(start, limit) ==
  IF /\ Len(FindShortestMiddle(UserKey(start), UserKey(limit))) < Len(UserKey(start))
     /\ BytewiseLess(UserKey(start), FindShortestMiddle(UserKey(start), UserKey(limit)))
  THEN InternalKey(FindShortestMiddle(UserKey(start), UserKey(limit)), LookupTag)
  ELSE start

\* InternalKeyComparator::FindShortestBigger, lines 75-84.  The code hands
\* the whole internal key, tag included, to the user comparator; the size
\* test then rejects a result that only changed the tag.
InternalFindShortestBigger(start) ==
  IF /\ Len(FindShortestBigger(start)) < Len(UserKey(start))
     /\ BytewiseLess(UserKey(start), FindShortestBigger(start))
  THEN InternalKey(FindShortestBigger(start), LookupTag)
  ELSE start

=============================================================================
