----------------------------- MODULE LSMFormat -----------------------------
(***************************************************************************)
(* Data shared by the lsmkv modules: internal entries, the internal-key    *)
(* order, and the read algorithm of the memtable and of a Version.         *)
(*                                                                         *)
(* A user key is an integer (the user comparator is bytewise and only its  *)
(* order matters); a value is a model value.  An entry is what MemTable::  *)
(* Put packs into the skip list and what an SSTable stores:                *)
(* user_key | pack(sequence, type) -> value.                               *)
(***************************************************************************)
EXTENDS Integers, FiniteSets, Sequences, SequencesExt

CONSTANTS
  Keys,        \* user keys, a finite set of integers
  Vals,        \* user values (model values)
  NumLevels    \* config::kNumLevels

ASSUME Keys \subseteq Int /\ Keys # {}
ASSUME NumLevels \in Nat /\ NumLevels >= 2

Levels == 0..(NumLevels - 1)

\* RecordType: KTypeDeletion = 0x0, KTypeInsertion = 0x1 (= KTypeLookup).
TypeNum(t) == IF t = "put" THEN 1 ELSE 0

NoVal == "noval"   \* the empty value of a deletion

Entry(seqs) ==
  [key : Keys, seq : seqs, type : {"put"}, val : Vals]
    \cup [key : Keys, seq : seqs, type : {"del"}, val : {NoVal}]

\* PackSequenceAndType(seq, type) = (seq << 8) | type, compared as a number.
Packed(e) == e.seq * 256 + TypeNum(e.type)

(***************************************************************************)
(* InternalKeyComparator::Compare: user key ascending, then the packed     *)
(* (sequence, type) descending, so the newest entry of a key comes first.  *)
(***************************************************************************)
IKeyLess(a, b) ==
  \/ a.key < b.key
  \/ a.key = b.key /\ Packed(a) > Packed(b)

IKeyLeq(a, b) == IKeyLess(a, b) \/ (a.key = b.key /\ Packed(a) = Packed(b))

\* A finite set as a sequence sorted by op (SortSeq over a fold of the set).
SortedSeq(S, op(_, _)) == SortSeq(FoldSet(LAMBDA x, acc : <<x>> \o acc, <<>>, S), op)

\* The entries of a set in internal-key order (what an iterator visits).
Sorted(S) == SortedSeq(S, IKeyLess)

(***************************************************************************)
(* The result of probing one sorted run (a memtable or an SSTable) for a   *)
(* LookupKey(key, seq): the first entry >= the lookup key, if it has the   *)
(* same user key.  "miss" means: keep searching the next run.             *)
(***************************************************************************)
Miss    == "miss"
Deleted == "deleted"

Probe(S, k, s) ==
  LET C == {e \in S : e.key = k /\ e.seq <= s}
      newest == CHOOSE e \in C : \A f \in C : Packed(f) <= Packed(e)
  IN  IF C = {} THEN Miss
      ELSE IF newest.type = "put" THEN newest.val ELSE Deleted

(***************************************************************************)
(* An SSTable as FileMeta sees it: number, entries, smallest and largest   *)
(* internal key.  A Version is a function from level to a set of files;   *)
(* files_[level] keeps them ordered by (smallest, number) (Builder's       *)
(* BySmallestKey).                                                         *)
(***************************************************************************)
MakeFile(num, S) ==
  LET sq == Sorted(S)
  IN  [num |-> num, entries |-> S, smallest |-> sq[1], largest |-> sq[Len(sq)]]

BySmallestKey(f1, f2) ==
  \/ IKeyLess(f1.smallest, f2.smallest)
  \/ f1.smallest = f2.smallest /\ f1.num < f2.num

LevelSeq(v, level) == SortedSeq(v[level], BySmallestKey)

FileSize(f) == Cardinality(f.entries)

TotalFileSize(S) == MapThenSumSet(FileSize, S)

FileNums(v) == {f.num : f \in UNION {v[l] : l \in Levels}}

(***************************************************************************)
(* FindFile: binary search for the first file whose largest user key is   *)
(* >= user_key (files sorted by largest when level > 0).                   *)
(***************************************************************************)
RECURSIVE FindFileFrom(_, _, _, _)
FindFileFrom(fs, k, lo, hi) ==
  IF lo >= hi THEN hi
  ELSE LET mid == (lo + hi) \div 2
       IN  IF k > fs[mid + 1].largest.key
           THEN FindFileFrom(fs, k, mid + 1, hi)
           ELSE FindFileFrom(fs, k, lo, mid)

FindFile(fs, k) == FindFileFrom(fs, k, 0, Len(fs))   \* 0-based index

(***************************************************************************)
(* Version::ForEachFile + State::SSTableMatch: the files probed for a key, *)
(* in order (level-0 files containing the key, newest number first; then  *)
(* on each deeper level the one candidate file found by FindFile), and    *)
(* the first answer that is not a miss.                                   *)
(***************************************************************************)
L0Candidates(v, k) ==
  SortedSeq({f \in v[0] : f.smallest.key <= k /\ k <= f.largest.key},
               LAMBDA a, b : a.num > b.num)

LevelCandidate(v, level, k) ==
  LET fs == LevelSeq(v, level)
      i  == FindFile(fs, k)
  IN  IF i < Len(fs) /\ k >= fs[i + 1].smallest.key THEN <<fs[i + 1]>> ELSE <<>>

ProbeOrder(v, k) ==
  L0Candidates(v, k) \o
    FlattenSeq([i \in 1..(NumLevels - 1) |-> LevelCandidate(v, i, k)])

RECURSIVE FirstAnswer(_, _, _)
FirstAnswer(fs, k, s) ==
  IF fs = <<>> THEN Miss
  ELSE LET r == Probe(Head(fs).entries, k, s)
       IN  IF r # Miss THEN r ELSE FirstAnswer(Tail(fs), k, s)

VersionGet(v, k, s) == FirstAnswer(ProbeOrder(v, k), k, s)

(***************************************************************************)
(* DBImpl::Get: memtable, then the immutable memtable, then the Version.  *)
(* imm is NoMem, the empty set, when imm_ is nullptr: an immutable        *)
(* memtable is never empty, for rotation needs mem_ above write_mem_size. *)
(***************************************************************************)
NoMem == {}

DBGet(mem, imm, v, k, s) ==
  LET m == Probe(mem, k, s)
      i == IF imm = NoMem THEN Miss ELSE Probe(imm, k, s)
  IN  IF m # Miss THEN m ELSE IF i # Miss THEN i ELSE VersionGet(v, k, s)

\* What a client is told: a value, or NotFound.
NotFound == "notfound"
Answer(r) == IF r \in Vals THEN r ELSE NotFound
=============================================================================
