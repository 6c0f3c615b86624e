----------------------------- MODULE Compaction -----------------------------
(***************************************************************************)
(* The compaction algorithms of VersionSet (db/version/version.cc) and the *)
(* merge loop of DBImpl::DoCompactionLevel (db/dbimpl.cc), as operators    *)
(* over Versions.  Sizes are counted in entries: option.max_file_size is   *)
(* MaxFileEntries and LevelMaxSize(1) is BaseLevelEntries.                 *)
(***************************************************************************)
EXTENDS LSMFormat

CONSTANTS
  L0CompactionThreshold,  \* config::kL0CompactionThreshold
  MaxFileEntries,         \* option.max_file_size
  BaseLevelEntries        \* LevelMaxSize(1)

NoKey  == [key |-> -1, seq |-> -1, type |-> "none", val |-> NoVal]  \* an empty InternalKey
NoComp == [level |-> -1]

\* LevelMaxSize: ten times larger for every level below level 1.
LevelMaxSize(level) == BaseLevelEntries * 10 ^ (level - 1)

(***************************************************************************)
(* EvalCompactionScore: a score is a fraction [n, d].  Level 0 scores      *)
(* files / threshold in integer division; deeper levels bytes / max size. *)
(* The best level is the first one with the largest score.                *)
(***************************************************************************)
Score(v, level) ==
  IF level = 0 THEN [n |-> Cardinality(v[0]) \div L0CompactionThreshold, d |-> 1]
  ELSE [n |-> TotalFileSize(v[level]), d |-> LevelMaxSize(level)]

ScoreLess(a, b) == a.n * b.d < b.n * a.d

CompactionLevel(v) ==
  CHOOSE l \in Levels :
    /\ \A m \in Levels : ~ScoreLess(Score(v, l), Score(v, m))
    /\ \A m \in 0..(l - 1) : ScoreLess(Score(v, m), Score(v, l))

\* VersionSet::NeedCompaction: compaction_score >= 1 (seek compaction,
\* which needs 100 reads of one file, is not modelled).
NeedCompaction(v) == LET s == Score(v, CompactionLevel(v)) IN s.n >= s.d

(***************************************************************************)
(* VersionSet::GetRange as written: a later file replaces smallest when    *)
(* the current smallest is below it and largest when the current largest   *)
(* is above it, so the loop ends with the greatest smallest key and the    *)
(* least largest key of the input, whatever its order.                     *)
(***************************************************************************)
GetRange(files) ==
  [smallest |-> CHOOSE s \in {f.smallest : f \in files} : \A g \in files : IKeyLeq(g.smallest, s),
   largest  |-> CHOOSE l \in {f.largest : f \in files} : \A g \in files : IKeyLeq(l, g.largest)]

(***************************************************************************)
(* Version::GetOverlappingFiles: the files of a level whose user-key range *)
(* meets [smallest, largest]; on level 0 a file that sticks out widens the *)
(* range and restarts the scan.                                            *)
(***************************************************************************)
RECURSIVE OverlapScan(_, _, _, _, _, _)
OverlapScan(fs, i, us, ul, acc, level) ==
  IF i > Len(fs) THEN acc
  ELSE LET f == fs[i]
       IN  IF f.smallest.key > ul \/ f.largest.key < us
           THEN OverlapScan(fs, i + 1, us, ul, acc, level)
           ELSE IF level = 0 /\ f.smallest.key < us
           THEN OverlapScan(fs, 1, f.smallest.key, ul, {}, level)
           ELSE IF level = 0 /\ f.largest.key > ul
           THEN OverlapScan(fs, 1, us, f.largest.key, {}, level)
           ELSE OverlapScan(fs, i + 1, us, ul, acc \cup {f}, level)

GetOverlappingFiles(v, level, smallest, largest) ==
  OverlapScan(LevelSeq(v, level), 1, smallest.key, largest.key, {}, level)

(***************************************************************************)
(* AddBoundaryInputs + FindSmallestBoundary: starting from the largest key *)
(* of the whole level, repeatedly add the file whose largest key is the    *)
(* least one above it with the same user key.                              *)
(***************************************************************************)
RECURSIVE AddBoundaryFrom(_, _, _)
AddBoundaryFrom(levelFiles, largestKey, inputs) ==
  LET B == {f \in levelFiles : IKeyLess(largestKey, f.largest) /\ f.largest.key = largestKey.key}
  IN  IF B = {} THEN inputs
      ELSE LET m == CHOOSE f \in B : \A g \in B : IKeyLeq(f.largest, g.largest)
           IN  AddBoundaryFrom(levelFiles, m.largest, inputs \cup {m})

AddBoundaryInputs(levelFiles, inputs) ==
  IF levelFiles = {} THEN inputs
  ELSE AddBoundaryFrom(levelFiles,
         (CHOOSE f \in levelFiles : \A g \in levelFiles : IKeyLeq(g.largest, f.largest)).largest,
         inputs)

(***************************************************************************)
(* VersionSet::PickCompaction (size compaction), stage by stage; each     *)
(* stage hands its result to the next as a parameter.                     *)
(***************************************************************************)
\* The files of a level that overlap a range [smallest, largest].
OverlapOf(v, level, r) == GetOverlappingFiles(v, level, r.smallest, r.largest)

\* The first file of the level whose largest key is past the compaction
\* pointer, else the first file of the level.
PickStart(fs, ptr) ==
  LET past == {i \in DOMAIN fs : ptr = NoKey \/ IKeyLess(ptr, fs[i].largest)}
  IN  IF past = {} THEN fs[1] ELSE fs[Min(past)]

\* inputs[0]: on level 0 every file overlapping the start file, then
\* AddBoundaryInputs.
PickInput0(v, level, start) ==
  AddBoundaryInputs(v[level],
                    IF level = 0 THEN OverlapOf(v, 0, GetRange({start})) ELSE {start})

\* inputs[1] (and expand1): the files of level+1 overlapping the range of
\* the given level files, then AddBoundaryInputs.
Inputs1(v, level, in0) ==
  AddBoundaryInputs(v[level + 1], OverlapOf(v, level + 1, GetRange(in0)))

\* expand0: the files of the level overlapping the range of both inputs.
Expand0(v, level, in0, in1) ==
  AddBoundaryInputs(v[level], OverlapOf(v, level, GetRange(in0 \cup in1)))

\* The Compaction: the compaction pointer is the largest key of the range
\* of inputs[0]; the grandparents overlap the range of both inputs.
CompactionOf(v, level, in0, in1) ==
  [level |-> level, in0 |-> in0, in1 |-> in1, version |-> v,
   pointer |-> GetRange(in0).largest,
   grandparents |-> IF level + 2 < NumLevels
                    THEN OverlapOf(v, level + 2, GetRange(in0 \cup in1))
                    ELSE {}]

\* The expansion is taken when inputs[1] is not empty, expand0 is larger
\* than inputs[0] and below ExpandCompactionLimit (25 * max_file_size),
\* and expand1 has as many files as inputs[1].
PickExpanded(v, level, in0, in1, exp0, exp1) ==
  IF /\ in1 # {}
     /\ TotalFileSize(exp0) > TotalFileSize(in0)
     /\ TotalFileSize(exp0) < 25 * MaxFileEntries
     /\ Cardinality(exp1) = Cardinality(in1)
  THEN CompactionOf(v, level, exp0, exp1)
  ELSE CompactionOf(v, level, in0, in1)

PickExpand(v, level, in0, in1, exp0) ==
  PickExpanded(v, level, in0, in1, exp0, Inputs1(v, level, exp0))

PickWithInputs(v, level, in0, in1) ==
  PickExpand(v, level, in0, in1, Expand0(v, level, in0, in1))

PickFrom(v, level, in0) == PickWithInputs(v, level, in0, Inputs1(v, level, in0))

PickCompaction(v, pointer) ==
  PickFrom(v, CompactionLevel(v),
           PickInput0(v, CompactionLevel(v),
                      PickStart(LevelSeq(v, CompactionLevel(v)), pointer[CompactionLevel(v)])))

\* Compaction::SingalMove.
SingalMove(c) ==
  Cardinality(c.in0) = 1 /\ c.in1 = {} /\ TotalFileSize(c.grandparents) < 10 * MaxFileEntries

\* Compaction::IsBaseLevelForKey: no file of level+2 and below holds the key.
IsBaseLevelForKey(c, k) ==
  \A l \in (c.level + 2)..(NumLevels - 1) :
    \A f \in c.version[l] : ~(f.smallest.key <= k /\ k <= f.largest.key)

(***************************************************************************)
(* One output file of the DoCompactionLevel loop: walk the merged input   *)
(* from rem, dropping an entry when its user key differs from the last    *)
(* one seen (same_key is set on a new key) or when it is a deletion at the *)
(* base level; stop when the builder reaches MaxFileEntries.              *)
(***************************************************************************)
RECURSIVE TakeOutput(_, _, _, _)
TakeOutput(c, rem, last, kept) ==
  IF rem = <<>> \/ Len(kept) >= MaxFileEntries
  THEN [rem |-> rem, last |-> last, kept |-> kept]
  ELSE LET e == Head(rem)
           sameKey == last = NoKey \/ last.key # e.key
           drop == sameKey \/ (e.type = "del" /\ IsBaseLevelForKey(c, e.key))
       IN  TakeOutput(c, Tail(rem), e, IF drop THEN kept ELSE Append(kept, e))

\* VersionSet::MakeMergedIterator: all input entries in internal-key order.
MergedInput(c) == Sorted(UNION {f.entries : f \in c.in0 \cup c.in1})
=============================================================================
