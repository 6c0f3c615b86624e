------------------------------ MODULE SkipList ------------------------------
(***************************************************************************)
(* The memtable's skip list (src/lsmkv/db/memtable/skiplist.h): one writer *)
(* (the write group's leader, MemTable::Add) inserts while readers search *)
(* without any lock (MemTable::Get's Seek, a flush's iterator, Prev and   *)
(* SeekToLast).  A reader reads one next_ pointer per step, so it sees    *)
(* the list between any two steps of an Insert.                           *)
(*                                                                         *)
(* A node is its key (internal keys are unique: every entry has its own   *)
(* sequence number); HeadNode is head_ and Nil is nullptr.  next[n][i] is      *)
(* next_[i] of node n.  Node::Next is an acquire load and SetNext a       *)
(* release store, so a reader that reaches a node sees the next_ the      *)
(* writer set before publishing it; the relaxed max_height_ may be seen    *)
(* old or new, and both are steps of the model (the writer stores it      *)
(* before it links the new levels, whose head_ pointers are nullptr).     *)
(***************************************************************************)
EXTENDS Integers, Sequences, FiniteSets

CONSTANTS
  Keys,       \* the keys inserted, positive integers
  MaxHeight,  \* KMaxHeight (12 in the code)
  Readers     \* reader threads

HeadNode == 0
Nil  == -1
Levels == 0..MaxHeight - 1
Nodes == {HeadNode} \cup Keys

VARIABLES next, maxHeight, writer, written, reader

vars == <<next, maxHeight, writer, written, reader>>

\* FindGreaterOrEqual, lines 171-186, from node ret at level h: the first
\* node >= key, and prev[h] for every level it passes.  The writer runs it
\* on a list no one else writes, so it is one step.
RECURSIVE FindGE(_, _, _, _)
FindGE(key, ret, h, prev) ==
  IF next[ret][h] # Nil /\ next[ret][h] < key
  THEN FindGE(key, next[ret][h], h, prev)
  ELSE IF h = 0 THEN [node |-> next[ret][h], prev |-> [prev EXCEPT ![h] = ret]]
  ELSE FindGE(key, ret, h - 1, [prev EXCEPT ![h] = ret])

\* Lines 228-233: levels above the list's height start at head_.
RaisePrev(prev, h) == [i \in Levels |-> IF i >= maxHeight /\ i < h THEN HeadNode ELSE prev[i]]

Init ==
  /\ next = [n \in Nodes |-> [i \in Levels |-> Nil]]   \* lines 142-150
  /\ maxHeight = 1
  /\ writer = [pc |-> "idle", key |-> Nil, height |-> 1,
               prev |-> [i \in Levels |-> HeadNode], level |-> 0]
  /\ written = {}
  /\ reader = [r \in Readers |-> [op |-> "idle", key |-> Nil, node |-> HeadNode,
                                  h |-> 0, res |-> Nil, start |-> {}]]

\* Insert, lines 221-233: search, draw a height (RandomHeight, lines
\* 160-169: any height up to KMaxHeight), raise max_height_.
InsertBegin(k, h) ==
  /\ writer.pc = "idle"
  /\ k \notin written
  /\ writer' = [pc |-> "link", key |-> k, height |-> h, level |-> 0,
                prev |-> RaisePrev(FindGE(k, HeadNode, maxHeight - 1,
                                          [i \in Levels |-> HeadNode]).prev, h)]
  /\ maxHeight' = IF h > maxHeight THEN h ELSE maxHeight
  /\ written' = written \cup {k}
  /\ UNCHANGED <<next, reader>>

\* Mutant: the new node's own next_ is never set.
LinkNoSuccessor(w) ==
  [next EXCEPT ![w.prev[w.level]][w.level] = w.key]

\* Lines 238-241, level w.level: the node takes prev's successor (relaxed,
\* while no reader can reach it at this level), then prev publishes it.
Link(w) ==
  [next EXCEPT ![w.key][w.level] = next[w.prev[w.level]][w.level],
               ![w.prev[w.level]][w.level] = w.key]

InsertLink ==
  /\ writer.pc = "link"
  /\ next' = Link(writer)
  /\ writer' = IF writer.level + 1 = writer.height
               THEN [writer EXCEPT !.pc = "idle"]
               ELSE [writer EXCEPT !.level = @ + 1]
  /\ UNCHANGED <<maxHeight, written, reader>>

---------------------------------------------------------------------------
(* Readers.  op is "ge" (FindGreaterOrEqual: Seek, Contain, MemTable::Get),*)
(* "less" (FindLess: Prev) or "last" (FindLast: SeekToLast); start is the *)
(* set of keys in the list when the search began, kept for the properties.*)

\* The keys reachable from head_ at level 0: what a search could find.
RECURSIVE Walk(_, _)
Walk(n, fuel) == IF n = Nil \/ fuel = 0 THEN {} ELSE {n} \cup Walk(next[n][0], fuel - 1)
InList == Walk(next[HeadNode][0], Cardinality(Keys))

\* Lines 174-175, 191-192, 207-208: start at head_, at max_height_ - 1.
SearchBegin(r, op, k) ==
  /\ reader[r].op = "idle"
  /\ reader' = [reader EXCEPT ![r] = [op |-> op, key |-> k, node |-> HeadNode,
                  h |-> maxHeight - 1, res |-> Nil, start |-> InList]]
  /\ UNCHANGED <<next, maxHeight, writer, written>>

\* Mutant: the search also passes a node equal to the key.
PassesOrEqual(op, k, nx) == nx # Nil /\ (op = "last" \/ nx <= k)

\* Whether the search moves right past node nx (lines 177-179, 194-196,
\* 210-212).
Passes(op, k, nx) == nx # Nil /\ (op = "last" \/ nx < k)

\* One turn of the search loop, having read nx: move right, go down, or
\* return (nx for "ge", the current node for "less" and "last").
Advance(s, nx) ==
  IF Passes(s.op, s.key, nx) THEN [s EXCEPT !.node = nx]
  ELSE IF s.h > 0 THEN [s EXCEPT !.h = @ - 1]
  ELSE [s EXCEPT !.op = "done_" \o s.op,
                 !.res = IF s.op = "ge" THEN nx ELSE s.node]

SearchStep(r) ==
  /\ reader[r].op \in {"ge", "less", "last"}
  /\ reader' = [reader EXCEPT ![r] = Advance(reader[r], next[reader[r].node][reader[r].h])]
  /\ UNCHANGED <<next, maxHeight, writer, written>>

\* The caller takes the result.
SearchEnd(r) ==
  /\ reader[r].op \in {"done_ge", "done_less", "done_last"}
  /\ reader' = [reader EXCEPT ![r].op = "idle"]
  /\ UNCHANGED <<next, maxHeight, writer, written>>

Next ==
  \/ \E k \in Keys, h \in 1..MaxHeight : InsertBegin(k, h)
  \/ InsertLink
  \/ \E r \in Readers :
       \/ \E k \in Keys : SearchBegin(r, "ge", k) \/ SearchBegin(r, "less", k)
       \/ SearchBegin(r, "last", Nil)
       \/ SearchStep(r) \/ SearchEnd(r)

Spec == Init /\ [][Next]_vars


---------------------------------------------------------------------------
(* Properties.                                                             *)

\* The nodes of level i from head_, in list order (fuel stops a cycle).
RECURSIVE LevelSeq(_, _, _)
LevelSeq(n, i, fuel) ==
  IF n = Nil \/ fuel = 0 THEN <<>> ELSE <<n>> \o LevelSeq(next[n][i], i, fuel - 1)
Level(i) == LevelSeq(next[HeadNode][i], i, Cardinality(Keys) + 1)
SeqSet(seq) == {seq[j] : j \in DOMAIN seq}

\* Between any two steps of Insert, every level of the list is sorted and
\* every node of a level is also on the level below, so a search that
\* drops a level never skips a key.
ListsSortedNested ==
  \A i \in Levels :
    /\ \A j \in 1..Len(Level(i)) - 1 : Level(i)[j] < Level(i)[j + 1]
    /\ i > 0 => SeqSet(Level(i)) \subseteq SeqSet(Level(i - 1))

\* A search that ran alongside inserts returns what it would have returned
\* at some moment during its run: its result is in the list and fits the
\* key, and no key that was already in the list when it began lies
\* between the key and the result.  Seek finds the first key >= key,
\* Prev's FindLess the last key < key, SeekToLast the last key.
SearchLinearizable ==
  \A r \in Readers :
    LET s == reader[r] IN
    /\ s.op = "done_ge" =>
         /\ s.res = Nil \/ (s.res >= s.key /\ s.res \in InList)
         /\ \A n \in s.start : n >= s.key => s.res # Nil /\ s.res <= n
    /\ s.op = "done_less" =>
         /\ s.res = HeadNode \/ (s.res < s.key /\ s.res \in InList)
         /\ \A n \in s.start : n < s.key => s.res # HeadNode /\ s.res >= n
    /\ s.op = "done_last" =>
         /\ s.res = HeadNode \/ s.res \in InList
         /\ \A n \in s.start : s.res # HeadNode /\ s.res >= n

=============================================================================
