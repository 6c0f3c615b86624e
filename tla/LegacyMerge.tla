----------------------------- MODULE LegacyMerge -----------------------------
(***************************************************************************)
(* The k-way merge of KVStore::MajorCompaction (src/src/kvstore.cc lines   *)
(* 159-176 and 255-311), as the code runs it, checked against the merge    *)
(* LegacyKVStore uses: per key, the value of the table with the largest   *)
(* index, delete marks dropped at the last level.                          *)
(*                                                                         *)
(* KVToCompact is a sequence of tables, each a std::map: a sequence of     *)
(* <<key, value>> pairs in key order.  KVToCompactIter[i] is a position   *)
(* in table i (Len + 1 is end()); min_key maps each key it holds to the   *)
(* table whose iterator stands on that key.  The output is newTable's     *)
(* pairs in the order the loop inserts them.                               *)
(***************************************************************************)
EXTENDS Naturals, Sequences, SequencesExt, FiniteSets

CONSTANTS
  MergeKeys,   \* keys
  MergeVals,   \* values, one of them the delete mark
  DelMark,     \* options::kDelSign
  MaxTables    \* bound: tables merged at once

ASSUME DelMark \in MergeVals

Key(kv, i, p) == kv[i][p][1]
Val(kv, i, p) == kv[i][p][2]

Put(mk, k, i) == (k :> i) @@ mk
Erase(mk, k) == [j \in DOMAIN mk \ {k} |-> mk[j]]

\* Mutant: a newer table does not take a key from an older one.
RECURSIVE UpdateNoSteal(_, _, _)
UpdateNoSteal(kv, st, index) ==
  IF st.it[index] > Len(kv[index]) THEN st
  ELSE IF Key(kv, index, st.it[index]) \notin DOMAIN st.mk
  THEN [st EXCEPT !.mk = Put(@, Key(kv, index, st.it[index]), index)]
  ELSE UpdateNoSteal(kv, [st EXCEPT !.it[index] = @ + 1], index)

\* Update (lines 159-176): move table index's iterator to its next key
\* that no table holds in min_key; a key held by an older (smaller)
\* table is taken over and that table's iterator moves on in turn.
RECURSIVE Update(_, _, _)
Update(kv, st, index) ==
  IF st.it[index] > Len(kv[index]) THEN st
  ELSE IF Key(kv, index, st.it[index]) \notin DOMAIN st.mk
  THEN [st EXCEPT !.mk = Put(@, Key(kv, index, st.it[index]), index)]
  ELSE IF index > st.mk[Key(kv, index, st.it[index])]
  THEN Update(kv,
              [st EXCEPT !.mk = Put(@, Key(kv, index, st.it[index]), index)],
              st.mk[Key(kv, index, st.it[index])])
  ELSE Update(kv, [st EXCEPT !.it[index] = @ + 1], index)

\* The first position of table i whose key min_key does not hold.
FirstFree(kv, mk, i) ==
  IF \E p \in 1..Len(kv[i]) : Key(kv, i, p) \notin DOMAIN mk
  THEN Min({p \in 1..Len(kv[i]) : Key(kv, i, p) \notin DOMAIN mk})
  ELSE Len(kv[i]) + 1

\* Lines 274-287: tables from the last to the first put their first free
\* key into min_key; a table with none keeps an iterator that is never
\* used (it never enters min_key).
RECURSIVE InitIters(_, _, _)
InitIters(kv, st, i) ==
  IF i = 0 THEN st
  ELSE InitIters(kv,
         IF FirstFree(kv, st.mk, i) <= Len(kv[i])
         THEN [st EXCEPT !.it[i] = FirstFree(kv, st.mk, i),
                         !.mk = Put(@, Key(kv, i, FirstFree(kv, st.mk, i)), i)]
         ELSE st,
         i - 1)

\* The loop of lines 292-311: take the smallest key of min_key, insert its
\* value (unless it is a delete mark at the last level), advance that
\* table's iterator and Update it.
RECURSIVE Drain(_, _, _)
Drain(kv, st, last) ==
  IF DOMAIN st.mk = {} THEN st.out
  ELSE Drain(kv,
         Update(kv,
           [it |-> [st.it EXCEPT ![st.mk[Min(DOMAIN st.mk)]] = @ + 1],
            mk |-> Erase(st.mk, Min(DOMAIN st.mk)),
            out |-> IF last /\ Val(kv, st.mk[Min(DOMAIN st.mk)],
                                  st.it[st.mk[Min(DOMAIN st.mk)]]) = DelMark
                    THEN st.out
                    ELSE Append(st.out,
                           <<Min(DOMAIN st.mk),
                             Val(kv, st.mk[Min(DOMAIN st.mk)],
                                 st.it[st.mk[Min(DOMAIN st.mk)]])>>)],
           st.mk[Min(DOMAIN st.mk)]),
         last)

CodeMerge(kv, last) ==
  Drain(kv,
        InitIters(kv, [it |-> [i \in 1..Len(kv) |-> Len(kv[i]) + 1],
                       mk |-> <<>>, out |-> <<>>], Len(kv)),
        last)

---------------------------------------------------------------------------
(* The reference: LegacyKVStore's NewestOf and Kept, over maps.           *)

AsMap(t) == [k \in {t[p][1] : p \in 1..Len(t)} |->
               t[CHOOSE p \in 1..Len(t) : t[p][1] = k][2]]

Newest(kv) ==
  [k \in UNION {DOMAIN AsMap(kv[i]) : i \in 1..Len(kv)} |->
     AsMap(kv[Max({i \in 1..Len(kv) : k \in DOMAIN AsMap(kv[i])})])[k]]

Reference(kv, last) ==
  LET m == Newest(kv)
      ks == SetToSortSeq({k \in DOMAIN m : ~(last /\ m[k] = DelMark)}, <)
  IN  [p \in 1..Len(ks) |-> <<ks[p], m[ks[p]]>>]

\* A table as std::map iterates it: its pairs in key order.
AsTable(f) ==
  LET ks == SetToSortSeq(DOMAIN f, <)
  IN  [p \in 1..Len(ks) |-> <<ks[p], f[ks[p]]>>]

Tables ==
  {AsTable(f) : f \in UNION {[D -> MergeVals] : D \in SUBSET MergeKeys \ {{}}}}

=============================================================================
