------------------------------ MODULE KVStore ------------------------------
(***************************************************************************)
(* What the DB interface (include/db.h: Put, Delete, Write, Get) promises  *)
(* its callers, with no LSM tree in sight: a map from keys to values.      *)
(*                                                                         *)
(* A Write(batch) is submitted, later takes effect atomically together     *)
(* with other pending batches in some order (or fails and has no effect), *)
(* and then returns its status.  A Get returns the value the map holds at  *)
(* one instant between its call and its return.                           *)
(***************************************************************************)
EXTENDS Naturals, Sequences, FiniteSets, SequencesExt

CONSTANTS Keys, Vals, Writers, Readers, Batches, NotFound

VARIABLES
  kv,      \* the map: Keys -> Vals \cup {NotFound}
  wst,     \* per writer: [phase, batch, status]
  rst      \* per reader: the key it last read and the answer

vars == <<kv, wst, rst>>

Op == [op : {"put"}, key : Keys, val : Vals] \cup [op : {"del"}, key : Keys]

ASSUME Batches \subseteq Seq(Op)

NoBatch == <<>>
NoKey == Min(Keys) - 1   \* no key read yet

Phases == {"idle", "pending", "applied"}

TypeOK ==
  /\ kv \in [Keys -> Vals \cup {NotFound}]
  /\ wst \in [Writers -> [phase : Phases, batch : Batches \cup {NoBatch},
                          status : {"ok", "err"}]]
  /\ rst \in [Readers -> [key : Keys \cup {NoKey}, res : Vals \cup {NotFound}]]

\* The effect of one operation and of a sequence of batches on the map.
ApplyOp(m, o) == [m EXCEPT ![o.key] = IF o.op = "put" THEN o.val ELSE NotFound]

RECURSIVE ApplyAll(_, _)
ApplyAll(m, ops) == IF ops = <<>> THEN m ELSE ApplyAll(ApplyOp(m, Head(ops)), Tail(ops))

Init ==
  /\ kv = [k \in Keys |-> NotFound]
  /\ wst = [t \in Writers |-> [phase |-> "idle", batch |-> NoBatch, status |-> "ok"]]
  /\ rst = [r \in Readers |-> [key |-> NoKey, res |-> NotFound]]

Submit(t, b) ==
  /\ wst[t].phase = "idle"
  /\ wst' = [wst EXCEPT ![t] = [phase |-> "pending", batch |-> b, status |-> "ok"]]
  /\ UNCHANGED <<kv, rst>>

\* A group of pending writers, in some order, commits (status "ok") or fails
\* ("err", no effect).
Commit(g, st) ==
  /\ \A i \in DOMAIN g : wst[g[i]].phase = "pending"
  /\ kv' = IF st = "ok"
           THEN ApplyAll(kv, FoldLeft(LAMBDA acc, t : acc \o wst[t].batch, <<>>, g))
           ELSE kv
  /\ wst' = [t \in Writers |->
               IF t \in Range(g) THEN [wst[t] EXCEPT !.phase = "applied", !.status = st]
               ELSE wst[t]]
  /\ UNCHANGED rst

Return(t) ==
  /\ wst[t].phase = "applied"
  /\ wst' = [wst EXCEPT ![t].phase = "idle", ![t].batch = NoBatch]
  /\ UNCHANGED <<kv, rst>>

Get(r, k) ==
  /\ rst' = [rst EXCEPT ![r] = [key |-> k, res |-> kv[k]]]
  /\ UNCHANGED <<kv, wst>>

\* The orders in which a group of writers can commit.
Groups == UNION {{g \in [1..n -> Writers] : IsInjective(g)} : n \in 1..Cardinality(Writers)}

Next ==
  \/ \E t \in Writers, b \in Batches : Submit(t, b)
  \/ \E g \in Groups, st \in {"ok", "err"} : Commit(g, st)
  \/ \E t \in Writers : Return(t)
  \/ \E r \in Readers, k \in Keys : Get(r, k)

Spec == Init /\ [][Next]_vars
=============================================================================
