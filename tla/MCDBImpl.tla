------------------------------ MODULE MCDBImpl ------------------------------
(***************************************************************************)
(* Model-checking instances of DBImpl: the constants of the .cfg files and *)
(* the properties they check.                                              *)
(***************************************************************************)
EXTENDS DBImpl

CONSTANTS w1, w2, r1, v1, v2

\* The WriteBatches of the runs: single Put and Delete calls.
PutBatch(k, v) == <<[op |-> "put", key |-> k, val |-> v]>>
DelBatch(k) == <<[op |-> "del", key |-> k]>>

MCBatches1 == {PutBatch(1, v1), PutBatch(2, v1)}
MCBatches2 == {PutBatch(1, v1), DelBatch(1)}
MCBatches3 == {PutBatch(1, v1), PutBatch(2, v1), PutBatch(1, v2)}

=============================================================================
