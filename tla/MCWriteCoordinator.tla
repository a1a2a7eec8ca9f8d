------------------------- MODULE MCWriteCoordinator -------------------------
(* Instances of WriteCoordinator for TLC.                                  *)
EXTENDS WriteCoordinator, TLC

CONSTANTS r1, r2, t1, t2

Op(type, ids, tgt) ==
    [op_type |-> type, target_ids |-> ids, target |-> tgt, payload |-> TRUE]

(* Upserts of each record and of both, and a removal: every way in which   *)
(* two operations of the vector surfaces may or may not conflict.          *)
VectorOps ==
    {Op("upsert_index", {r1}, "zvec"), Op("upsert_index", {r2}, "zvec"),
     Op("upsert_index", {r1, r2}, "zvec"), Op("remove_index", {r1}, "zvec")}

(* Operations of all kinds: a target without a handler, with a record and  *)
(* with none (rebuild_index of an empty list), a type the vector handler   *)
(* rejects, an upsert without records.                                     *)
AllKindsOfOps ==
    {Op("upsert_index", {r1}, "zvec"), Op("upsert_index", {r1, r2}, "zvec"),
     Op("remove_index", {r1}, "zvec"), Op("upsert_index", {r1}, "faiss"),
     Op("upsert_index", {}, "faiss"), Op("tombstone", {r2}, "zvec"),
     [Op("upsert_index", {r1}, "zvec") EXCEPT !.payload = FALSE]}

(* The two threads are interchangeable where neither is a worker.          *)
ThreadSymmetry == Permutations({t1, t2})
=============================================================================
