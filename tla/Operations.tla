----------------------------- MODULE Operations -----------------------------
(***************************************************************************)
(* The operations of the write coordinator (strata/coordinator/ops.py),    *)
(* what the vector handler does with them, and which of them must not      *)
(* overtake one another.                                                   *)
(***************************************************************************)
EXTENDS Naturals

CONSTANTS
    RecordIds,      \* canonical record ids
    Targets,        \* names an operation may give as its target
    Registered      \* the targets register_handler was called for

OpTypes ==
    {"upsert_index", "remove_index", "tombstone", "reindex_promote", "hard_purge"}

(* payload says whether the operation carries the records to upsert:       *)
(* rebuild_index without a payload_fn enqueues one that does not.          *)
Operation ==
    [op_type : OpTypes, target_ids : SUBSET RecordIds, target : Targets,
     payload : BOOLEAN]

NoOp == [op_type |-> "none", target_ids |-> {}, target |-> "none", payload |-> FALSE]

Destructive(o) == o.op_type # "upsert_index"

(* Every operation but an upsert is a barrier for the whole log; upserts   *)
(* are ordered when they share a record, whatever their targets are.       *)
Conflicts(o, p) ==
    \/ Destructive(o)
    \/ Destructive(p)
    \/ o.target_ids \cap p.target_ids # {}

(* Whether a handler takes the operation: a target without one raises, and *)
(* so does the vector handler for an operation of another type.            *)
Accepted(o) ==
    o.target \in Registered /\ o.op_type \in {"upsert_index", "remove_index", "hard_purge"}

(* The ids the vector handler may apply and acknowledge: an upsert without *)
(* records acknowledges nothing.                                           *)
Applicable(o) ==
    IF Accepted(o) /\ (o.op_type = "upsert_index" => o.payload) THEN o.target_ids ELSE {}

(* Mutated form of EffectOf: the content of the next operation. *)
EffectOffByOne(o, i) == IF Destructive(o) THEN 0 ELSE i + 1

(* What row i of the log leaves in the index for a record it is applied to:*)
(* an upsert its own sequence number, a removal 0.                         *)
EffectOf(o, i) == IF Destructive(o) THEN 0 ELSE i

(* The index after row i, which is o, was applied to some records.         *)
Apply(index, o, i, applied) ==
    [index EXCEPT ![o.target] =
        [r \in RecordIds |-> IF r \in applied THEN EffectOf(o, i) ELSE @[r]]]

EmptyIndex == [t \in Targets |-> [r \in RecordIds |-> 0]]

=============================================================================
