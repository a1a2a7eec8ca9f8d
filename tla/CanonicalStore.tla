--------------------------- MODULE CanonicalStore ---------------------------
(***************************************************************************)
(* The SQLite canonical store (strata/canonical/store.py): records, their  *)
(* tombstones and the dependency edges between them.  Each operator below  *)
(* is the effect of one method, which is one committed transaction; the    *)
(* modules that extend this one say which thread calls it and when.        *)
(*                                                                         *)
(* Of a record only its status and its content are kept, the content as a  *)
(* version number that stands for text and content hash together.  The     *)
(* version rows, timestamps and the audit rows of index_acknowledgements   *)
(* are left out: nothing modelled reads them.                              *)
(***************************************************************************)
EXTENDS Integers, FiniteSets

CONSTANTS
    Ids,            \* record ids, integers as in the code
    Jobs,           \* deletion jobs
    MaxContent      \* bound: versions of a record's content

Statuses == {"active", "reinforced", "superseded", "contradicted", "archived", "deleted"}

Relations == {"supersedes", "contradicts", "derived_from"}

Modes == {"logical", "hard"}

DeletionStates ==
    {"canonical_tombstoned", "index_deleting", "partial_failure", "verified",
     "manual_attention"}

Record == [status : Statuses, content : 0..MaxContent]

Absent == [status |-> "absent", content |-> 0]

TombstoneRow == [mode : Modes, state : DeletionStates, job : Jobs]

CONSTANT NoJob

NoTombstone == [mode |-> "none", state |-> "none", job |-> NoJob]

VARIABLES
    records,        \* table records: Absent where there is no row
    tombstones,     \* table tombstones: NoTombstone where there is no row
    dependencies    \* table dependencies: <<parent, child, rel>>

storeVars == <<records, tombstones, dependencies>>

StoreTypeOK ==
    /\ records \in [Ids -> Record \cup {Absent}]
    /\ tombstones \in [Ids -> TombstoneRow \cup {NoTombstone}]
    /\ dependencies \subseteq Ids \X Ids \X Relations

Exists(r) == records[r] # Absent

IsTombstoned(r) == tombstones[r] # NoTombstone

(* ACTIVE_STATUSES: what lexical search and the resolver take as current.  *)
Active(r) == records[r].status \in {"active", "reinforced"}

(* write: the head row is inserted, or every column of it overwritten -    *)
(* the status too, and whatever tombstone the id may have.                 *)
Write(r, s, c) ==
    /\ records' = [records EXCEPT ![r] = [status |-> s, content |-> c]]
    /\ UNCHANGED <<tombstones, dependencies>>

(* set_status: an UPDATE, without effect on an id that has no row.         *)
SetStatus(r, s) ==
    /\ records' = IF Exists(r) THEN [records EXCEPT ![r].status = s] ELSE records
    /\ UNCHANGED <<tombstones, dependencies>>

(* add_dependency: refused by the foreign keys unless both rows exist.     *)
AddDependency(p, c, rel) ==
    /\ Exists(p) /\ Exists(c)
    /\ dependencies' = dependencies \cup {<<p, c, rel>>}
    /\ UNCHANGED <<records, tombstones>>

(* Mutated form of Tombstone: only the status of the record is set. *)
TombstoneStatusOnly(r, m, j) ==
    /\ records' = IF Exists(r) THEN [records EXCEPT ![r].status = "deleted"] ELSE records
    /\ UNCHANGED <<tombstones, dependencies>>

(* tombstone: in one transaction the tombstone row and the status.  On     *)
(* conflict the row takes the new mode and state but keeps its job_id.     *)
Tombstone(r, m, j) ==
    /\ tombstones' =
         [tombstones EXCEPT ![r] =
            [mode |-> m, state |-> "canonical_tombstoned",
             job |-> IF IsTombstoned(r) THEN @.job ELSE j]]
    /\ records' = IF Exists(r) THEN [records EXCEPT ![r].status = "deleted"] ELSE records
    /\ UNCHANGED dependencies

SetTombstoneState(r, s) ==
    /\ tombstones' = IF IsTombstoned(r) THEN [tombstones EXCEPT ![r].state = s]
                     ELSE tombstones
    /\ UNCHANGED <<records, dependencies>>

(* hard_delete: the row and, by cascade, its edges; never the tombstone.   *)
HardDelete(r) ==
    /\ records' = [records EXCEPT ![r] = Absent]
    /\ dependencies' = {e \in dependencies : e[1] # r /\ e[2] # r}
    /\ UNCHANGED tombstones

Linked(r, s) == \E rel \in Relations : {<<r, s, rel>>, <<s, r, rel>>} \cap dependencies # {}

(* Mutated form of DependencyGraph: edges are followed downwards only.     *)
DependencyGraphDown(r) ==
    {x \in Ids \ {r} :
        \A S \in SUBSET Ids :
            r \in S /\ (\A e \in dependencies : e[1] \in S => e[2] \in S) => x \in S}

(* dependency_graph: everything reachable over edges of any relation in    *)
(* either direction, the start excluded.  The loop over a frontier computes*)
(* the least set that contains the start and is closed under edges.        *)
DependencyGraph(r) ==
    {x \in Ids \ {r} :
        \A S \in SUBSET Ids :
            r \in S /\ (\A s \in S, n \in Ids : Linked(s, n) => n \in S) => x \in S}

SupersederIds(r) == {p \in Ids : <<p, r, "supersedes">> \in dependencies}

(* Mutated form of ContradictorIds: only the records on the parent side.   *)
ContradictorParents(r) == {x \in Ids : <<x, r, "contradicts">> \in dependencies}

ContradictorIds(r) ==
    {x \in Ids : {<<x, r, "contradicts">>, <<r, x, "contradicts">>} \cap dependencies # {}}

(* What the resolver and the contradiction audit take as in force.         *)
InForce(r) == Exists(r) /\ Active(r) /\ ~IsTombstoned(r)

(* Mutated form of SupersededByActive: any superseder will do.             *)
SupersededByAny(r) == SupersederIds(r) # {}

SupersededByActive(r) == \E s \in SupersederIds(r) : InForce(s)

=============================================================================
