-------------------------- MODULE DeletionService ---------------------------
(***************************************************************************)
(* Deletion (strata/deletion): tombstone canonical-first, purge the        *)
(* managed surfaces, verify, retry a bounded number of times, escalate.    *)
(*                                                                         *)
(* A job is one thread's call of request_deletion or retry.  Every commit  *)
(* and every call of a surface is a step of its own, so jobs interleave    *)
(* between any two of them and an exception or a kill may end a job there. *)
(*                                                                         *)
(* The surfaces are those MemoryEngine registers: the FTS5 postings, one   *)
(* vector index behind the write coordinator, and the derived artifacts.   *)
(* The coordinator appears as what it promises (module SerialIndex): a log *)
(* of operations applied one at a time, conflicting ones in log order.     *)
(***************************************************************************)
EXTENDS CanonicalStore, SequencesExt

CONSTANTS
    Existing,           \* records written before the initial state
    InitialEdges,       \* dependency edges in the initial state
    QueuedUpserts,      \* records with an upsert that backs off in the initial state
    NeverIndexed,       \* those of them the vector index has no entry for yet
    Mirrored,           \* records a derived artifact mirrors in the initial state
    RequestModes,       \* modes callers ask for
    MaxPurgeRetries,    \* max_retries of the service
    MaxOpAttempts,      \* max_attempts of the coordinator
    MaxVectorFailures,  \* bound: failed attempts of the vector handler
    MaxInterrupts,      \* bound: jobs ended by an exception or a kill
    MaxJobRetries       \* bound: calls of retry

ASSUME DeletionAssumption ==
    /\ Ids \subseteq Int /\ IsFiniteSet(Ids)
    /\ NoJob \notin Jobs
    /\ InitialEdges \subseteq Existing \X Existing \X Relations
    /\ RequestModes \subseteq Modes
    /\ NeverIndexed \subseteq QueuedUpserts /\ QueuedUpserts \subseteq Existing
    /\ Existing \subseteq Ids /\ Mirrored \subseteq Existing
    /\ MaxContent \in Nat /\ MaxPurgeRetries \in Nat /\ MaxOpAttempts \in Nat \ {0}
    /\ MaxVectorFailures \in Nat /\ MaxInterrupts \in Nat /\ MaxJobRetries \in Nat

VARIABLES
    lexical,        \* FTS5 table: per id the content version indexed
    vector,         \* vector index: per id the content version embedded
    artifacts,      \* ids the derived artifacts mirror
    oplog,          \* the coordinator's open operations, in log order
    job,            \* per job: where its thread is
    vectorFailures, interrupts, jobRetries      \* bound counters

surfaceVars == <<lexical, vector, artifacts>>
countVars == <<vectorFailures, interrupts, jobRetries>>
deletionVars == <<storeVars, surfaceVars, oplog, job, countVars>>

NoEntry == -1

VectorOp ==
    [op_type : {"upsert_index", "remove_index"}, ids : SUBSET Ids,
     content : 0..MaxContent, attempts : Nat, backoff : BOOLEAN]

JobPcs ==
    {"idle", "tombstoning", "marking", "lexical", "checking", "enqueueing", "draining",
     "answering", "artifacts", "erasing", "rebuilding", "verifying", "verified", "failing", "done",
     "raised"}

JobRecord ==
    [pc : JobPcs, ids : SUBSET Ids, mode : Modes, attempt : Nat, todo : SUBSET Ids,
     bad : SUBSET Ids]

IdleJob == [pc |-> "idle", ids |-> {}, mode |-> "logical", attempt |-> 0, todo |-> {},
            bad |-> {}]

DeletionTypeOK ==
    /\ StoreTypeOK
    /\ lexical \in [Ids -> 0..MaxContent \cup {NoEntry}]
    /\ vector \in [Ids -> 0..MaxContent \cup {NoEntry}]
    /\ artifacts \subseteq Ids
    /\ oplog \in Seq(VectorOp)
    /\ job \in [Jobs -> JobRecord]
    /\ vectorFailures \in Nat /\ interrupts \in Nat /\ jobRetries \in Nat

-----------------------------------------------------------------------------
(* The coordinator's log                                                   *)

(* An index without some ids, and which of some ids it contains.           *)
Removed(idx, ids) == [r \in Ids |-> IF r \in ids THEN NoEntry ELSE idx[r]]

Contained(idx, ids) == {r \in ids : idx[r] # NoEntry}

(* Mutated form of OpConflicts: only operations of one type conflict. *)
ConflictsWithinType(o, p) == o.op_type = p.op_type /\ o.ids \cap p.ids # {}

OpConflicts(o, p) ==
    o.op_type = "remove_index" \/ p.op_type = "remove_index" \/ o.ids \cap p.ids # {}

Runnable(i) ==
    /\ ~oplog[i].backoff
    /\ \A e \in 1..(i - 1) : ~OpConflicts(oplog[e], oplog[i])

NothingRunnable == \A i \in DOMAIN oplog : ~Runnable(i)

NewOp(op_type, ids, content) ==
    [op_type |-> op_type, ids |-> ids, content |-> content, attempts |-> 0,
     backoff |-> FALSE]

VectorAfter(o, applied) ==
    [r \in Ids |-> IF r \in applied
                   THEN IF o.op_type = "upsert_index" THEN o.content ELSE NoEntry
                   ELSE vector[r]]

(* apply_next inside some thread's run_until_idle: the operation succeeds  *)
(* for all its ids and leaves the log, or fails after it was applied to    *)
(* some of them and backs off, or leaves the log as failed.                *)
ApplyOp(i) ==
    /\ Runnable(i)
    /\ \/ /\ vector' = VectorAfter(oplog[i], oplog[i].ids)
          /\ oplog' = RemoveAt(oplog, i)
          /\ UNCHANGED vectorFailures
       \/ /\ vectorFailures < MaxVectorFailures
          /\ vectorFailures' = vectorFailures + 1
          /\ \E applied \in SUBSET oplog[i].ids : vector' = VectorAfter(oplog[i], applied)
          /\ oplog' = IF oplog[i].attempts + 1 >= MaxOpAttempts THEN RemoveAt(oplog, i)
                      ELSE [oplog EXCEPT ![i].attempts = @ + 1, ![i].backoff = TRUE]
    /\ UNCHANGED <<storeVars, lexical, artifacts, job, interrupts, jobRetries>>

OpBackoffExpires(i) ==
    /\ oplog[i].backoff
    /\ oplog' = [oplog EXCEPT ![i].backoff = FALSE]
    /\ UNCHANGED <<storeVars, surfaceVars, job, countVars>>

-----------------------------------------------------------------------------
(* One job                                                                 *)

At(j, pc) == job[j].pc = pc

(* The thread of job j goes on to pc, with every id of the job to do.      *)
Goto(j, pc) == job' = [job EXCEPT ![j].pc = pc, ![j].todo = job[j].ids]

(* One turn of a loop over the ids, for r; after the last one goes to pc.  *)
Turn(j, r, pc) ==
    /\ r \in job[j].todo
    /\ IF job[j].todo = {r} THEN Goto(j, pc)
       ELSE job' = [job EXCEPT ![j].todo = @ \ {r}]

StartPurge(j, pc, ids, m) ==
    job' = [job EXCEPT ![j] = [pc |-> pc, ids |-> ids, mode |-> m, attempt |-> 0,
                               todo |-> ids, bad |-> {}]]

(* request_deletion: the record and everything linked to it, in any mode.  *)
(* Nothing checks that the record exists or is not deleted already.        *)
RequestDeletion(j, r, m) ==
    /\ At(j, "idle")
    /\ StartPurge(j, "tombstoning", {r} \cup DependencyGraph(r), m)
    /\ UNCHANGED <<storeVars, surfaceVars, oplog, countVars>>

JobRows(j) == {r \in Ids : tombstones[r].job = j}

(* retry: again for the rows that carry the job's id, in the mode of the   *)
(* first of them, whatever state the job is in.                            *)
RetryJob(j) ==
    /\ jobRetries < MaxJobRetries
    /\ job[j].pc \in {"done", "raised"}
    /\ JobRows(j) # {}
    /\ \E first \in JobRows(j) :
        /\ \A r \in JobRows(j) : first <= r
        /\ StartPurge(j, "marking", JobRows(j), tombstones[first].mode)
    /\ jobRetries' = jobRetries + 1
    /\ UNCHANGED <<storeVars, surfaceVars, oplog, vectorFailures, interrupts>>

TombstoneOne(j) ==
    /\ At(j, "tombstoning")
    /\ \E r \in Ids : Turn(j, r, "marking") /\ Tombstone(r, job[j].mode, j)
    /\ UNCHANGED <<surfaceVars, oplog, countVars>>

MarkDeleting(j) ==
    /\ At(j, "marking")
    /\ \E r \in Ids : Turn(j, r, "lexical") /\ SetTombstoneState(r, "index_deleting")
    /\ UNCHANGED <<surfaceVars, oplog, countVars>>

(* registry.purge, surface by surface.  An ack is what the surface answers *)
(* after the removal, in a query of its own.                               *)
PurgeLexical(j) ==
    /\ At(j, "lexical")
    /\ lexical' = Removed(lexical, job[j].ids)
    /\ Goto(j, "checking")
    /\ UNCHANGED <<storeVars, vector, artifacts, oplog, countVars>>

CheckLexical(j) ==
    /\ At(j, "checking")
    /\ job' = [job EXCEPT ![j].pc = "enqueueing", ![j].bad = Contained(lexical, job[j].ids)]
    /\ UNCHANGED <<storeVars, surfaceVars, oplog, countVars>>

EnqueueRemove(j) ==
    /\ At(j, "enqueueing")
    /\ oplog' = Append(oplog, NewOp("remove_index", job[j].ids, 0))
    /\ Goto(j, "draining")
    /\ UNCHANGED <<storeVars, surfaceVars, countVars>>

(* run_until_idle returns when nothing is eligible: its own operation may  *)
(* be applied, waiting behind a backoff, or given up.                      *)
Drained(j) ==
    /\ At(j, "draining")
    /\ NothingRunnable
    /\ Goto(j, "answering")
    /\ UNCHANGED <<storeVars, surfaceVars, oplog, countVars>>

AnswerVector(j) ==
    /\ At(j, "answering")
    /\ job' = [job EXCEPT ![j].pc = "artifacts",
                          ![j].bad = @ \cup Contained(vector, job[j].ids)]
    /\ UNCHANGED <<storeVars, surfaceVars, oplog, countVars>>

(* The last surface, the ack rows, and the choice on the failed ids.       *)
PurgeArtifacts(j) ==
    /\ At(j, "artifacts")
    /\ artifacts' = artifacts \ job[j].ids
    /\ Goto(j, CASE job[j].bad # {} -> "failing"
                 [] job[j].bad = {} /\ job[j].mode = "hard" -> "erasing"
                 [] OTHER -> "verifying")
    /\ UNCHANGED <<storeVars, lexical, vector, oplog, countVars>>

EraseOne(j) ==
    /\ At(j, "erasing")
    /\ \E r \in Ids : Turn(j, r, "rebuilding") /\ HardDelete(r)
    /\ UNCHANGED <<surfaceVars, oplog, countVars>>

(* Mutated form of RebuiltPostings: erased rows are indexed too. *)
RebuiltFromHistory ==
    [r \in Ids |-> IF IsTombstoned(r) THEN 0
                   ELSE IF Exists(r) THEN records[r].content ELSE NoEntry]

(* lexical.rebuild: one posting for every row of records, deleted or not.  *)
RebuiltPostings == [r \in Ids |-> IF Exists(r) THEN records[r].content ELSE NoEntry]

RebuildLexical(j) ==
    /\ At(j, "rebuilding")
    /\ lexical' = RebuiltPostings
    /\ Goto(j, "verifying")
    /\ UNCHANGED <<storeVars, vector, artifacts, oplog, countVars>>

InSurface(r) == lexical[r] # NoEntry \/ vector[r] # NoEntry \/ r \in artifacts

(* verify_not_retrievable: its reads are taken as one.                     *)
VerifyNotRetrievable(ids, m) ==
    \A r \in ids : ~InSurface(r) /\ IsTombstoned(r) /\ (m = "hard" => ~Exists(r))

Verify(j) ==
    /\ At(j, "verifying")
    /\ Goto(j, IF VerifyNotRetrievable(job[j].ids, job[j].mode) THEN "verified"
               ELSE "failing")
    /\ UNCHANGED <<storeVars, surfaceVars, oplog, countVars>>

MarkVerified(j) ==
    /\ At(j, "verified")
    /\ \E r \in Ids : Turn(j, r, "done") /\ SetTombstoneState(r, "verified")
    /\ UNCHANGED <<surfaceVars, oplog, countVars>>

RetriesLeft(j) == job[j].attempt < MaxPurgeRetries

(* Mutated form of FailureState: a job out of rounds is not escalated. *)
NoEscalation(j) == "partial_failure"

(* Mutated form of FailureState: a state the schema does not have. *)
EscalatedAsFailed(j) == IF RetriesLeft(j) THEN "partial_failure" ELSE "failed"

FailureState(j) == IF RetriesLeft(j) THEN "partial_failure" ELSE "manual_attention"

(* The failure path: partial_failure and another round, or escalation.     *)
MarkFailed(j) ==
    /\ At(j, "failing")
    /\ \E r \in Ids :
        /\ SetTombstoneState(r, FailureState(j))
        /\ IF job[j].todo = {r} /\ RetriesLeft(j)
           THEN job' = [job EXCEPT ![j].pc = "marking", ![j].todo = job[j].ids,
                                   ![j].bad = {}, ![j].attempt = @ + 1]
           ELSE Turn(j, r, "done")
    /\ UNCHANGED <<surfaceVars, oplog, countVars>>

(* An exception or a kill ends the thread where it is.  Nothing resumes    *)
(* the job: its tombstones keep their state, its operations stay queued.   *)
Interrupt(j) ==
    /\ interrupts < MaxInterrupts
    /\ job[j].pc \notin {"idle", "done", "raised"}
    /\ interrupts' = interrupts + 1
    /\ Goto(j, "raised")
    /\ UNCHANGED <<storeVars, surfaceVars, oplog, vectorFailures, jobRetries>>

(* deletion_status: the least complete state among the job's rows.         *)
RollUpOrder ==
    <<"manual_attention", "partial_failure", "index_deleting", "canonical_tombstoned",
      "verified">>

JobState(j) ==
    RollUpOrder[CHOOSE k \in DOMAIN RollUpOrder :
                  /\ \E r \in JobRows(j) : tombstones[r].state = RollUpOrder[k]
                  /\ \A l \in 1..(k - 1) :
                        \A r \in JobRows(j) : tombstones[r].state # RollUpOrder[l]]

JobStep(j) ==
    \/ TombstoneOne(j) \/ MarkDeleting(j)
    \/ PurgeLexical(j) \/ CheckLexical(j) \/ EnqueueRemove(j) \/ Drained(j)
    \/ AnswerVector(j) \/ PurgeArtifacts(j) \/ EraseOne(j) \/ RebuildLexical(j)
    \/ Verify(j) \/ MarkVerified(j) \/ MarkFailed(j)

-----------------------------------------------------------------------------
(* Records and surfaces as a series of write_memory calls leaves them, the *)
(* handler having failed once for the queued upserts.                      *)
DeletionInit ==
    /\ records = [r \in Ids |-> IF r \in Existing THEN [status |-> "active", content |-> 0]
                                ELSE Absent]
    /\ tombstones = [r \in Ids |-> NoTombstone]
    /\ dependencies = InitialEdges
    /\ lexical = [r \in Ids |-> IF Exists(r) THEN 0 ELSE NoEntry]
    /\ vector = [r \in Ids |-> IF Exists(r) /\ r \notin NeverIndexed THEN 0 ELSE NoEntry]
    /\ artifacts = Mirrored
    /\ oplog = [i \in 1..Cardinality(QueuedUpserts) |->
                    [NewOp("upsert_index", {SetToSeq(QueuedUpserts)[i]}, 0)
                        EXCEPT !.attempts = 1, !.backoff = TRUE]]
    /\ job = [j \in Jobs |-> IdleJob]
    /\ vectorFailures = 0 /\ interrupts = 0 /\ jobRetries = 0

ApplySomeOp == (\E j \in Jobs : At(j, "draining")) /\ (\E i \in DOMAIN oplog : ApplyOp(i))

ExpireSomeBackoff == \E i \in DOMAIN oplog : OpBackoffExpires(i)

RequestSomeDeletion ==
    \E j \in Jobs : \E r \in Ids, m \in RequestModes : RequestDeletion(j, r, m)

DeletionStep ==
    \/ \E j \in Jobs : JobStep(j) \/ RetryJob(j) \/ Interrupt(j)
    \/ ApplySomeOp
    \/ ExpireSomeBackoff

DeletionNext == RequestSomeDeletion \/ DeletionStep

DeletionSpec == DeletionInit /\ [][DeletionNext]_deletionVars

(* A thread goes on until its call returns; in run_until_idle that means   *)
(* applying what is eligible.                                              *)
DeletionFairSpec ==
    /\ DeletionSpec
    /\ \A j \in Jobs : WF_deletionVars(JobStep(j))
    /\ WF_deletionVars(ApplySomeOp)

-----------------------------------------------------------------------------
(* Properties                                                              *)

Gone(r, m) == ~InSurface(r) /\ (m = "hard" => ~Exists(r))

(* Deletion integrity: a record whose tombstone says verified is in no     *)
(* managed surface, and its row is erased if it was deleted hard - however *)
(* jobs over the same records interleave, fail, stop and are retried.      *)
VerifiedMeansGone ==
    \A r \in Ids : tombstones[r].state = "verified" => Gone(r, tombstones[r].mode)

(* Canonical first: whatever a deletion takes out of an index, or erases,  *)
(* was tombstoned in the canonical store before.                           *)
CanonicalFirst ==
    [][\A r \in Ids :
        \/ (InSurface(r) /\ ~InSurface(r)')
        \/ (lexical[r] # NoEntry /\ lexical'[r] = NoEntry)
        \/ (Exists(r) /\ ~Exists(r)')
            => IsTombstoned(r)]_deletionVars

(* Every deletion job ends, as deletion_status reports it, in verified or  *)
(* manual_attention: the retries are bounded, whatever the vector index    *)
(* refuses and however long an operation before the removal backs off.     *)
JobsSettle ==
    \A j \in Jobs :
        JobRows(j) # {} ~> JobRows(j) # {} /\ JobState(j) \in {"verified", "manual_attention"}

(* The FTS5 shadow is scrubbed: the text of a record whose deletion was    *)
(* verified, logical or hard, is not in the lexical index.                 *)
VerifiedNotInLexical ==
    \A r \in Ids : tombstones[r].state = "verified" => lexical[r] = NoEntry

=============================================================================
