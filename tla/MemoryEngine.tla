---------------------------- MODULE MemoryEngine ----------------------------
(***************************************************************************)
(* The memory engine (strata/engine.py with gateway/api.py and the         *)
(* resolver): write, update, correct, merge and recall, in the threads of  *)
(* a host, beside the deletion jobs of DeletionService.                    *)
(*                                                                         *)
(* A call is the list of steps it has still to take; each step is one      *)
(* commit, one call of an index or one read, and between two of them other *)
(* threads act on the same store, indexes and operation log.  What a call  *)
(* has read stays in its record, however stale it becomes.                 *)
(*                                                                         *)
(* Of retrieval the ranking, the top_k cut, the budgets and the policy and *)
(* validity filters are left out.  They only drop entries, so what one of  *)
(* the code's bundles holds, some bundle of the model holds in the same    *)
(* place.                                                                  *)
(***************************************************************************)
EXTENDS DeletionService

CONSTANTS
    Threads,            \* threads of the host that call the engine
    Functions,          \* the functions they call
    PatchStatuses,      \* statuses update_memory is given
    MaxCalls            \* bound: calls of the engine, deletions included

ASSUME EngineAssumption ==
    /\ Functions \subseteq {"write", "update", "patch", "correct", "merge", "recall"}
    /\ PatchStatuses \subseteq Statuses
    /\ MaxCalls \in Nat

VARIABLES
    call,           \* per thread: the call it is in
    used,           \* ids new_record_id has given out
    corrections,    \* history: <<new, old, rel>> of corrections and merges that returned
    calls           \* bound counter

engineVars == <<call, used, corrections, calls>>
engineAllVars == <<deletionVars, engineVars>>

(* steps: what is left to do.  id, row: the record the call writes, and as *)
(* what.  old, rel: the record it corrects or merges away.  hits: ids with *)
(* the content version an index believes.  rows: what hydration read.      *)
(* beliefs, conflicts, standing: the bundle, whose hypotheses and policy   *)
(* flags are the standing ones.  deleted, corrected: history, the          *)
(* tombstones and the corrections there were when the call began.          *)
IdleCall ==
    [steps |-> <<>>, id |-> NoEntry, row |-> Absent, old |-> NoEntry, rel |-> "none",
     hits |-> {}, rows |-> [r \in Ids |-> Absent], beliefs |-> {}, conflicts |-> {},
     standing |-> {}, deleted |-> {}, corrected |-> {}]

StepNames ==
    {"read", "unindex", "store", "reread", "index", "upsert", "drain", "guard", "status",
     "link", "purge_lexical", "purge_vector", "purge_artifacts", "search_vector",
     "search_lexical", "hydrate", "filter", "bundle"}

CallRecord ==
    [steps : Seq(StepNames), id : Ids \cup {NoEntry}, row : Record \cup {Absent},
     old : Ids \cup {NoEntry}, rel : Relations \cup {"none"},
     hits : SUBSET (Ids \X (0..MaxContent)), rows : [Ids -> Record \cup {Absent}],
     beliefs : SUBSET Ids, conflicts : SUBSET Ids, standing : SUBSET Ids,
     deleted : SUBSET Ids, corrected : SUBSET (Ids \X Ids \X Relations)]

Doing(t, step) == call[t].steps # <<>> /\ Head(call[t].steps) = step

Rest(t) == Tail(call[t].steps)

(* The rest of the call is not done: it is over, or has raised.            *)
Abandon(t) == call' = [call EXCEPT ![t] = IdleCall]

(* The call of thread t goes on to its next step, or returns.              *)
Advance(t) == IF Rest(t) = <<>> THEN Abandon(t)
              ELSE call' = [call EXCEPT ![t].steps = Rest(t)]

(* A row about to be written is a row: the status came from one that was   *)
(* read, or is the default of a new record.                                *)
EngineTypeOK ==
    /\ DeletionTypeOK
    /\ call \in [Threads -> CallRecord]
    /\ \A t \in Threads : Doing(t, "store") => call[t].row \in Record
    /\ used \subseteq Ids
    /\ corrections \subseteq Ids \X Ids \X Relations
    /\ calls \in Nat

-----------------------------------------------------------------------------
(* The functions as lists of steps                                         *)

EnqueueAndDrain == <<"upsert", "drain">>

WriteSteps == <<"store", "reread", "index">> \o EnqueueAndDrain

(* Mutated form of UpdateSteps: the old text is removed last. *)
UnindexAfterIndex ==
    <<"read", "store", "reread", "index", "unindex">> \o EnqueueAndDrain

UpdateSteps == <<"read", "unindex">> \o WriteSteps

PurgeSteps == <<"purge_lexical", "purge_vector", "drain", "purge_artifacts">>

(* Mutated form of CorrectSteps: the old record is not linked. *)
CorrectByStatus ==
    <<"store", "reread", "status", "index">> \o PurgeSteps \o EnqueueAndDrain

CorrectSteps ==
    <<"store", "reread", "status", "link", "index">> \o PurgeSteps \o EnqueueAndDrain

MergeSteps == <<"guard", "status", "link">> \o PurgeSteps

RecallSteps == <<"search_vector", "search_lexical", "hydrate", "filter", "bundle">>

Begin(t, c) ==
    /\ calls < MaxCalls
    /\ call[t].steps = <<>>
    /\ calls' = calls + 1
    /\ call' = [call EXCEPT ![t] = c]
    /\ UNCHANGED <<deletionVars, corrections>>

(* new_record_id: a random number, never drawn before.                     *)
FreshId(r) == r \notin used /\ used' = used \cup {r}

(* write_memory: a record with an id of its own.                           *)
BeginWrite(t) ==
    /\ "write" \in Functions
    /\ \E r \in Ids, c \in 0..MaxContent :
        /\ FreshId(r)
        /\ Begin(t, [IdleCall EXCEPT !.steps = WriteSteps, !.id = r,
                                     !.row = [status |-> "active", content |-> c]])

(* update_memory with content: the status is the one that will be read.    *)
BeginUpdate(t) ==
    /\ "update" \in Functions
    /\ \E r \in used, c \in 0..MaxContent :
        Begin(t, [IdleCall EXCEPT !.steps = UpdateSteps, !.id = r,
                                  !.row = [status |-> "active", content |-> c]])
    /\ UNCHANGED used

(* correct, supersede_memory: a new record against an old id.  Nothing     *)
(* checks that the old record exists or is not deleted.                    *)
BeginCorrect(t) ==
    /\ "correct" \in Functions
    /\ \E r \in Ids, old \in used, rel \in {"supersedes", "contradicts"} :
        /\ FreshId(r)
        /\ Begin(t, [IdleCall EXCEPT !.steps = CorrectSteps, !.id = r, !.old = old,
                                     !.rel = rel,
                                     !.row = [status |-> "active", content |-> 0]])

(* merge_records, for one duplicate.                                       *)
BeginMerge(t) ==
    /\ "merge" \in Functions
    /\ \E primary \in used, duplicate \in used :
        /\ primary # duplicate
        /\ Begin(t, [IdleCall EXCEPT !.steps = MergeSteps, !.id = primary,
                                     !.old = duplicate, !.rel = "supersedes"])
    /\ UNCHANGED used

BeginRecall(t) ==
    /\ "recall" \in Functions
    /\ Begin(t, [IdleCall EXCEPT
                    !.steps = RecallSteps,
                    !.deleted = {r \in Ids : IsTombstoned(r)},
                    !.corrected = corrections])
    /\ UNCHANGED used

(* update_memory with a status and no content.                             *)
PatchStatus(t) ==
    /\ "patch" \in Functions
    /\ calls < MaxCalls
    /\ call[t].steps = <<>>
    /\ \E r \in used, s \in PatchStatuses : Exists(r) /\ SetStatus(r, s)
    /\ calls' = calls + 1
    /\ UNCHANGED <<surfaceVars, oplog, job, countVars, call, used, corrections>>

-----------------------------------------------------------------------------
(* The steps of a writer                                                   *)

OnlyStore == UNCHANGED <<surfaceVars, oplog, job, countVars, used, corrections, calls>>
OnlyLexical == UNCHANGED <<storeVars, vector, artifacts, oplog, job, countVars, used, corrections, calls>>
OnlyLog == UNCHANGED <<storeVars, surfaceVars, job, countVars, used, corrections, calls>>
OnlyCall == UNCHANGED <<deletionVars, used, corrections, calls>>

(* A correction or a merge whose last step this is counts as done.         *)
NoteCorrection(t) ==
    corrections' = IF Rest(t) = <<>> /\ call[t].old # NoEntry
                   THEN corrections \cup {<<call[t].id, call[t].old, call[t].rel>>}
                   ELSE corrections

(* Mutated form of RowFound: an unknown id is not refused. *)
NeverMissing(r) == TRUE

RowFound(r) == Exists(r)

(* update_memory reads the row, which it will write back with new content; *)
(* an unknown id is a KeyError.                                            *)
ReadOld(t) ==
    /\ Doing(t, "read")
    /\ IF RowFound(call[t].id)
       THEN call' = [call EXCEPT ![t].steps = Rest(t),
                                 ![t].row.status = records[call[t].id].status]
       ELSE Abandon(t)
    /\ OnlyCall

Unindex(t) ==
    /\ Doing(t, "unindex")
    /\ lexical' = Removed(lexical, {call[t].id})
    /\ Advance(t)
    /\ OnlyLexical

StoreRow(t) ==
    /\ Doing(t, "store")
    /\ Write(call[t].id, call[t].row.status, call[t].row.content)
    /\ Advance(t)
    /\ OnlyStore

(* write returns the row as it reads it back after its commit.             *)
Reread(t) ==
    /\ Doing(t, "reread")
    /\ call' = [call EXCEPT ![t].steps = Rest(t),
                            ![t].row = IF Exists(call[t].id) THEN records[call[t].id] ELSE @]
    /\ OnlyCall

IndexRow(t) ==
    /\ Doing(t, "index")
    /\ lexical' = [lexical EXCEPT ![call[t].id] = call[t].row.content]
    /\ Advance(t)
    /\ OnlyLexical

(* The guard of merge_records: tombstoned duplicates are skipped.          *)
MergeGuard(t) ==
    /\ Doing(t, "guard")
    /\ IF IsTombstoned(call[t].old) THEN Abandon(t) ELSE Advance(t)
    /\ OnlyCall

MarkOld(t) ==
    /\ Doing(t, "status")
    /\ SetStatus(call[t].old, IF call[t].rel = "supersedes" THEN "superseded"
                              ELSE "contradicted")
    /\ Advance(t)
    /\ OnlyStore

Link(t) ==
    /\ Doing(t, "link")
    /\ AddDependency(call[t].id, call[t].old, call[t].rel)
    /\ Advance(t)
    /\ OnlyStore

(* The foreign keys refuse the edge: the call raises, with the new record  *)
(* written and nothing of it indexed.                                      *)
LinkRefused(t) ==
    /\ Doing(t, "link")
    /\ ~Exists(call[t].id) \/ ~Exists(call[t].old)
    /\ Abandon(t)
    /\ OnlyCall

PurgeOldLexical(t) ==
    /\ Doing(t, "purge_lexical")
    /\ lexical' = Removed(lexical, {call[t].old})
    /\ Advance(t)
    /\ OnlyLexical

PurgeOldVector(t) ==
    /\ Doing(t, "purge_vector")
    /\ oplog' = Append(oplog, NewOp("remove_index", {call[t].old}, 0))
    /\ Advance(t)
    /\ OnlyLog

PurgeOldArtifacts(t) ==
    /\ Doing(t, "purge_artifacts")
    /\ artifacts' = artifacts \ {call[t].old}
    /\ Advance(t)
    /\ NoteCorrection(t)
    /\ UNCHANGED <<storeVars, lexical, vector, oplog, job, countVars, used, calls>>

EnqueueUpsert(t) ==
    /\ Doing(t, "upsert")
    /\ oplog' = Append(oplog, NewOp("upsert_index", {call[t].id}, call[t].row.content))
    /\ Advance(t)
    /\ OnlyLog

(* run_until_idle returns; while it runs, EngineApplies.                   *)
DrainReturns(t) ==
    /\ Doing(t, "drain")
    /\ NothingRunnable
    /\ Advance(t)
    /\ NoteCorrection(t)
    /\ UNCHANGED <<deletionVars, used, calls>>

EngineApplies ==
    /\ \E t \in Threads : Doing(t, "drain")
    /\ \E i \in DOMAIN oplog : ApplyOp(i)
    /\ UNCHANGED engineVars

-----------------------------------------------------------------------------
(* The steps of recall                                                     *)

SearchVector(t) ==
    /\ Doing(t, "search_vector")
    /\ call' = [call EXCEPT ![t].steps = Rest(t),
                            ![t].hits = {<<r, vector[r]>> : r \in Contained(vector, Ids)}]
    /\ OnlyCall

(* The FTS5 query joins the canonical row: the hit carries its hash.       *)
SearchLexical(t) ==
    /\ Doing(t, "search_lexical")
    /\ call' = [call EXCEPT ![t].steps = Rest(t),
                            ![t].hits = @ \cup {<<r, records[r].content>> :
                                                r \in {x \in Contained(lexical, Ids) : InForce(x)}}]
    /\ OnlyCall

Hydrate(t) ==
    /\ Doing(t, "hydrate")
    /\ call' = [call EXCEPT ![t].steps = Rest(t),
                            ![t].rows = [r \in Ids |-> IF \E h \in call[t].hits : h[1] = r
                                                       THEN records[r] ELSE Absent]]
    /\ OnlyCall

(* Mutated form of Survives: tombstones are not looked up. *)
FilterWithoutTombstones(t, r) ==
    call[t].rows[r] # Absent /\ <<r, call[t].rows[r].content>> \in call[t].hits

(* What survives: a row was read, it is not tombstoned by now, and some    *)
(* hit carries the hash that was read.                                     *)
Survives(t, r) ==
    /\ call[t].rows[r] # Absent
    /\ ~IsTombstoned(r)
    /\ <<r, call[t].rows[r].content>> \in call[t].hits

Filter(t) ==
    /\ Doing(t, "filter")
    /\ call' = [call EXCEPT ![t].steps = Rest(t),
                            ![t].rows = [r \in Ids |-> IF Survives(t, r) THEN @[r] ELSE Absent]]
    /\ OnlyCall

(* Current truth: active as read, and not superseded by an active record.  *)
Current(t, r) ==
    /\ call[t].rows[r].status \in {"active", "reinforced"}
    /\ ~SupersededByActive(r)

(* Reflections, guardrails and L4 records are placed before status and     *)
(* supersession are looked at.  The kind of a record is not kept: any of   *)
(* the survivors may be of these.                                          *)
BuildBundle(t) ==
    /\ Doing(t, "bundle")
    /\ \E standing \in SUBSET {r \in Ids : call[t].rows[r] # Absent} :
        LET current == {r \in Ids \ standing : Current(t, r)}
            disputed == {r \in current : \E x \in ContradictorIds(r) : InForce(x)}
        IN call' = [call EXCEPT ![t] = [IdleCall EXCEPT !.beliefs = current \ disputed,
                                                        !.conflicts = disputed,
                                                        !.standing = standing]]
    /\ OnlyCall

-----------------------------------------------------------------------------
EngineInterrupt(t) ==
    /\ interrupts < MaxInterrupts
    /\ call[t].steps # <<>>
    /\ interrupts' = interrupts + 1
    /\ Abandon(t)
    /\ UNCHANGED <<storeVars, surfaceVars, oplog, job, vectorFailures, jobRetries, used, corrections, calls>>

WriterStep(t) ==
    \/ ReadOld(t) \/ Unindex(t) \/ StoreRow(t) \/ Reread(t) \/ IndexRow(t)
    \/ MergeGuard(t) \/ MarkOld(t) \/ Link(t) \/ LinkRefused(t)
    \/ PurgeOldLexical(t) \/ PurgeOldVector(t) \/ PurgeOldArtifacts(t)
    \/ EnqueueUpsert(t) \/ DrainReturns(t)

RecallStep(t) ==
    SearchVector(t) \/ SearchLexical(t) \/ Hydrate(t) \/ Filter(t) \/ BuildBundle(t)

BeginCall(t) ==
    BeginWrite(t) \/ BeginUpdate(t) \/ BeginCorrect(t) \/ BeginMerge(t) \/ BeginRecall(t)

EngineInit ==
    /\ DeletionInit
    /\ call = [t \in Threads |-> IdleCall]
    /\ used = Existing
    /\ corrections = {}
    /\ calls = 0

(* delete_memory: a call like the others, whose thread is a deletion job.  *)
BeginDelete ==
    /\ calls < MaxCalls
    /\ calls' = calls + 1
    /\ RequestSomeDeletion
    /\ UNCHANGED <<call, used, corrections>>

EngineNext ==
    \/ BeginDelete
    \/ DeletionStep /\ UNCHANGED engineVars
    \/ \E t \in Threads :
        BeginCall(t) \/ PatchStatus(t) \/ WriterStep(t) \/ RecallStep(t) \/ EngineInterrupt(t)
    \/ EngineApplies

EngineSpec == EngineInit /\ [][EngineNext]_engineAllVars

-----------------------------------------------------------------------------
(* Properties                                                              *)

Bundle(t) == call[t].beliefs \cup call[t].conflicts \cup call[t].standing

Returns(t) == Doing(t, "bundle") /\ ~Doing(t, "bundle")'

(* Deletion integrity of recall: what was tombstoned before a recall began *)
(* is not in its bundle, whatever the indexes still hold of it, and        *)
(* whatever an update, a correction or a merge racing with the deletion    *)
(* has written back since.                                                 *)
DeletionIntegrity ==
    [][\A t \in Threads : Returns(t) => Bundle(t)' \cap call[t].deleted = {}]_engineAllVars

(* The old record of a correction was deleted while the recall of thread t *)
(* was under way, and the edge to it erased with its row.                  *)
ErasedDuring(t, c) ==
    c \notin dependencies /\ IsTombstoned(c[2]) /\ c[2] \notin call[t].deleted

(* A correction is respected: once correct or merge_records has returned,  *)
(* no recall begun after it takes the old record for current truth while   *)
(* the new one is in force, nor for an open conflict unless it was only    *)
(* contradicted - even when an update begun before the correction, or a    *)
(* status patch after it, wrote an active status back over "superseded".   *)
(* A reflection, guardrail or L4 record that was corrected may still be a  *)
(* hypothesis or a policy flag, if an index was given it again.  Only a    *)
(* deletion that erases the edge between two reads of the recall lets the  *)
(* old record be believed once more, as if it were never corrected.        *)
CorrectionRespected ==
    [][\A t \in Threads : Returns(t) =>
        \A c \in call[t].corrected :
            InForce(c[1]) /\ ~ErasedDuring(t, c) =>
                /\ c[2] \notin call'[t].beliefs
                /\ c[3] = "supersedes" => c[2] \notin call'[t].conflicts]_engineAllVars

Quiescent ==
    /\ oplog = <<>>
    /\ \A t \in Threads : call[t].steps = <<>>
    /\ \A j \in Jobs : job[j].pc \in {"idle", "done", "raised"}

(* No drift: when no call is under way and the log is drained, both        *)
(* indexes hold the current content of every active record.                *)
ActiveMeansIndexed ==
    Quiescent =>
        \A r \in Ids : InForce(r) =>
            lexical[r] = records[r].content /\ vector[r] = records[r].content

(* A record that was deleted hard never has a canonical row again.         *)
HardDeletedStaysGone ==
    [][\A r \in Ids :
        IsTombstoned(r) /\ tombstones[r].mode = "hard" /\ ~Exists(r) => ~Exists(r)']_engineAllVars

=============================================================================
