---------------------------- MODULE Generations ----------------------------
(***************************************************************************)
(* Embedding generations (strata/engine.py): open_shadow_generation and    *)
(* reindex_into, which the host calls together, and promote_generation,    *)
(* which it may call whenever it likes or never, beside writes and         *)
(* deletions of the same records, over the vector stores, which all get    *)
(* the same operations, and restarts of the process.                       *)
(*                                                                         *)
(* The operation log is applied in its order, one operation at a time, and *)
(* no operation fails (WriteCoordinator models the log, DeletionService    *)
(* the states of a job, its retries and the surfaces that are not vector   *)
(* stores).  Every commit and every application is a step of its own.      *)
(***************************************************************************)
EXTENDS VectorStores, SequencesExt

CONSTANTS
    Threads,            \* threads of the host
    Functions,          \* per thread: what it calls
    Existing,           \* records written and indexed before the initial state
    FirstGeneration,    \* the generation they were indexed in
    MaxCalls,           \* bound: calls, but for promotions, and restarts
    MaxRestarts         \* bound: restarts of the process

ASSUME GenerationsAssumption ==
    /\ IsFiniteSet(Ids) /\ Existing \subseteq Ids
    /\ Stores # {}
    /\ MaxContent \in Nat
    /\ FirstGeneration \in Generations
    /\ \A t \in Threads :
        Functions[t] \subseteq
            {"write", "delete", "migrate", "promote", "persist", "compact", "purge"}
    /\ Threads \subseteq Jobs
    /\ MaxCalls \in Nat /\ MaxRestarts \in Nat

VARIABLES
    stores,             \* per store: its state
    files,              \* the .tvim files of the archive
    oplog,              \* the operations not applied yet
    table,              \* table embedding_generations: status per generation
    active,             \* the generation the engine writes to and recalls from
    call,               \* per thread: the call it is in
    calls, restarts,    \* bound counters
    readded,            \* history: ids put back into an index after their tombstone
    missed              \* history: per store and generation, ids it is not owed

vectorVars == <<stores, files, oplog>>
countVars == <<calls, restarts>>
historyVars == <<readded, missed>>
generationsVars ==
    <<storeVars, vectorVars, table, active, call, countVars, historyVars>>

(* pc: what the thread does next.  generation, id, content: the upsert.    *)
(* left: stores it is still to be enqueued for, or a removal.  rows: what  *)
(* a migration read and has still to reindex.  gone: whether every store   *)
(* asked so far has answered that the record is gone.  clear: history,     *)
(* whether the record had no tombstone when the call looked.               *)
IdleCall ==
    [pc |-> "idle", then |-> "idle", generation |-> FirstGeneration, id |-> NoEntry,
     content |-> 0, left |-> <<>>, rows |-> <<>>, gone |-> TRUE, clear |-> TRUE]

CallPcs ==
    {"idle", "store", "enqueue", "drain", "tombstone", "purge", "answer", "verify", "read",
     "reindex", "switch"}

CallRecord ==
    [pc : CallPcs, then : {"idle", "drain", "reindex"}, generation : Generations,
     id : Ids \cup {NoEntry}, content : 0..MaxContent, left : Seq(Stores),
     rows : Seq(Ids \X (0..MaxContent)), gone : BOOLEAN, clear : BOOLEAN]

LogOp ==
    [type : {"upsert", "remove"}, store : Stores, generation : Generations, id : Ids,
     content : 0..MaxContent]

Op(type, s, g, r, c) ==
    [type |-> type, store |-> s, generation |-> g, id |-> r, content |-> c]

GenerationsTypeOK ==
    /\ StoreTypeOK
    /\ stores = [s \in Stores |-> stores[s]] /\ \A s \in Stores : StoreStateOK(s, stores[s])
    /\ files \in [Generations -> [Ids -> Contents]]
    /\ oplog \in Seq(LogOp)
    /\ table \in [Generations -> {"absent", "shadow", "active", "retired"}]
    /\ active \in Generations
    /\ call \in [Threads -> CallRecord]
    /\ calls \in 0..MaxCalls /\ restarts \in 0..MaxRestarts
    /\ readded \subseteq Ids
    /\ missed \in [Stores -> [Generations -> SUBSET Ids]]

-----------------------------------------------------------------------------
StoreNames == SetToSeq(Stores)

At(t, pc) == call[t].pc = pc

ReindexedInto(g) == \E t \in Threads : call[t].then = "reindex" /\ call[t].generation = g

Become(t, c) == call' = [call EXCEPT ![t] = c]

Goto(t, pc) == Become(t, [call[t] EXCEPT !.pc = pc])

Begin(t, f, c) ==
    /\ f \in Functions[t] /\ At(t, "idle") /\ calls < MaxCalls
    /\ calls' = calls + 1
    /\ Become(t, c)
    /\ UNCHANGED restarts

OnlyCall == UNCHANGED <<storeVars, vectorVars, table, active, historyVars>>

-----------------------------------------------------------------------------
(* write_memory, and update_memory of a record that is not deleted         *)

(* The generation is the active one when the call begins.                  *)
BeginWrite(t) ==
    /\ \E r \in Ids, c \in 0..MaxContent :
        /\ ~IsTombstoned(r)
        /\ Begin(t, "write", [IdleCall EXCEPT !.pc = "store", !.then = "drain", !.id = r,
                                              !.content = c, !.generation = active,
                                              !.left = StoreNames])
    /\ OnlyCall

StoreRow(t) ==
    /\ At(t, "store")
    /\ Write(call[t].id, "active", call[t].content)
    /\ Goto(t, "enqueue")
    /\ UNCHANGED <<vectorVars, table, active, countVars, historyVars>>

(* History: no generation but its own is owed what is written, and it is   *)
(* not either if it is being reindexed from older rows.  A zvec store, of  *)
(* one document per record, owes it to one generation only.                *)
MissedNow(c, s, g) ==
    IF c.then = "drain" /\ g = c.generation /\ ~ReindexedInto(g) THEN missed[s][g] \ {c.id}
    ELSE IF c.then = "drain" \/ (s = "zvec" /\ g # c.generation) THEN missed[s][g] \cup {c.id}
    ELSE missed[s][g]

Missed(c, s) == [missed EXCEPT ![s] = [g \in Generations |-> MissedNow(c, s, g)]]

(* One operation per store; a migration then goes on to its next row.      *)
EnqueueUpsert(t) ==
    /\ At(t, "enqueue")
    /\ oplog' = Append(oplog, Op("upsert", Head(call[t].left), call[t].generation,
                                 call[t].id, call[t].content))
    /\ Become(t, [call[t] EXCEPT !.left = Tail(@),
                                 !.pc = IF Tail(call[t].left) = <<>> THEN call[t].then ELSE @])
    /\ readded' = IF IsTombstoned(call[t].id) /\ call[t].clear
                  THEN readded \cup {call[t].id} ELSE readded
    /\ missed' = Missed(call[t], Head(call[t].left))
    /\ UNCHANGED <<storeVars, stores, files, table, active, countVars>>

(* run_until_idle: the head of the log is applied by whoever drains it.    *)
Draining(t) == At(t, "drain") \/ At(t, "answer")

Applied(o) ==
    IF o.type = "upsert" THEN Upserted(o.store, stores[o.store], o.generation, o.id, o.content)
    ELSE RemovedFrom(o.store, stores[o.store], o.id)

ApplyNext ==
    /\ \E t \in Threads : Draining(t)
    /\ oplog # <<>>
    /\ stores' = [stores EXCEPT ![Head(oplog).store] = Applied(Head(oplog))]
    /\ oplog' = Tail(oplog)
    /\ UNCHANGED <<storeVars, files, table, active, call, countVars, historyVars>>

(* Mutated form of Drained: the call does not wait for the log.            *)
NeverWaits(t) == TRUE

Drained(t) == oplog = <<>>

DrainReturns(t) ==
    /\ At(t, "drain")
    /\ Drained(t)
    /\ Become(t, IdleCall)
    /\ UNCHANGED countVars /\ OnlyCall

-----------------------------------------------------------------------------
(* delete_memory, of one record                                            *)

BeginDelete(t) ==
    /\ \E r \in Ids :
        /\ Exists(r)
        /\ Begin(t, "delete", [IdleCall EXCEPT !.pc = "tombstone", !.id = r,
                                               !.left = StoreNames])
    /\ OnlyCall

TombstoneRecord(t) ==
    /\ At(t, "tombstone")
    /\ Tombstone(call[t].id, "logical", t)
    /\ Goto(t, "purge")
    /\ UNCHANGED <<vectorVars, table, active, countVars, historyVars>>

EnqueueRemoval(t) ==
    /\ At(t, "purge")
    /\ oplog' = Append(oplog, Op("remove", Head(call[t].left), FirstGeneration, call[t].id, 0))
    /\ Goto(t, "answer")
    /\ UNCHANGED <<storeVars, stores, files, table, active, countVars, historyVars>>

(* The removal returns whether the store contains the record, drained.     *)
Answer(t) ==
    /\ At(t, "answer")
    /\ oplog = <<>>
    /\ LET s == Head(call[t].left)
       IN Become(t, [call[t] EXCEPT !.gone = @ /\ ~ContainsId(s, stores[s], call[t].id),
                                    !.left = Tail(@),
                                    !.pc = IF Tail(call[t].left) = <<>> THEN "verify"
                                           ELSE "purge"])
    /\ UNCHANGED countVars /\ OnlyCall

Gone(r) == \A s \in Stores : ~ContainsId(s, stores[s], r)

Verify(t) ==
    /\ At(t, "verify")
    /\ SetTombstoneState(call[t].id, IF call[t].gone /\ Gone(call[t].id) THEN "verified"
                                     ELSE "manual_attention")
    /\ Become(t, IdleCall)
    /\ UNCHANGED <<vectorVars, table, active, countVars, historyVars>>

-----------------------------------------------------------------------------
(* A migration: open_shadow_generation and reindex_into of all records     *)

Opened(g, status) == [table EXCEPT ![g] = IF @ = "absent" THEN status ELSE @]

BeginMigration(t) ==
    /\ \E g \in Generations \ {active} :
        /\ Begin(t, "migrate", [IdleCall EXCEPT !.pc = "read", !.generation = g])
        /\ table' = Opened(g, "shadow")
    /\ UNCHANGED <<storeVars, vectorVars, active, historyVars>>

ReadRows(t) ==
    /\ At(t, "read")
    /\ Become(t, [call[t] EXCEPT !.pc = "reindex", !.then = "reindex",
                                 !.rows = SetToSeq({<<r, records[r].content>> :
                                                    r \in {x \in Ids : Exists(x)}})])
    /\ missed' = [s \in Stores |-> [missed[s] EXCEPT ![call[t].generation] = {}]]
    /\ UNCHANGED <<storeVars, vectorVars, table, active, countVars, readded>>

(* Mutated form of Reindexable: tombstones are not looked up.              *)
AnyRow(r) == TRUE

Reindexable(r) == ~IsTombstoned(r)

(* The next row is enqueued as it was read, unless it is tombstoned now.   *)
ReindexRow(t) ==
    /\ At(t, "reindex")
    /\ LET row == Head(call[t].rows)
       IN Become(t, IF call[t].rows = <<>> THEN [call[t] EXCEPT !.pc = "drain"]
                    ELSE IF ~Reindexable(row[1]) THEN [call[t] EXCEPT !.rows = Tail(@)]
                    ELSE [call[t] EXCEPT !.pc = "enqueue", !.rows = Tail(@), !.id = row[1],
                                         !.clear = ~IsTombstoned(row[1]), !.content = row[2],
                                         !.left = StoreNames])
    /\ UNCHANGED countVars /\ OnlyCall

-----------------------------------------------------------------------------
(* promote_generation, of any generation that was opened: the table in one *)
(* commit, then the engine                                                 *)

Promoted(g) ==
    [h \in Generations |->
        IF h = g THEN "active" ELSE IF table[h] = "active" THEN "retired" ELSE table[h]]

Promote(t) ==
    /\ "promote" \in Functions[t] /\ At(t, "idle")
    /\ \E g \in Generations \ {active} :
        /\ table[g] # "absent"
        /\ Become(t, [IdleCall EXCEPT !.pc = "switch", !.generation = g])
        /\ table' = Promoted(g)
    /\ UNCHANGED <<storeVars, vectorVars, active, countVars, historyVars>>

Switch(t) ==
    /\ At(t, "switch")
    /\ active' = call[t].generation
    /\ Become(t, IdleCall)
    /\ UNCHANGED <<storeVars, vectorVars, table, countVars, historyVars>>

-----------------------------------------------------------------------------
(* Maintenance of the stores, and the process                              *)

Maintain(t, f, s, x) ==
    /\ s \in Stores
    /\ Begin(t, f, IdleCall)
    /\ stores' = [stores EXCEPT ![s] = x]
    /\ UNCHANGED <<storeVars, oplog, table, active, readded>>

Compact(t) ==
    /\ Maintain(t, "compact", "memory", Compacted(stores["memory"]))
    /\ UNCHANGED <<files, missed>>

(* The host drops a generation that was retired, and its file.             *)
PurgeGeneration(t) ==
    \E g \in Generations :
        /\ table[g] = "retired" /\ g # active
        /\ Maintain(t, "purge", "turbovec", WithoutGeneration(stores["turbovec"], g))
        /\ files' = [files EXCEPT ![g] = NoVectors[g]]
        /\ missed' = [missed EXCEPT !["turbovec"][g] = Ids]

Persist(t) ==
    /\ "turbovec" \in Stores
    /\ Begin(t, "persist", IdleCall)
    /\ files' = [g \in Generations |-> stores["turbovec"][g].index]
    /\ UNCHANGED <<storeVars, stores, oplog, table, active, historyVars>>

(* A new process opens the database with a generation of its choice: the   *)
(* calls are lost, the log is not.                                         *)
Restart ==
    /\ restarts < MaxRestarts /\ calls < MaxCalls
    /\ restarts' = restarts + 1 /\ calls' = calls + 1
    /\ stores' = [s \in Stores |-> Reopened(s, stores[s], files)]
    /\ call' = [t \in Threads |-> IdleCall]
    /\ \E g \in Generations : active' = g /\ table' = Opened(g, "active")
    /\ readded' = readded \cup {r \in Ids : IsTombstoned(r) /\ \E s \in Stores :
                                    ContainsId(s, Reopened(s, stores[s], files), r)}
    /\ UNCHANGED <<storeVars, files, oplog, missed>>

-----------------------------------------------------------------------------
HostStep(t) ==
    \/ BeginWrite(t) \/ StoreRow(t) \/ EnqueueUpsert(t) \/ DrainReturns(t)
    \/ BeginDelete(t) \/ TombstoneRecord(t) \/ EnqueueRemoval(t) \/ Answer(t) \/ Verify(t)
    \/ BeginMigration(t) \/ ReadRows(t) \/ ReindexRow(t) \/ Promote(t) \/ Switch(t)
    \/ Compact(t) \/ PurgeGeneration(t) \/ Persist(t)

(* A store as the upserts of the existing records leave it.                *)
Indexed(s) ==
    LET vectors == [r \in Ids |-> IF r \in Existing THEN 0 ELSE NoEntry]
    IN CASE s = "memory" ->
                [vectors |-> [NoVectors EXCEPT ![FirstGeneration] = vectors], deleted |-> {}]
         [] s = "zvec" ->
                [r \in Ids |-> IF r \in Existing
                               THEN [generation |-> FirstGeneration, content |-> 0]
                               ELSE NoDocument]
         [] s = "turbovec" ->
                [Loaded(NoVectors) EXCEPT ![FirstGeneration] =
                    [index |-> vectors, live |-> Existing]]

GenerationsInit ==
    /\ records = [r \in Ids |-> IF r \in Existing THEN [status |-> "active", content |-> 0]
                                ELSE Absent]
    /\ tombstones = [r \in Ids |-> NoTombstone]
    /\ dependencies = {}
    /\ stores = [s \in Stores |-> Indexed(s)]
    /\ files = NoVectors
    /\ oplog = <<>>
    /\ table = [g \in Generations |-> IF g = FirstGeneration THEN "active" ELSE "absent"]
    /\ active = FirstGeneration
    /\ call = [t \in Threads |-> IdleCall]
    /\ calls = 0 /\ restarts = 0
    /\ readded = {}
    /\ missed = [s \in Stores |-> [g \in Generations |-> IF g = FirstGeneration THEN {} ELSE Ids]]

GenerationsNext == (\E t \in Threads : HostStep(t)) \/ ApplyNext \/ Restart

GenerationsSpec == GenerationsInit /\ [][GenerationsNext]_generationsVars

-----------------------------------------------------------------------------
(* Properties                                                              *)

(* Deletion preservation across generations: a record whose deletion was   *)
(* verified is in no generation of any store, unless an index was given    *)
(* its vector again after the tombstone: by a reindex or a write that had  *)
(* looked before it, or by a restart from an older file of the archive.    *)
DeletionPreserved ==
    \A r \in Ids : IsTombstoned(r) /\ tombstones[r].state = "verified" /\ r \notin readded =>
        Gone(r)

AtRest == \A t \in Threads : At(t, "idle")

(* Whatever was migrated, promoted, deleted, compacted and purged before,  *)
(* at rest every search of every store finds the current content of every  *)
(* record in force in the generation recall asks for, but for records it   *)
(* is not owed: written into another generation, or beside its reindex, or *)
(* all of them, if it was not reindexed or its archive was purged since;   *)
(* and of zvec those that were last indexed in another one, as a reindex   *)
(* that is not promoted leaves them.                                       *)
ActiveGenerationServes ==
    AtRest /\ restarts = 0 =>
        \A s \in Stores : \A r \in Ids \ missed[s][active] :
            InForce(r) =>
                /\ Entry(s, stores[s], active, r) = records[r].content
                /\ \A answer \in Found(s, stores[s], active) : r \in answer

(* The archive keeps what a vector store promises, also over a restart     *)
(* from files older than its index: a shadow index under construction      *)
(* changes nothing of what the active generation holds, a removal takes a  *)
(* record out of every generation, and a purged generation does not come   *)
(* back from disk.                                                         *)
Archive ==
    INSTANCE VectorIndex WITH
        held <- [g \in Generations |-> [r \in Ids |->
                    Entry("turbovec", stores["turbovec"], g, r)]],
        saved <- files,
        inUse <- active

ArchiveIsVectorIndex == Archive!Spec

=============================================================================
