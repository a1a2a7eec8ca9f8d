------------------------ MODULE DeletionServiceProofs ------------------------
(***************************************************************************)
(* Proofs about DeletionService for every set of records and jobs, every   *)
(* dependency graph, every queue of upserts and every bound.               *)
(***************************************************************************)
EXTENDS DeletionService, CanonicalStoreProofs

-----------------------------------------------------------------------------
(* Helpers                                                                 *)

(* What the four ways to write a job do to it, and that they leave the     *)
(* other jobs alone.                                                       *)
Others(j) == \A k \in Jobs \ {j} : job'[k] = job[k]

LEMMA GotoJob ==
    ASSUME job \in [Jobs -> JobRecord], NEW j \in Jobs, NEW pc \in JobPcs, Goto(j, pc)
    PROVE  /\ job' \in [Jobs -> JobRecord]
           /\ Others(j)
           /\ job'[j].pc = pc /\ job'[j].todo = job[j].ids
           /\ job'[j].ids = job[j].ids /\ job'[j].mode = job[j].mode
BY DEF Goto, JobRecord, Others

LEMMA TurnJob ==
    ASSUME job \in [Jobs -> JobRecord], NEW j \in Jobs, NEW r \in Ids, NEW pc \in JobPcs,
           Turn(j, r, pc)
    PROVE  /\ job' \in [Jobs -> JobRecord]
           /\ Others(j)
           /\ r \in job[j].todo
           /\ job'[j].ids = job[j].ids /\ job'[j].mode = job[j].mode
           /\ \/ /\ job[j].todo = {r}
                 /\ job'[j].pc = pc /\ job'[j].todo = job[j].ids
              \/ job'[j].pc = job[j].pc /\ job'[j].todo = job[j].todo \ {r}
<1>1. CASE job[j].todo = {r}
    BY <1>1, GotoJob DEF Turn
<1>2. CASE job[j].todo # {r}
    BY <1>2 DEF Turn, JobRecord, Others
<1> QED BY <1>1, <1>2

LEMMA StartJob ==
    ASSUME job \in [Jobs -> JobRecord], NEW j \in Jobs, NEW pc \in JobPcs,
           NEW ids \in SUBSET Ids, NEW m \in Modes, StartPurge(j, pc, ids, m)
    PROVE  /\ job' \in [Jobs -> JobRecord]
           /\ Others(j)
           /\ job'[j].pc = pc /\ job'[j].ids = ids /\ job'[j].todo = ids
           /\ job'[j].mode = m
BY DEF StartPurge, JobRecord, Others

(* The answer of a surface.                                                *)
LEMMA AnsweredJob ==
    ASSUME job \in [Jobs -> JobRecord], NEW j \in Jobs, NEW pc \in JobPcs,
           NEW bad \in SUBSET Ids, job' = [job EXCEPT ![j].pc = pc, ![j].bad = bad]
    PROVE  /\ job' \in [Jobs -> JobRecord]
           /\ Others(j)
           /\ job'[j].pc = pc /\ job'[j].todo = job[j].todo
           /\ job'[j].ids = job[j].ids /\ job'[j].mode = job[j].mode
BY DEF JobRecord, Others

(* Another round after a failure.                                          *)
LEMMA NextRound ==
    ASSUME job \in [Jobs -> JobRecord], NEW j \in Jobs,
           job' = [job EXCEPT ![j].pc = "marking", ![j].todo = job[j].ids,
                              ![j].bad = {}, ![j].attempt = @ + 1]
    PROVE  /\ job' \in [Jobs -> JobRecord]
           /\ Others(j)
           /\ job'[j].pc = "marking" /\ job'[j].todo = job[j].ids
           /\ job'[j].ids = job[j].ids /\ job'[j].mode = job[j].mode
BY DEF JobRecord, JobPcs, Others

-----------------------------------------------------------------------------
(* Types                                                                   *)

(* The rows of a job are tombstones, so they have a mode to retry in.      *)
LEMMA RowsOfJob ==
    ASSUME StoreTypeOK, NEW j \in Jobs, NEW r \in JobRows(j)
    PROVE  r \in Ids /\ IsTombstoned(r) /\ tombstones[r].mode \in Modes
BY DeletionAssumption DEF JobRows, StoreTypeOK, NoTombstone, IsTombstoned, TombstoneRow

LEMMA RequestedIds ==
    ASSUME NEW r \in Ids
    PROVE  {r} \cup DependencyGraph(r) \in SUBSET Ids
BY DEF DependencyGraph

Same(o, p) == o.op_type = p.op_type /\ o.ids = p.ids

LEMMA NewOpTyped ==
    ASSUME NEW type \in {"upsert_index", "remove_index"}, NEW ids \in SUBSET Ids
    PROVE  /\ NewOp(type, ids, 0) \in VectorOp
           /\ NewOp(type, ids, 0).op_type = type /\ NewOp(type, ids, 0).ids = ids
BY DeletionAssumption DEF NewOp, VectorOp

(* An operation that failed keeps what it does and to which records.       *)
LEMMA RetriedOp ==
    ASSUME NEW o \in VectorOp, NEW n \in Nat
    PROVE  /\ [o EXCEPT !.attempts = n, !.backoff = TRUE] \in VectorOp
           /\ Same([o EXCEPT !.attempts = n, !.backoff = TRUE], o)
BY DEF VectorOp, Same

LEMMA QueueOrder ==
    /\ Cardinality(QueuedUpserts) \in Nat
    /\ SetToSeq(QueuedUpserts) \in [1..Cardinality(QueuedUpserts) -> QueuedUpserts]
<1> DEFINE n == Cardinality(QueuedUpserts)
<1>1. IsFiniteSet(QueuedUpserts)
    BY DeletionAssumption, FS_Subset
<1>2. n \in Nat /\ ExistsBijection(1..n, QueuedUpserts)
    BY <1>1, FS_CardinalityType
<1>3. \E g \in [1..n -> QueuedUpserts] : IsInjective(g)
    BY <1>2 DEF ExistsBijection, Bijection, Injection, IsInjective
<1> QED
    BY <1>2, <1>3 DEF SetToSeq

LEMMA DeletionTypeInit == DeletionInit => DeletionTypeOK
<1> SUFFICES ASSUME DeletionInit PROVE DeletionTypeOK
    OBVIOUS
<1> USE DeletionAssumption
<1>0. 0 \in 0..MaxContent
    BY SMT
<1>1. StoreTypeOK
    <2>1. records \in [Ids -> Record \cup {Absent}]
        BY <1>0 DEF DeletionInit, Record, Statuses
    <2>2. tombstones \in [Ids -> TombstoneRow \cup {NoTombstone}]
        BY DEF DeletionInit
    <2>3. dependencies \subseteq Ids \X Ids \X Relations
        BY DEF DeletionInit
    <2> QED BY <2>1, <2>2, <2>3 DEF StoreTypeOK
<1>2. /\ lexical \in [Ids -> 0..MaxContent \cup {NoEntry}]
      /\ vector \in [Ids -> 0..MaxContent \cup {NoEntry}]
      /\ artifacts \subseteq Ids
    <2>1. lexical \in [Ids -> 0..MaxContent \cup {NoEntry}]
        BY <1>0 DEF DeletionInit
    <2>2. vector \in [Ids -> 0..MaxContent \cup {NoEntry}]
        BY <1>0 DEF DeletionInit
    <2>3. artifacts \subseteq Ids
        BY DEF DeletionInit
    <2> QED BY <2>1, <2>2, <2>3
<1>3. oplog \in Seq(VectorOp)
    <2> DEFINE n == Cardinality(QueuedUpserts)
               f == SetToSeq(QueuedUpserts)
    <2>4. n \in Nat /\ f \in [1..n -> QueuedUpserts]
        BY QueueOrder
    <2>5. \A i \in 1..n : [NewOp("upsert_index", {f[i]}, 0)
                              EXCEPT !.attempts = 1, !.backoff = TRUE] \in VectorOp
        <3> HIDE DEF n, f
        <3> TAKE i \in 1..n
        <3>1. {f[i]} \subseteq Ids
            BY <2>4
        <3> QED
            BY <3>1, NewOpTyped, RetriedOp
    <2>6. oplog = [i \in 1..n |-> [NewOp("upsert_index", {f[i]}, 0)
                                      EXCEPT !.attempts = 1, !.backoff = TRUE]]
        BY DEF DeletionInit
    <2> HIDE DEF n, f
    <2>7. oplog \in [1..n -> VectorOp]
        BY <2>5, <2>6
    <2> QED
        BY <2>4, <2>7, SeqDef
<1>4. job \in [Jobs -> JobRecord]
    BY DEF DeletionInit, IdleJob, JobRecord, JobPcs, Modes
<1> QED
    BY <1>1, <1>2, <1>3, <1>4 DEF DeletionInit, DeletionTypeOK

(* The log after a step holds operations it held before, in the same order.*)
Sublog ==
    /\ \A i \in DOMAIN oplog' : \E a \in DOMAIN oplog : Same(oplog'[i], oplog[a])
    /\ \A i, k \in DOMAIN oplog' : i < k =>
        \E a, b \in DOMAIN oplog :
            a < b /\ Same(oplog'[i], oplog[a]) /\ Same(oplog'[k], oplog[b])

LEMMA UpdatedLog ==
    ASSUME oplog \in Seq(VectorOp), NEW i \in DOMAIN oplog, NEW o \in VectorOp,
           Same(o, oplog[i]), oplog' = [oplog EXCEPT ![i] = o]
    PROVE  oplog' \in Seq(VectorOp) /\ Sublog
<1>1. i \in 1..Len(oplog) /\ DOMAIN oplog = 1..Len(oplog)
    BY LenProperties
<1>2. /\ oplog' \in Seq(VectorOp) /\ Len(oplog') = Len(oplog)
      /\ \A k \in 1..Len(oplog) : oplog'[k] = IF k = i THEN o ELSE oplog[k]
    BY <1>1, ExceptSeq
<1>3. DOMAIN oplog' = DOMAIN oplog
    BY <1>1, <1>2, LenProperties
<1>4. \A k \in DOMAIN oplog : Same(oplog'[k], oplog[k])
    BY <1>1, <1>2 DEF Same
<1> QED
    BY <1>2, <1>3, <1>4 DEF Sublog

LEMMA ShortenedLog ==
    ASSUME oplog \in Seq(VectorOp), NEW i \in DOMAIN oplog, oplog' = RemoveAt(oplog, i)
    PROVE  oplog' \in Seq(VectorOp) /\ Sublog
<1>1. i \in 1..Len(oplog) /\ DOMAIN oplog = 1..Len(oplog) /\ Len(oplog) \in Nat
    BY LenProperties
<1>2. /\ oplog' \in Seq(VectorOp) /\ Len(oplog') = Len(oplog) - 1
      /\ \A k \in 1..(Len(oplog) - 1) :
            oplog'[k] = IF k < i THEN oplog[k] ELSE oplog[k + 1]
    BY <1>1, RemoveAtProperties
<1>3. DOMAIN oplog' = 1..(Len(oplog) - 1)
    BY <1>2, LenProperties
<1> DEFINE at(k) == IF k < i THEN k ELSE k + 1
<1>4. \A k \in DOMAIN oplog' : at(k) \in DOMAIN oplog /\ oplog'[k] = oplog[at(k)]
    BY <1>1, <1>2, <1>3
<1>5. \A k, l \in DOMAIN oplog' : k < l => at(k) < at(l)
    BY <1>1, <1>3
<1> HIDE DEF at
<1> QED
    BY <1>2, <1>4, <1>5 DEF Sublog, Same

LEMMA AppliedLog ==
    ASSUME DeletionTypeOK, NEW i \in DOMAIN oplog, ApplyOp(i)
    PROVE  /\ oplog' \in Seq(VectorOp) /\ Sublog
           /\ oplog[i] \in VectorOp
           /\ \E applied \in SUBSET oplog[i].ids : vector' = VectorAfter(oplog[i], applied)
<1>1. oplog \in Seq(VectorOp) /\ oplog[i] \in VectorOp
    BY LenProperties, ElementOfSeq DEF DeletionTypeOK
<1>2. oplog' \in Seq(VectorOp) /\ Sublog
    <2>1. CASE oplog' = RemoveAt(oplog, i)
        BY <1>1, <2>1, ShortenedLog
    <2>2. CASE oplog' = [oplog EXCEPT ![i].attempts = @ + 1, ![i].backoff = TRUE]
        <3> DEFINE o == [oplog[i] EXCEPT !.attempts = @ + 1, !.backoff = TRUE]
        <3>1. oplog[i].attempts + 1 \in Nat
            BY <1>1 DEF VectorOp
        <3>2. o \in VectorOp /\ Same(o, oplog[i])
            BY <1>1, <3>1, RetriedOp
        <3>3. oplog' = [oplog EXCEPT ![i] = o]
            BY <1>1, <2>2, LenProperties
        <3> HIDE DEF o
        <3> QED
            BY <1>1, <3>1, <3>2, <3>3, UpdatedLog
    <2> QED
        BY <2>1, <2>2 DEF ApplyOp
<1>3. \E applied \in SUBSET oplog[i].ids : vector' = VectorAfter(oplog[i], applied)
    BY DEF ApplyOp
<1> QED
    BY <1>1, <1>2, <1>3

LEMMA AppliedTyped ==
    ASSUME DeletionTypeOK, NEW i \in DOMAIN oplog, ApplyOp(i)
    PROVE  DeletionTypeOK'
<1>1. /\ oplog' \in Seq(VectorOp) /\ oplog[i] \in VectorOp
      /\ \E applied \in SUBSET oplog[i].ids : vector' = VectorAfter(oplog[i], applied)
    BY AppliedLog
<1>2. vector' \in [Ids -> 0..MaxContent \cup {NoEntry}]
    BY <1>1 DEF VectorAfter, VectorOp, DeletionTypeOK
<1>3. vectorFailures' \in Nat
    BY DEF ApplyOp, DeletionTypeOK
<1> QED
    BY <1>1, <1>2, <1>3 DEF ApplyOp, storeVars, DeletionTypeOK, StoreTypeOK

LEMMA ExpiredLog ==
    ASSUME DeletionTypeOK, NEW i \in DOMAIN oplog, OpBackoffExpires(i)
    PROVE  oplog' \in Seq(VectorOp) /\ Sublog
<1>1. oplog \in Seq(VectorOp) /\ oplog[i] \in VectorOp
    BY LenProperties, ElementOfSeq DEF DeletionTypeOK
<1> DEFINE o == [oplog[i] EXCEPT !.backoff = FALSE]
<1>2. o \in VectorOp /\ Same(o, oplog[i])
    BY <1>1 DEF VectorOp, Same
<1>3. oplog' = [oplog EXCEPT ![i] = o]
    BY <1>1, LenProperties DEF OpBackoffExpires
<1> HIDE DEF o
<1> QED
    BY <1>1, <1>2, <1>3, UpdatedLog

LEMMA EnqueuedLog ==
    ASSUME DeletionTypeOK, NEW j \in Jobs, EnqueueRemove(j)
    PROVE  /\ oplog' \in Seq(VectorOp)
           /\ Len(oplog') = Len(oplog) + 1
           /\ \A i \in 1..Len(oplog) : oplog'[i] = oplog[i]
           /\ oplog'[Len(oplog) + 1].op_type = "remove_index"
           /\ oplog'[Len(oplog) + 1].ids = job[j].ids
<1> DEFINE o == NewOp("remove_index", job[j].ids, 0)
<1>1. o \in VectorOp /\ o.op_type = "remove_index" /\ o.ids = job[j].ids
    BY NewOpTyped DEF DeletionTypeOK, JobRecord
<1>2. oplog \in Seq(VectorOp) /\ oplog' = Append(oplog, o)
    BY DEF DeletionTypeOK, EnqueueRemove
<1> HIDE DEF o
<1> QED
    BY <1>1, <1>2, AppendProperties

LEMMA DeletionTypeStep == DeletionTypeOK /\ [DeletionNext]_deletionVars => DeletionTypeOK'
<1> SUFFICES ASSUME DeletionTypeOK, [DeletionNext]_deletionVars PROVE DeletionTypeOK'
    OBVIOUS
<1> USE DeletionAssumption
<1>t. /\ StoreTypeOK
      /\ lexical \in [Ids -> 0..MaxContent \cup {NoEntry}]
      /\ vector \in [Ids -> 0..MaxContent \cup {NoEntry}]
      /\ artifacts \subseteq Ids
      /\ oplog \in Seq(VectorOp)
      /\ job \in [Jobs -> JobRecord]
      /\ vectorFailures \in Nat /\ interrupts \in Nat /\ jobRetries \in Nat
    BY DEF DeletionTypeOK
(* A step of a job that writes neither the store nor the log.              *)
<1>j. ASSUME UNCHANGED <<storeVars, oplog, countVars>>, job' \in [Jobs -> JobRecord],
             /\ lexical' \in [Ids -> 0..MaxContent \cup {NoEntry}]
             /\ vector' \in [Ids -> 0..MaxContent \cup {NoEntry}]
             /\ artifacts' \subseteq Ids
      PROVE  DeletionTypeOK'
    BY <1>t, <1>j DEF storeVars, countVars, DeletionTypeOK, StoreTypeOK
(* A step of a job that writes the store only.                             *)
<1>s. ASSUME UNCHANGED <<surfaceVars, oplog, countVars>>, job' \in [Jobs -> JobRecord],
             StoreTypeOK'
      PROVE  DeletionTypeOK'
    BY <1>t, <1>s DEF surfaceVars, countVars, DeletionTypeOK
<1>i. \A j \in Jobs : /\ job[j] \in JobRecord /\ job[j].mode \in Modes
                      /\ job[j].ids \subseteq Ids
    BY <1>t DEF JobRecord
<1>p. {"tombstoning", "marking", "lexical", "checking", "enqueueing", "draining", "answering",
       "artifacts", "erasing", "rebuilding", "verifying", "verified", "failing", "done",
       "raised"} \subseteq JobPcs
    BY DEF JobPcs
<1>d. {"canonical_tombstoned", "index_deleting", "partial_failure", "verified",
       "manual_attention"} \subseteq DeletionStates
    BY DEF DeletionStates
<1>1. ASSUME NEW j \in Jobs, NEW r \in Ids, NEW m \in RequestModes, RequestDeletion(j, r, m)
      PROVE  DeletionTypeOK'
    <2>1. m \in Modes
        OBVIOUS
    <2>2. job' \in [Jobs -> JobRecord]
        BY <1>1, <1>t, <1>p, <2>1, RequestedIds, StartJob DEF RequestDeletion
    <2> QED
        BY <1>1, <1>j, <1>t, <2>2 DEF RequestDeletion, surfaceVars
<1>2. ASSUME NEW j \in Jobs, TombstoneOne(j) PROVE DeletionTypeOK'
    <2>1. PICK r \in Ids : Turn(j, r, "marking") /\ Tombstone(r, job[j].mode, j)
        BY <1>2 DEF TombstoneOne
    <2>2. job' \in [Jobs -> JobRecord]
        BY <1>t, <1>p, <2>1, TurnJob
    <2>3. StoreTypeOK'
        BY <1>i, <1>t, <2>1, TombstoneTyped
    <2> QED
        BY <1>2, <1>s, <2>2, <2>3 DEF TombstoneOne
<1>3. ASSUME NEW j \in Jobs, MarkDeleting(j) PROVE DeletionTypeOK'
    <2>1. PICK r \in Ids : Turn(j, r, "lexical") /\ SetTombstoneState(r, "index_deleting")
        BY <1>3 DEF MarkDeleting
    <2>2. job' \in [Jobs -> JobRecord]
        BY <1>t, <1>p, <2>1, TurnJob
    <2>3. StoreTypeOK'
        BY <1>t, <1>d, <2>1, SetStateTyped
    <2> QED
        BY <1>3, <1>s, <2>2, <2>3 DEF MarkDeleting
<1>4. ASSUME NEW j \in Jobs, PurgeLexical(j) PROVE DeletionTypeOK'
    <2>1. job' \in [Jobs -> JobRecord]
        BY <1>4, <1>t, <1>p, GotoJob DEF PurgeLexical
    <2>2. lexical' \in [Ids -> 0..MaxContent \cup {NoEntry}]
        BY <1>4, <1>t DEF PurgeLexical, Removed
    <2> QED
        BY <1>4, <1>j, <1>t, <2>1, <2>2 DEF PurgeLexical
<1>5. ASSUME NEW j \in Jobs, CheckLexical(j) PROVE DeletionTypeOK'
    <2>1. Contained(lexical, job[j].ids) \subseteq Ids
        BY <1>i DEF Contained
    <2>2. job' \in [Jobs -> JobRecord]
        BY <1>5, <1>t, <1>p, <2>1, AnsweredJob DEF CheckLexical
    <2> QED
        BY <1>5, <1>j, <1>t, <2>2 DEF CheckLexical, surfaceVars
<1>6. ASSUME NEW j \in Jobs, EnqueueRemove(j) PROVE DeletionTypeOK'
    <2>1. job' \in [Jobs -> JobRecord]
        BY <1>6, <1>t, <1>p, GotoJob DEF EnqueueRemove
    <2>2. oplog' \in Seq(VectorOp)
        BY <1>6, EnqueuedLog
    <2> QED
        BY <1>6, <1>t, <2>1, <2>2
        DEF EnqueueRemove, storeVars, surfaceVars, countVars, DeletionTypeOK, StoreTypeOK
<1>7. ASSUME NEW j \in Jobs, Drained(j) PROVE DeletionTypeOK'
    <2>1. job' \in [Jobs -> JobRecord]
        BY <1>7, <1>t, <1>p, GotoJob DEF Drained
    <2> QED
        BY <1>7, <1>j, <1>t, <2>1 DEF Drained, surfaceVars
<1>8. ASSUME NEW j \in Jobs, AnswerVector(j) PROVE DeletionTypeOK'
    <2>1. job[j].bad \cup Contained(vector, job[j].ids) \in SUBSET Ids
        BY <1>i DEF Contained, JobRecord
    <2>2. job' = [job EXCEPT ![j].pc = "artifacts",
                             ![j].bad = job[j].bad \cup Contained(vector, job[j].ids)]
        BY <1>8, <1>t DEF AnswerVector
    <2>3. job' \in [Jobs -> JobRecord]
        BY <1>t, <1>p, <2>1, <2>2, AnsweredJob
    <2> QED
        BY <1>8, <1>j, <1>t, <2>3 DEF AnswerVector, surfaceVars
<1>9. ASSUME NEW j \in Jobs, PurgeArtifacts(j) PROVE DeletionTypeOK'
    <2>1. \E pc \in JobPcs : Goto(j, pc)
        BY <1>9, <1>p DEF PurgeArtifacts
    <2>2. job' \in [Jobs -> JobRecord]
        BY <1>t, <2>1, GotoJob
    <2> QED
        BY <1>9, <1>j, <1>t, <2>2 DEF PurgeArtifacts
<1>10. ASSUME NEW j \in Jobs, EraseOne(j) PROVE DeletionTypeOK'
    <2>1. PICK r \in Ids : Turn(j, r, "rebuilding") /\ HardDelete(r)
        BY <1>10 DEF EraseOne
    <2>2. job' \in [Jobs -> JobRecord]
        BY <1>t, <1>p, <2>1, TurnJob
    <2>3. StoreTypeOK'
        BY <1>t, <2>1, HardDeleteTyped
    <2> QED
        BY <1>10, <1>s, <2>2, <2>3 DEF EraseOne
<1>11. ASSUME NEW j \in Jobs, RebuildLexical(j) PROVE DeletionTypeOK'
    <2>1. job' \in [Jobs -> JobRecord]
        BY <1>11, <1>t, <1>p, GotoJob DEF RebuildLexical
    <2>2. lexical' \in [Ids -> 0..MaxContent \cup {NoEntry}]
        BY <1>11, <1>t DEF RebuildLexical, RebuiltPostings, Exists, StoreTypeOK, Record
    <2> QED
        BY <1>11, <1>j, <1>t, <2>1, <2>2 DEF RebuildLexical
<1>12. ASSUME NEW j \in Jobs, Verify(j) PROVE DeletionTypeOK'
    <2>1. \E pc \in JobPcs : Goto(j, pc)
        BY <1>12, <1>p DEF Verify
    <2>2. job' \in [Jobs -> JobRecord]
        BY <1>t, <2>1, GotoJob
    <2> QED
        BY <1>12, <1>j, <1>t, <2>2 DEF Verify, surfaceVars
<1>13. ASSUME NEW j \in Jobs, MarkVerified(j) PROVE DeletionTypeOK'
    <2>1. PICK r \in Ids : Turn(j, r, "done") /\ SetTombstoneState(r, "verified")
        BY <1>13 DEF MarkVerified
    <2>2. job' \in [Jobs -> JobRecord]
        BY <1>t, <1>p, <2>1, TurnJob
    <2>3. StoreTypeOK'
        BY <1>t, <1>d, <2>1, SetStateTyped
    <2> QED
        BY <1>13, <1>s, <2>2, <2>3 DEF MarkVerified
<1>14. ASSUME NEW j \in Jobs, MarkFailed(j) PROVE DeletionTypeOK'
    <2>1. PICK r \in Ids :
            /\ SetTombstoneState(r, FailureState(j))
            /\ IF job[j].todo = {r} /\ RetriesLeft(j)
               THEN job' = [job EXCEPT ![j].pc = "marking", ![j].todo = job[j].ids,
                                       ![j].bad = {}, ![j].attempt = @ + 1]
               ELSE Turn(j, r, "done")
        BY <1>14 DEF MarkFailed
    <2>2. job' \in [Jobs -> JobRecord]
        <3>1. CASE Turn(j, r, "done")
            BY <1>t, <1>p, <3>1, TurnJob
        <3>2. CASE ~Turn(j, r, "done")
            BY <1>t, <1>p, <2>1, <3>2, NextRound
        <3> QED BY <3>1, <3>2
    <2>3. StoreTypeOK'
        BY <1>t, <1>d, <2>1, SetStateTyped DEF FailureState
    <2> QED
        BY <1>14, <1>s, <2>2, <2>3 DEF MarkFailed
<1>15. ASSUME NEW j \in Jobs, RetryJob(j) PROVE DeletionTypeOK'
    <2>1. PICK first \in JobRows(j) :
            StartPurge(j, "marking", JobRows(j), tombstones[first].mode)
        BY <1>15 DEF RetryJob
    <2>2. job' \in [Jobs -> JobRecord]
        <3>1. JobRows(j) \in SUBSET Ids
            BY DEF JobRows
        <3>2. tombstones[first].mode \in Modes
            BY <1>t, RowsOfJob
        <3> QED
            BY <1>t, <1>p, <2>1, <3>1, <3>2, StartJob
    <2>3. UNCHANGED <<storeVars, surfaceVars, oplog, vectorFailures, interrupts>>
          /\ jobRetries' = jobRetries + 1
        BY <1>15 DEF RetryJob
    <2> QED
        BY <1>t, <2>2, <2>3 DEF storeVars, surfaceVars, DeletionTypeOK, StoreTypeOK
<1>16. ASSUME NEW j \in Jobs, Interrupt(j) PROVE DeletionTypeOK'
    <2>1. job' \in [Jobs -> JobRecord]
        BY <1>16, <1>t, <1>p, GotoJob DEF Interrupt
    <2> QED
        BY <1>16, <1>t, <2>1 DEF Interrupt, storeVars, surfaceVars, DeletionTypeOK, StoreTypeOK
<1>17. ASSUME NEW i \in DOMAIN oplog, ApplyOp(i) PROVE DeletionTypeOK'
    BY <1>17, AppliedTyped
<1>18. ASSUME NEW i \in DOMAIN oplog, OpBackoffExpires(i) PROVE DeletionTypeOK'
    <2>1. oplog' \in Seq(VectorOp)
        BY <1>18, ExpiredLog
    <2> QED
        BY <1>18, <1>t, <2>1
        DEF OpBackoffExpires, storeVars, surfaceVars, countVars, DeletionTypeOK, StoreTypeOK
<1>19. CASE UNCHANGED deletionVars
    BY <1>19, <1>t
    DEF deletionVars, storeVars, surfaceVars, countVars, DeletionTypeOK, StoreTypeOK
<1> QED
    BY <1>1, <1>2, <1>3, <1>4, <1>5, <1>6, <1>7, <1>8, <1>9, <1>10, <1>11, <1>12, <1>13,
       <1>14, <1>15, <1>16, <1>17, <1>18, <1>19
    DEF DeletionNext, DeletionStep, JobStep, RequestSomeDeletion, ApplySomeOp,
        ExpireSomeBackoff

(* Every variable keeps its type: no interleaving of jobs, failures and    *)
(* retries leaves a row, an operation or a job the code could not read, or *)
(* a deletion state the schema does not have.                              *)
THEOREM DeletionTypeCorrect == DeletionSpec => []DeletionTypeOK
<1> QED
    BY DeletionTypeInit, DeletionTypeStep, PTL DEF DeletionSpec

-----------------------------------------------------------------------------
(* Canonical first                                                         *)

(* A job past its tombstoning loop has tombstoned all its records, and one *)
(* inside it those it is done with.  An exception may end the loop early,  *)
(* so of a job that raised nothing is known.                               *)
JobsTombstone ==
    \A j \in Jobs :
        /\ job[j].todo \subseteq job[j].ids
        /\ At(j, "tombstoning") => \A r \in job[j].ids \ job[j].todo : IsTombstoned(r)
        /\ job[j].pc \notin {"idle", "tombstoning", "raised"} =>
                \A r \in job[j].ids : IsTombstoned(r)

(* A removal outlives the job that enqueued it.                            *)
RemovalsTombstoned ==
    \A i \in DOMAIN oplog :
        oplog[i].op_type = "remove_index" => \A r \in oplog[i].ids : IsTombstoned(r)

(* A posting without a row is that of an erased record: a rebuild drops it.*)
PostingsHaveRows ==
    \A r \in Ids : lexical[r] # NoEntry => Exists(r) \/ IsTombstoned(r)

JobsInv == DeletionTypeOK /\ JobsTombstone

(* No step takes a tombstone away.                                         *)
TombstonesStay == \A r \in Ids : IsTombstoned(r) => IsTombstoned(r)'

(* Rows, and edges with them, are lost of tombstoned records only.         *)
StoreMove ==
    /\ TombstonesStay
    /\ \A r \in Ids : Exists(r) /\ ~Exists(r)' => IsTombstoned(r)
    /\ \A e \in dependencies : \/ e \in dependencies'
                               \/ IsTombstoned(e[1]) \/ IsTombstoned(e[2])

(* A job whose records are tombstoned may go anywhere with them.           *)
LEMMA JobGoesOn ==
    ASSUME JobsInv, TombstonesStay, NEW j \in Jobs, Others(j),
           job[j].pc \notin {"idle", "tombstoning", "raised"},
           job'[j].ids = job[j].ids, job'[j].todo \subseteq job[j].ids
    PROVE  JobsTombstone'
<1> SUFFICES ASSUME NEW k \in Jobs
             PROVE  /\ job'[k].todo \subseteq job'[k].ids
                    /\ At(k, "tombstoning")' =>
                            \A r \in job'[k].ids \ job'[k].todo : IsTombstoned(r)'
                    /\ job'[k].pc \notin {"idle", "tombstoning", "raised"} =>
                            \A r \in job'[k].ids : IsTombstoned(r)'
    BY DEF JobsTombstone
<1>1. job[k].ids \subseteq Ids
    BY DEF JobsInv, DeletionTypeOK, JobRecord
<1>2. CASE k = j
    BY <1>1, <1>2 DEF JobsInv, JobsTombstone, TombstonesStay
<1>3. CASE k # j
    BY <1>1, <1>3 DEF JobsInv, JobsTombstone, TombstonesStay, Others, At
<1> QED
    BY <1>2, <1>3

(* A step in which no job is.                                              *)
LEMMA JobsStay ==
    ASSUME JobsInv, TombstonesStay, job' = job
    PROVE  JobsTombstone'
BY DEF JobsInv, DeletionTypeOK, JobRecord, JobsTombstone, TombstonesStay, At

LEMMA JobsStep == JobsInv /\ [DeletionNext]_deletionVars => JobsInv' /\ StoreMove
<1> SUFFICES ASSUME JobsInv, [DeletionNext]_deletionVars PROVE JobsInv' /\ StoreMove
    OBVIOUS
<1> DEFINE Goal == JobsTombstone' /\ StoreMove
<1>o. DeletionTypeOK /\ DeletionTypeOK'
    BY DeletionTypeStep DEF JobsInv
<1>t. /\ StoreTypeOK
      /\ job \in [Jobs -> JobRecord]
      /\ \A j \in Jobs : job[j] \in JobRecord /\ job[j].mode \in Modes /\ job[j].ids \subseteq Ids
    BY <1>o DEF DeletionTypeOK, JobRecord
<1>i. \A j \in Jobs : job[j].todo \subseteq job[j].ids
    BY DEF JobsInv, JobsTombstone
<1>p. {"tombstoning", "marking", "lexical", "checking", "enqueueing", "draining", "answering",
       "artifacts", "erasing", "rebuilding", "verifying", "verified", "failing", "done",
       "raised"} \subseteq JobPcs
    BY DEF JobPcs
(* A job whose records are tombstoned goes on with them.                   *)
<1>g. ASSUME NEW j \in Jobs, job[j].pc \notin {"idle", "tombstoning", "raised"},
             TombstonesStay, NEW pc \in JobPcs,
             \/ Goto(j, pc)
             \/ \E r \in Ids : Turn(j, r, pc)
             \/ \E bad \in SUBSET Ids : job' = [job EXCEPT ![j].pc = pc, ![j].bad = bad]
      PROVE  JobsTombstone'
    <2>1. Others(j) /\ job'[j].ids = job[j].ids /\ job'[j].todo \subseteq job[j].ids
        <3>1. CASE Goto(j, pc)
            BY <1>t, <3>1, GotoJob
        <3>2. ASSUME NEW r \in Ids, Turn(j, r, pc)
              PROVE  Others(j) /\ job'[j].ids = job[j].ids /\ job'[j].todo \subseteq job[j].ids
            BY <1>i, <1>t, <3>2, TurnJob
        <3>3. ASSUME NEW bad \in SUBSET Ids, job' = [job EXCEPT ![j].pc = pc, ![j].bad = bad]
              PROVE  Others(j) /\ job'[j].ids = job[j].ids /\ job'[j].todo \subseteq job[j].ids
            BY <1>i, <1>t, <3>3, AnsweredJob
        <3> QED
            BY <1>g, <3>1, <3>2, <3>3
    <2> QED
        BY <1>g, <2>1, JobGoesOn
<1>s. ASSUME UNCHANGED storeVars PROVE StoreMove
    BY <1>s DEF storeVars, StoreMove, TombstonesStay, IsTombstoned, Exists
<1>m. ASSUME NEW r \in Ids, NEW st \in DeletionStates, SetTombstoneState(r, st) PROVE StoreMove
    BY <1>m, <1>t, SetStateTyped DEF StoreMove, TombstonesStay, SetTombstoneState, Exists
<1>1. ASSUME NEW j \in Jobs, NEW r \in Ids, NEW m \in RequestModes, RequestDeletion(j, r, m)
      PROVE  Goal
    <2>1. /\ Others(j) /\ job'[j].pc = "tombstoning" /\ job'[j].todo = job'[j].ids
        BY <1>1, <1>p, <1>t, RequestedIds, StartJob, DeletionAssumption DEF RequestDeletion
    <2>2. JobsTombstone'
        BY <1>1, <2>1
        DEF RequestDeletion, storeVars, JobsInv, JobsTombstone, Others, At, IsTombstoned
    <2> QED
        BY <1>1, <1>s, <2>2 DEF RequestDeletion
<1>2. ASSUME NEW j \in Jobs, TombstoneOne(j) PROVE Goal
    <2>1. PICK r \in Ids : Turn(j, r, "marking") /\ Tombstone(r, job[j].mode, j)
        BY <1>2 DEF TombstoneOne
    <2>2. /\ TombstonesStay /\ IsTombstoned(r)'
          /\ \A x \in Ids : Exists(x)' <=> Exists(x)
        BY <1>t, <2>1, TombstoneTyped DEF TombstonesStay, IsTombstoned
    <2>3. /\ Others(j) /\ job'[j].ids = job[j].ids
          /\ \/ /\ job'[j].pc = "marking" /\ job'[j].todo = job[j].ids
                /\ job[j].todo = {r}
             \/ job'[j].pc = "tombstoning" /\ job'[j].todo = job[j].todo \ {r}
        BY <1>2, <1>p, <1>t, <2>1, TurnJob DEF TombstoneOne, At
    <2>4. \A x \in job[j].ids \ job[j].todo : IsTombstoned(x)
        BY <1>2 DEF TombstoneOne, JobsInv, JobsTombstone
    <2>5. JobsTombstone'
        <3> SUFFICES ASSUME NEW k \in Jobs
                     PROVE  /\ job'[k].todo \subseteq job'[k].ids
                            /\ At(k, "tombstoning")' =>
                                 \A x \in job'[k].ids \ job'[k].todo : IsTombstoned(x)'
                            /\ job'[k].pc \notin {"idle", "tombstoning", "raised"} =>
                                 \A x \in job'[k].ids : IsTombstoned(x)'
            BY DEF JobsTombstone
        <3>1. CASE k = j
            BY <1>i, <1>t, <2>2, <2>3, <2>4, <3>1 DEF TombstonesStay, At
        <3>2. CASE k # j
            BY <1>t, <2>2, <2>3, <3>2 DEF JobsInv, JobsTombstone, TombstonesStay, Others, At
        <3> QED BY <3>1, <3>2
    <2>6. StoreMove
        BY <2>1, <2>2 DEF StoreMove, Tombstone
    <2> QED
        BY <2>5, <2>6
<1>3. ASSUME NEW j \in Jobs, MarkDeleting(j) PROVE Goal
    <2>1. PICK r \in Ids : Turn(j, r, "lexical") /\ SetTombstoneState(r, "index_deleting")
        BY <1>3 DEF MarkDeleting
    <2>2. StoreMove
        BY <1>m, <2>1 DEF DeletionStates
    <2> QED
        BY <1>3, <1>g, <1>p, <2>1, <2>2 DEF MarkDeleting, At, StoreMove
<1>4. ASSUME NEW j \in Jobs, PurgeLexical(j) PROVE Goal
    BY <1>4, <1>g, <1>p, <1>s DEF PurgeLexical, At, StoreMove
<1>5. ASSUME NEW j \in Jobs, CheckLexical(j) PROVE Goal
    <2>1. Contained(lexical, job[j].ids) \in SUBSET Ids
        BY <1>t DEF Contained
    <2> QED
        BY <1>5, <1>g, <1>p, <1>s, <2>1 DEF CheckLexical, At, StoreMove
<1>6. ASSUME NEW j \in Jobs, EnqueueRemove(j) PROVE Goal
    BY <1>6, <1>g, <1>p, <1>s DEF EnqueueRemove, At, StoreMove
<1>7. ASSUME NEW j \in Jobs, Drained(j) PROVE Goal
    BY <1>7, <1>g, <1>p, <1>s DEF Drained, At, StoreMove
<1>8. ASSUME NEW j \in Jobs, AnswerVector(j) PROVE Goal
    <2>1. job[j].bad \cup Contained(vector, job[j].ids) \in SUBSET Ids
        BY <1>t DEF Contained, JobRecord
    <2>2. job' = [job EXCEPT ![j].pc = "artifacts",
                             ![j].bad = job[j].bad \cup Contained(vector, job[j].ids)]
        BY <1>8, <1>t DEF AnswerVector
    <2> QED
        BY <1>8, <1>g, <1>p, <1>s, <2>1, <2>2 DEF AnswerVector, At, StoreMove
<1>9. ASSUME NEW j \in Jobs, PurgeArtifacts(j) PROVE Goal
    <2>1. \E pc \in JobPcs : Goto(j, pc)
        BY <1>9, <1>p DEF PurgeArtifacts
    <2> QED
        BY <1>9, <1>g, <1>s, <2>1 DEF PurgeArtifacts, At, JobRecord, StoreMove
<1>10. ASSUME NEW j \in Jobs, EraseOne(j) PROVE Goal
    <2>1. PICK r \in Ids : Turn(j, r, "rebuilding") /\ HardDelete(r)
        BY <1>10 DEF EraseOne
    <2>2. /\ TombstonesStay /\ \A x \in Ids \ {r} : Exists(x)' <=> Exists(x)
        BY <1>t, <2>1, HardDeleteTyped DEF TombstonesStay, IsTombstoned, Exists
    <2>3. IsTombstoned(r)
        BY <1>10, <1>i, <2>1 DEF EraseOne, At, Turn, JobsInv, JobsTombstone
    <2>4. \A e \in dependencies : e \in dependencies' \/ e[1] = r \/ e[2] = r
        BY <2>1 DEF HardDelete
    <2>5. StoreMove
        BY <2>2, <2>3, <2>4 DEF StoreMove
    <2> QED
        BY <1>10, <1>g, <1>p, <2>1, <2>2, <2>5 DEF EraseOne, At
<1>11. ASSUME NEW j \in Jobs, RebuildLexical(j) PROVE Goal
    BY <1>11, <1>g, <1>p, <1>s DEF RebuildLexical, At, StoreMove
<1>12. ASSUME NEW j \in Jobs, Verify(j) PROVE Goal
    <2>1. \E pc \in JobPcs : Goto(j, pc)
        BY <1>12, <1>p DEF Verify
    <2> QED
        BY <1>12, <1>g, <1>s, <2>1 DEF Verify, At, JobRecord, StoreMove
<1>13. ASSUME NEW j \in Jobs, MarkVerified(j) PROVE Goal
    <2>1. PICK r \in Ids : Turn(j, r, "done") /\ SetTombstoneState(r, "verified")
        BY <1>13 DEF MarkVerified
    <2>2. StoreMove
        BY <1>m, <2>1 DEF DeletionStates
    <2> QED
        BY <1>13, <1>g, <1>p, <2>1, <2>2 DEF MarkVerified, At, StoreMove
<1>14. ASSUME NEW j \in Jobs, MarkFailed(j) PROVE Goal
    <2>1. PICK r \in Ids :
            /\ SetTombstoneState(r, FailureState(j))
            /\ IF job[j].todo = {r} /\ RetriesLeft(j)
               THEN job' = [job EXCEPT ![j].pc = "marking", ![j].todo = job[j].ids,
                                       ![j].bad = {}, ![j].attempt = @ + 1]
               ELSE Turn(j, r, "done")
        BY <1>14 DEF MarkFailed
    <2>2. StoreMove
        BY <1>m, <2>1 DEF DeletionStates, FailureState
    <2>3. Others(j) /\ job'[j].ids = job[j].ids /\ job'[j].todo \subseteq job[j].ids
        <3>1. CASE Turn(j, r, "done")
            BY <1>i, <1>p, <1>t, <3>1, TurnJob
        <3>2. CASE ~Turn(j, r, "done")
            BY <1>t, <2>1, <3>2, NextRound
        <3> QED BY <3>1, <3>2
    <2> QED
        BY <1>14, <2>2, <2>3, JobGoesOn DEF MarkFailed, At, StoreMove
<1>15. ASSUME NEW j \in Jobs, RetryJob(j) PROVE Goal
    <2>1. PICK first \in JobRows(j) :
            StartPurge(j, "marking", JobRows(j), tombstones[first].mode)
        BY <1>15 DEF RetryJob
    <2>2. JobRows(j) \in SUBSET Ids /\ tombstones[first].mode \in Modes
        BY <1>t, RowsOfJob DEF JobRows
    <2>3. Others(j) /\ job'[j].ids = JobRows(j) /\ job'[j].todo = JobRows(j)
          /\ job'[j].pc = "marking"
        BY <1>p, <1>t, <2>1, <2>2, StartJob
    <2>4. \A r \in JobRows(j) : IsTombstoned(r)
        BY <1>t, RowsOfJob
    <2>5. JobsTombstone'
        BY <1>15, <2>3, <2>4
        DEF RetryJob, storeVars, JobsInv, JobsTombstone, Others, At, IsTombstoned
    <2> QED
        BY <1>15, <1>s, <2>5 DEF RetryJob
<1>16. ASSUME NEW j \in Jobs, Interrupt(j) PROVE Goal
    <2>1. /\ Others(j) /\ job'[j].ids = job[j].ids /\ job'[j].todo = job[j].ids
          /\ job'[j].pc = "raised"
        BY <1>16, <1>p, <1>t, GotoJob DEF Interrupt
    <2>2. JobsTombstone'
        BY <1>16, <2>1 DEF Interrupt, storeVars, JobsInv, JobsTombstone, Others, At, IsTombstoned
    <2> QED
        BY <1>16, <1>s, <2>2 DEF Interrupt
<1>17. ASSUME NEW i \in DOMAIN oplog, ApplyOp(i) PROVE Goal
    BY <1>17, <1>s, JobsStay DEF ApplyOp, StoreMove
<1>18. ASSUME NEW i \in DOMAIN oplog, OpBackoffExpires(i) PROVE Goal
    BY <1>18, <1>s, JobsStay DEF OpBackoffExpires, StoreMove
<1>19. ASSUME UNCHANGED deletionVars PROVE Goal
    BY <1>19, <1>s, JobsStay DEF deletionVars, StoreMove
<1> HIDE DEF Goal
<1>20. Goal
    BY <1>1, <1>2, <1>3, <1>4, <1>5, <1>6, <1>7, <1>8, <1>9, <1>10, <1>11, <1>12, <1>13,
       <1>14, <1>15, <1>16, <1>17, <1>18, <1>19
    DEF DeletionNext, DeletionStep, JobStep, RequestSomeDeletion, ApplySomeOp,
        ExpireSomeBackoff
<1> QED
    BY <1>o, <1>20 DEF JobsInv, Goal

FirstInv == DeletionTypeOK /\ JobsTombstone /\ RemovalsTombstoned /\ PostingsHaveRows

LEMMA FirstInit == DeletionInit => FirstInv
<1> SUFFICES ASSUME DeletionInit PROVE FirstInv
    OBVIOUS
<1>1. DeletionTypeOK
    BY DeletionTypeInit
<1>2. JobsTombstone
    BY DEF DeletionInit, JobsTombstone, IdleJob, At
<1>3. RemovalsTombstoned
    BY DEF DeletionInit, RemovalsTombstoned, NewOp
<1>4. PostingsHaveRows
    BY DEF DeletionInit, PostingsHaveRows
<1> QED
    BY <1>1, <1>2, <1>3, <1>4 DEF FirstInv

LEMMA RemovalsStay ==
    ASSUME FirstInv, TombstonesStay, Sublog
    PROVE  RemovalsTombstoned'
<1> SUFFICES ASSUME NEW i \in DOMAIN oplog', oplog'[i].op_type = "remove_index",
                    NEW r \in oplog'[i].ids
             PROVE  IsTombstoned(r)'
    BY DEF RemovalsTombstoned
<1>1. PICK a \in DOMAIN oplog : Same(oplog'[i], oplog[a])
    BY DEF Sublog
<1>2. oplog[a] \in VectorOp
    BY LenProperties, ElementOfSeq DEF FirstInv, DeletionTypeOK
<1>3. r \in Ids /\ IsTombstoned(r)
    BY <1>1, <1>2 DEF Same, FirstInv, RemovalsTombstoned, VectorOp
<1> QED
    BY <1>3 DEF TombstonesStay

LEMMA SameLog == oplog' = oplog => Sublog
BY DEF Sublog, Same

(* A step that adds no posting and erases tombstoned rows only.            *)
LEMMA PostingsStay ==
    ASSUME FirstInv, StoreMove,
           \A r \in Ids : lexical'[r] # NoEntry => lexical[r] # NoEntry \/ Exists(r)
    PROVE  PostingsHaveRows'
BY DEF FirstInv, PostingsHaveRows, StoreMove, TombstonesStay

(* What a step leaves in the indexes, or takes from tombstoned records.    *)
CanonicalStep ==
    \A r \in Ids :
        \/ (InSurface(r) /\ ~InSurface(r)')
        \/ (lexical[r] # NoEntry /\ lexical'[r] = NoEntry)
        \/ (Exists(r) /\ ~Exists(r)')
            => IsTombstoned(r)

LEMMA FirstStep ==
    FirstInv /\ [DeletionNext]_deletionVars => FirstInv' /\ CanonicalStep
<1> SUFFICES ASSUME FirstInv, [DeletionNext]_deletionVars PROVE FirstInv' /\ CanonicalStep
    OBVIOUS
<1> DEFINE Goal == RemovalsTombstoned' /\ PostingsHaveRows' /\ CanonicalStep
<1>o. DeletionTypeOK /\ DeletionTypeOK' /\ JobsTombstone' /\ StoreMove
    BY JobsStep DEF FirstInv, JobsInv
<1>t. StoreTypeOK /\ \A j \in Jobs : job[j].ids \subseteq Ids
    BY <1>o DEF DeletionTypeOK, JobRecord
<1>a. ASSUME NEW j \in Jobs, job[j].pc \notin {"idle", "tombstoning", "raised"}
      PROVE  \A r \in job[j].ids : IsTombstoned(r)
    BY <1>a DEF FirstInv, JobsTombstone
(* Most steps touch no surface.                                            *)
<1>q. ASSUME oplog' = oplog \/ Sublog, UNCHANGED surfaceVars PROVE Goal
    <2>1. RemovalsTombstoned'
        BY <1>o, <1>q, RemovalsStay, SameLog DEF StoreMove
    <2>2. PostingsHaveRows'
        BY <1>o, <1>q, PostingsStay DEF surfaceVars
    <2>3. CanonicalStep
        BY <1>o, <1>q DEF CanonicalStep, StoreMove, surfaceVars, InSurface
    <2> QED
        BY <2>1, <2>2, <2>3
(* Or take from the surfaces what is tombstoned.                           *)
<1>r. ASSUME oplog' = oplog \/ Sublog,
             \A r \in Ids : lexical'[r] # NoEntry => lexical[r] # NoEntry \/ Exists(r),
             \A r \in Ids :
                \/ lexical[r] # NoEntry /\ lexical'[r] = NoEntry
                \/ vector[r] # NoEntry /\ vector'[r] = NoEntry
                \/ r \in artifacts /\ r \notin artifacts'
                    => IsTombstoned(r)
      PROVE  Goal
    <2>1. RemovalsTombstoned'
        BY <1>o, <1>r, RemovalsStay, SameLog DEF StoreMove
    <2>2. PostingsHaveRows'
        BY <1>o, <1>r, PostingsStay
    <2>3. CanonicalStep
        BY <1>o, <1>r DEF CanonicalStep, StoreMove, InSurface
    <2> QED
        BY <2>1, <2>2, <2>3
<1>1. ASSUME NEW j \in Jobs, NEW r \in Ids, NEW m \in RequestModes, RequestDeletion(j, r, m)
      PROVE  Goal
    BY <1>1, <1>q DEF RequestDeletion
<1>2. ASSUME NEW j \in Jobs,
             \/ TombstoneOne(j) \/ MarkDeleting(j) \/ CheckLexical(j) \/ Drained(j)
             \/ AnswerVector(j) \/ EraseOne(j) \/ Verify(j) \/ MarkVerified(j) \/ MarkFailed(j)
             \/ RetryJob(j) \/ Interrupt(j)
      PROVE  Goal
    BY <1>2, <1>q
    DEF TombstoneOne, MarkDeleting, CheckLexical, Drained, AnswerVector, EraseOne, Verify,
        MarkVerified, MarkFailed, RetryJob, Interrupt
<1>3. ASSUME NEW j \in Jobs, PurgeLexical(j) PROVE Goal
    <2>1. \A r \in Ids : lexical'[r] = IF r \in job[j].ids THEN NoEntry ELSE lexical[r]
        BY <1>3 DEF PurgeLexical, Removed
    <2> QED
        BY <1>3, <1>a, <1>r, <2>1 DEF PurgeLexical, At
<1>4. ASSUME NEW j \in Jobs, EnqueueRemove(j) PROVE Goal
    <2>1. RemovalsTombstoned'
        <3>1. /\ DOMAIN oplog = 1..Len(oplog) /\ Len(oplog) \in Nat
              /\ DOMAIN oplog' = 1..(Len(oplog) + 1)
            BY <1>4, <1>o, LenProperties, EnqueuedLog DEF DeletionTypeOK
        <3>2. \A i \in DOMAIN oplog' : i \in DOMAIN oplog \/ i = Len(oplog) + 1
            BY <3>1
        <3>3. \A i \in DOMAIN oplog : oplog'[i] = oplog[i]
            BY <1>4, <1>o, <3>1, EnqueuedLog
        <3>4. \A r \in oplog'[Len(oplog) + 1].ids : IsTombstoned(r)
            BY <1>4, <1>a, <1>o, EnqueuedLog DEF EnqueueRemove, At
        <3>5. \A r : IsTombstoned(r) => IsTombstoned(r)'
            BY <1>4 DEF EnqueueRemove, storeVars, IsTombstoned
        <3> QED
            BY <3>2, <3>3, <3>4, <3>5 DEF FirstInv, RemovalsTombstoned
    <2>2. PostingsHaveRows' /\ CanonicalStep
        BY <1>4, <1>o, PostingsStay
        DEF EnqueueRemove, surfaceVars, CanonicalStep, StoreMove, InSurface
    <2> QED
        BY <2>1, <2>2
<1>5. ASSUME NEW j \in Jobs, PurgeArtifacts(j) PROVE Goal
    <2>1. /\ \A r \in artifacts \ artifacts' : IsTombstoned(r)
          /\ lexical' = lexical /\ vector' = vector /\ oplog' = oplog
        BY <1>5, <1>a DEF PurgeArtifacts, At
    <2> QED
        BY <1>r, <2>1
<1>6. ASSUME NEW j \in Jobs, RebuildLexical(j) PROVE Goal
    <2>1. \A r \in Ids : lexical'[r] = IF Exists(r) THEN records[r].content ELSE NoEntry
        BY <1>6 DEF RebuildLexical, RebuiltPostings
    <2>2. \A r \in Ids : Exists(r) => records[r].content # NoEntry
        <3> SUFFICES ASSUME NEW r \in Ids, Exists(r) PROVE records[r].content # NoEntry
            OBVIOUS
        <3>1. records[r] \in Record
            BY <1>t DEF StoreTypeOK, Exists
        <3>2. PICK c \in 0..MaxContent : records[r].content = c
            BY <3>1 DEF Record
        <3>3. c \in Int /\ c >= 0
            BY <3>2, DeletionAssumption
        <3> QED
            BY <3>2, <3>3 DEF NoEntry
    <2>3. \A r \in Ids : lexical[r] # NoEntry /\ lexical'[r] = NoEntry => IsTombstoned(r)
        BY <2>1, <2>2 DEF FirstInv, PostingsHaveRows
    <2>4. \A r \in Ids : lexical'[r] # NoEntry => lexical[r] # NoEntry \/ Exists(r)
        BY <2>1
    <2>5. vector' = vector /\ artifacts' = artifacts /\ oplog' = oplog
        BY <1>6 DEF RebuildLexical
    <2> QED
        BY <1>r, <2>3, <2>4, <2>5
<1>7. ASSUME NEW i \in DOMAIN oplog, ApplyOp(i) PROVE Goal
    <2>1. Sublog /\ oplog[i] \in VectorOp
        BY <1>7, <1>o, AppliedLog
    <2>2. PICK applied \in SUBSET oplog[i].ids : vector' = VectorAfter(oplog[i], applied)
        BY <1>7, <1>o, AppliedLog
    <2>3. lexical' = lexical /\ artifacts' = artifacts
        BY <1>7 DEF ApplyOp
    <2>4. oplog[i].op_type = "upsert_index" => oplog[i].content # NoEntry
        BY <2>1, DeletionAssumption DEF VectorOp, NoEntry
    <2>5. \A r \in Ids : vector[r] # NoEntry /\ vector'[r] = NoEntry => IsTombstoned(r)
        BY <2>1, <2>2, <2>4 DEF VectorAfter, VectorOp, FirstInv, RemovalsTombstoned
    <2> QED
        BY <1>r, <2>1, <2>3, <2>5
<1>8. ASSUME NEW i \in DOMAIN oplog, OpBackoffExpires(i) PROVE Goal
    BY <1>8, <1>o, <1>q, ExpiredLog DEF OpBackoffExpires
<1>9. ASSUME UNCHANGED deletionVars PROVE Goal
    BY <1>9, <1>q DEF deletionVars
<1> HIDE DEF Goal
<1>10. Goal
    BY <1>1, <1>2, <1>3, <1>4, <1>5, <1>6, <1>7, <1>8, <1>9
    DEF DeletionNext, DeletionStep, JobStep, RequestSomeDeletion, ApplySomeOp,
        ExpireSomeBackoff
<1> QED
    BY <1>o, <1>10 DEF FirstInv, Goal

(* Canonical first: whatever a deletion takes out of an index, or erases,  *)
(* was tombstoned before, in any interleaving of jobs, interrupts, retries *)
(* of jobs and failures of the vector handler.                             *)
THEOREM TombstonedFirst == DeletionSpec => CanonicalFirst
<1>1. FirstInv /\ [DeletionNext]_deletionVars => [CanonicalStep]_deletionVars
    BY FirstStep
<1>2. FirstInv /\ [DeletionNext]_deletionVars => FirstInv'
    BY FirstStep
<1> QED
    BY FirstInit, <1>1, <1>2, PTL DEF DeletionSpec, CanonicalFirst, CanonicalStep

-----------------------------------------------------------------------------
(* Verified means gone                                                     *)

(* What a step may do to the surfaces, the log, a row and a job, said once *)
(* for all actions.                                                        *)
SurfaceMove ==
    /\ artifacts' \subseteq artifacts
    /\ vector' = vector \/ \E i \in DOMAIN oplog : ApplyOp(i)
    /\ \A r \in Ids : lexical'[r] # NoEntry =>
            lexical[r] # NoEntry \/ (Exists(r) /\ \E j \in Jobs : At(j, "rebuilding"))

LogMove == Sublog \/ \E j \in Jobs : EnqueueRemove(j)

RowMove ==
    \A r \in Ids :
        /\ Exists(r)' => Exists(r)
        /\ tombstones'[r].state = "verified" =>
                \/ tombstones[r].state = "verified" /\ tombstones'[r].mode = tombstones[r].mode
                \/ /\ \E j \in Jobs : At(j, "verified") /\ r \in job[j].ids
                   /\ tombstones'[r].mode = tombstones[r].mode
        /\ IsTombstoned(r)' =>
                \/ IsTombstoned(r) /\ tombstones'[r].mode = tombstones[r].mode
                \/ \E j \in Jobs : ~At(j, "idle") /\ tombstones'[r].mode = job[j].mode

JobMove ==
    \A j \in Jobs :
        /\ ~At(j, "idle")' =>
                \/ ~At(j, "idle") /\ job'[j].mode = job[j].mode
                \/ job'[j].mode \in RequestModes
                \/ \E r \in Ids : IsTombstoned(r) /\ job'[j].mode = tombstones[r].mode
        /\ At(j, "erasing")' \/ At(j, "rebuilding")' =>
                \/ At(j, "erasing") \/ At(j, "rebuilding")
                \/ ~At(j, "idle") /\ job[j].mode = "hard"
        /\ At(j, "verified")' =>
                /\ job'[j].ids = job[j].ids
                /\ \/ At(j, "verified")
                   \/ ~At(j, "idle") /\ VerifyNotRetrievable(job[j].ids, job[j].mode)

LEMMA StepMoves ==
    FirstInv /\ [DeletionNext]_deletionVars => SurfaceMove /\ LogMove /\ RowMove /\ JobMove
<1> SUFFICES ASSUME FirstInv, [DeletionNext]_deletionVars
             PROVE  SurfaceMove /\ LogMove /\ RowMove /\ JobMove
    OBVIOUS
<1> DEFINE Goal == SurfaceMove /\ LogMove /\ RowMove /\ JobMove
<1>t. /\ DeletionTypeOK /\ StoreTypeOK
      /\ job \in [Jobs -> JobRecord]
      /\ \A j \in Jobs : job[j].mode \in Modes /\ job[j].ids \subseteq Ids
    BY DEF FirstInv, DeletionTypeOK, JobRecord
<1>i. \A j \in Jobs : job[j].todo \subseteq job[j].ids
    BY DEF FirstInv, JobsTombstone
<1>p. {"tombstoning", "marking", "lexical", "checking", "enqueueing", "draining", "answering",
       "artifacts", "erasing", "rebuilding", "verifying", "verified", "failing", "done",
       "raised"} \subseteq JobPcs
    BY DEF JobPcs
<1>s. ASSUME UNCHANGED storeVars PROVE RowMove
    BY <1>s DEF RowMove, storeVars, Exists, IsTombstoned
<1>u. ASSUME UNCHANGED surfaceVars PROVE SurfaceMove
    BY <1>u DEF SurfaceMove, surfaceVars
<1>l. ASSUME oplog' = oplog PROVE LogMove
    BY <1>l, SameLog DEF LogMove
<1>m. ASSUME NEW r \in Ids, NEW st \in DeletionStates \ {"verified"}, SetTombstoneState(r, st)
      PROVE  RowMove
    <2>1. \A x \in Ids : Exists(x)' <=> Exists(x)
        BY <1>m DEF SetTombstoneState, Exists
    <2>2. \A x \in Ids : IsTombstoned(x)' => IsTombstoned(x)
        BY <1>m, <1>t, SetStateTyped
    <2>3. \A x \in Ids : tombstones'[x].mode = tombstones[x].mode
        BY <1>m, <1>t, SetStateModes
    <2>4. \A x \in Ids : tombstones'[x].state = "verified" => tombstones[x].state = "verified"
        BY <1>m, <1>t, SetStateModes
    <2> QED BY <2>1, <2>2, <2>3, <2>4 DEF RowMove
(* A job goes on to, or stays at, something other than these.              *)
<1>g. ASSUME NEW j \in Jobs, ~At(j, "idle"),
             NEW pc \in JobPcs \ {"idle", "erasing", "rebuilding", "verified"},
             \/ Goto(j, pc)
             \/ \E r \in Ids : Turn(j, r, pc)
             \/ \E bad \in SUBSET Ids : job' = [job EXCEPT ![j].pc = pc, ![j].bad = bad]
      PROVE  JobMove
    <2> DEFINE Moved == /\ Others(j)
                        /\ job'[j].ids = job[j].ids /\ job'[j].mode = job[j].mode
                        /\ job'[j].pc = pc \/ job'[j].pc = job[j].pc
    <2>1. Moved
        <3>1. CASE Goto(j, pc)
            BY <1>t, <3>1, GotoJob
        <3>2. ASSUME NEW r \in Ids, Turn(j, r, pc) PROVE Moved
            BY <1>t, <3>2, TurnJob
        <3>3. ASSUME NEW bad \in SUBSET Ids, job' = [job EXCEPT ![j].pc = pc, ![j].bad = bad]
              PROVE  Moved
            BY <1>t, <3>3, AnsweredJob
        <3> QED BY <1>g, <3>1, <3>2, <3>3
    <2> QED
        BY <1>g, <2>1 DEF JobMove, Others, At
<1>n. ASSUME job' = job PROVE JobMove
    BY <1>n DEF JobMove, At
<1>1. ASSUME NEW j \in Jobs, NEW r \in Ids, NEW m \in RequestModes, RequestDeletion(j, r, m)
      PROVE  Goal
    <2>1. Others(j) /\ job'[j].pc = "tombstoning" /\ job'[j].mode = m
        BY <1>1, <1>p, <1>t, RequestedIds, StartJob, DeletionAssumption DEF RequestDeletion
    <2>2. JobMove
        BY <2>1 DEF JobMove, Others, At
    <2> QED
        BY <1>1, <1>s, <1>u, <1>l, <2>2 DEF RequestDeletion
<1>2. ASSUME NEW j \in Jobs, TombstoneOne(j) PROVE Goal
    <2>1. PICK r \in Ids : Turn(j, r, "marking") /\ Tombstone(r, job[j].mode, j)
        BY <1>2 DEF TombstoneOne
    <2>2. /\ tombstones'[r].mode = job[j].mode
          /\ tombstones'[r].state = "canonical_tombstoned"
          /\ \A s \in Ids \ {r} : tombstones'[s] = tombstones[s]
          /\ \A s \in Ids : Exists(s)' <=> Exists(s)
        BY <1>t, <2>1, TombstoneTyped
    <2>3. RowMove
        BY <1>2, <2>2 DEF TombstoneOne, RowMove, IsTombstoned, At
    <2>4. JobMove
        BY <1>2, <1>g, <1>p, <2>1 DEF TombstoneOne, At
    <2> QED
        BY <1>2, <1>u, <1>l, <2>3, <2>4 DEF TombstoneOne
<1>3. ASSUME NEW j \in Jobs, MarkDeleting(j) PROVE Goal
    <2>1. PICK r \in Ids : Turn(j, r, "lexical") /\ SetTombstoneState(r, "index_deleting")
        BY <1>3 DEF MarkDeleting
    <2>2. RowMove
        BY <1>m, <2>1 DEF DeletionStates
    <2>3. JobMove
        BY <1>3, <1>g, <1>p, <2>1 DEF MarkDeleting, At
    <2> QED
        BY <1>3, <1>u, <1>l, <2>2, <2>3 DEF MarkDeleting
<1>4. ASSUME NEW j \in Jobs, PurgeLexical(j) PROVE Goal
    <2>1. JobMove
        BY <1>4, <1>g, <1>p DEF PurgeLexical, At
    <2>2. SurfaceMove
        BY <1>4 DEF PurgeLexical, SurfaceMove, Removed
    <2> QED
        BY <1>4, <1>s, <1>l, <2>1, <2>2 DEF PurgeLexical
<1>5. ASSUME NEW j \in Jobs, CheckLexical(j) PROVE Goal
    <2>1. Contained(lexical, job[j].ids) \in SUBSET Ids
        BY <1>t DEF Contained
    <2>2. JobMove
        BY <1>5, <1>g, <1>p, <2>1 DEF CheckLexical, At
    <2> QED
        BY <1>5, <1>s, <1>u, <1>l, <2>2 DEF CheckLexical
<1>6. ASSUME NEW j \in Jobs, EnqueueRemove(j) PROVE Goal
    <2>1. JobMove
        BY <1>6, <1>g, <1>p DEF EnqueueRemove, At
    <2> QED
        BY <1>6, <1>s, <1>u, <2>1 DEF EnqueueRemove, LogMove
<1>7. ASSUME NEW j \in Jobs, Drained(j) PROVE Goal
    <2>1. JobMove
        BY <1>7, <1>g, <1>p DEF Drained, At
    <2> QED
        BY <1>7, <1>s, <1>u, <1>l, <2>1 DEF Drained
<1>8. ASSUME NEW j \in Jobs, AnswerVector(j) PROVE Goal
    <2>1. job[j].bad \cup Contained(vector, job[j].ids) \in SUBSET Ids
        BY <1>t DEF Contained, JobRecord
    <2>2. job' = [job EXCEPT ![j].pc = "artifacts",
                             ![j].bad = job[j].bad \cup Contained(vector, job[j].ids)]
        BY <1>8, <1>t DEF AnswerVector
    <2>3. JobMove
        BY <1>8, <1>g, <1>p, <2>1, <2>2 DEF AnswerVector, At
    <2> QED
        BY <1>8, <1>s, <1>u, <1>l, <2>3 DEF AnswerVector
<1>9. ASSUME NEW j \in Jobs, PurgeArtifacts(j) PROVE Goal
    <2>1. JobMove
        <3>1. CASE Goto(j, "erasing") /\ job[j].mode = "hard"
            BY <1>9, <1>p, <1>t, <3>1, GotoJob DEF PurgeArtifacts, JobMove, Others, At
        <3>2. CASE Goto(j, "failing") \/ Goto(j, "verifying")
            BY <1>9, <1>g, <1>p, <3>2 DEF PurgeArtifacts, At
        <3> QED BY <1>9, <3>1, <3>2 DEF PurgeArtifacts
    <2>2. SurfaceMove
        BY <1>9 DEF PurgeArtifacts, SurfaceMove
    <2> QED
        BY <1>9, <1>s, <1>l, <2>1, <2>2 DEF PurgeArtifacts
<1>10. ASSUME NEW j \in Jobs, EraseOne(j) PROVE Goal
    <2>1. PICK r \in Ids : Turn(j, r, "rebuilding") /\ HardDelete(r)
        BY <1>10 DEF EraseOne
    <2>2. RowMove
        BY <1>t, <2>1, HardDeleteTyped DEF RowMove, Exists, IsTombstoned
    <2>3. JobMove
        BY <1>10, <1>p, <1>t, <2>1, TurnJob DEF EraseOne, JobMove, Others, At
    <2> QED
        BY <1>10, <1>u, <1>l, <2>2, <2>3 DEF EraseOne
<1>11. ASSUME NEW j \in Jobs, RebuildLexical(j) PROVE Goal
    <2>1. JobMove
        BY <1>11, <1>g, <1>p DEF RebuildLexical, At
    <2>2. SurfaceMove
        BY <1>11 DEF RebuildLexical, RebuiltPostings, SurfaceMove
    <2> QED
        BY <1>11, <1>s, <1>l, <2>1, <2>2 DEF RebuildLexical
<1>12. ASSUME NEW j \in Jobs, Verify(j) PROVE Goal
    <2>1. JobMove
        <3>1. CASE Goto(j, "verified") /\ VerifyNotRetrievable(job[j].ids, job[j].mode)
            BY <1>12, <1>p, <1>t, <3>1, GotoJob DEF Verify, JobMove, Others, At
        <3>2. CASE Goto(j, "failing")
            BY <1>12, <1>g, <1>p, <3>2 DEF Verify, At
        <3> QED BY <1>12, <3>1, <3>2 DEF Verify
    <2> QED
        BY <1>12, <1>s, <1>u, <1>l, <2>1 DEF Verify
<1>13. ASSUME NEW j \in Jobs, MarkVerified(j) PROVE Goal
    <2>1. PICK r \in Ids : Turn(j, r, "done") /\ SetTombstoneState(r, "verified")
        BY <1>13 DEF MarkVerified
    <2>2. r \in job[j].ids
        BY <1>i, <2>1 DEF Turn
    <2>3. RowMove
        <3>1. \A x \in Ids : Exists(x)' <=> Exists(x)
            BY <2>1 DEF SetTombstoneState, Exists
        <3>2. \A x \in Ids : IsTombstoned(x)' => IsTombstoned(x)
            BY <1>t, <2>1, SetStateTyped DEF DeletionStates
        <3>3. \A x \in Ids :
                /\ tombstones'[x].mode = tombstones[x].mode
                /\ tombstones'[x].state = "verified" =>
                        tombstones[x].state = "verified" \/ x = r
            BY <1>t, <2>1, SetStateModes DEF DeletionStates
        <3> QED
            BY <1>13, <2>2, <3>1, <3>2, <3>3 DEF MarkVerified, RowMove
    <2>4. JobMove
        BY <1>13, <1>g, <1>p, <2>1 DEF MarkVerified, At
    <2> QED
        BY <1>13, <1>u, <1>l, <2>3, <2>4 DEF MarkVerified
<1>14. ASSUME NEW j \in Jobs, MarkFailed(j) PROVE Goal
    <2>1. PICK r \in Ids :
            /\ SetTombstoneState(r, FailureState(j))
            /\ IF job[j].todo = {r} /\ RetriesLeft(j)
               THEN job' = [job EXCEPT ![j].pc = "marking", ![j].todo = job[j].ids,
                                       ![j].bad = {}, ![j].attempt = @ + 1]
               ELSE Turn(j, r, "done")
        BY <1>14 DEF MarkFailed
    <2>2. RowMove
        BY <1>m, <2>1 DEF DeletionStates, FailureState
    <2>3. JobMove
        <3>1. CASE Turn(j, r, "done")
            BY <1>14, <1>g, <1>p, <3>1 DEF MarkFailed, At
        <3>2. CASE ~Turn(j, r, "done")
            BY <1>14, <1>t, <2>1, <3>2, NextRound DEF MarkFailed, JobMove, Others, At
        <3> QED BY <3>1, <3>2
    <2> QED
        BY <1>14, <1>u, <1>l, <2>2, <2>3 DEF MarkFailed
<1>15. ASSUME NEW j \in Jobs, RetryJob(j) PROVE Goal
    <2>1. PICK first \in JobRows(j) :
            StartPurge(j, "marking", JobRows(j), tombstones[first].mode)
        BY <1>15 DEF RetryJob
    <2>2. /\ JobRows(j) \in SUBSET Ids /\ tombstones[first].mode \in Modes
          /\ first \in Ids /\ IsTombstoned(first)
        BY <1>t, RowsOfJob DEF JobRows
    <2>3. Others(j) /\ job'[j].pc = "marking" /\ job'[j].mode = tombstones[first].mode
        BY <1>p, <1>t, <2>1, <2>2, StartJob
    <2>4. JobMove
        BY <2>2, <2>3 DEF JobMove, Others, At
    <2> QED
        BY <1>15, <1>s, <1>u, <1>l, <2>4 DEF RetryJob
<1>16. ASSUME NEW j \in Jobs, Interrupt(j) PROVE Goal
    <2>1. JobMove
        BY <1>16, <1>g, <1>p DEF Interrupt, At
    <2> QED
        BY <1>16, <1>s, <1>u, <1>l, <2>1 DEF Interrupt
<1>17. ASSUME NEW i \in DOMAIN oplog, ApplyOp(i) PROVE Goal
    <2>1. LogMove
        BY <1>17, <1>t, AppliedLog DEF LogMove
    <2>2. SurfaceMove
        BY <1>17 DEF ApplyOp, SurfaceMove
    <2> QED
        BY <1>17, <1>s, <1>n, <2>1, <2>2 DEF ApplyOp
<1>18. ASSUME NEW i \in DOMAIN oplog, OpBackoffExpires(i) PROVE Goal
    <2>1. LogMove
        BY <1>18, <1>t, ExpiredLog DEF LogMove
    <2> QED
        BY <1>18, <1>s, <1>u, <1>n, <2>1 DEF OpBackoffExpires
<1>19. CASE UNCHANGED deletionVars
    BY <1>19, <1>s, <1>u, <1>l, <1>n DEF deletionVars
<1> QED
    BY <1>1, <1>2, <1>3, <1>4, <1>5, <1>6, <1>7, <1>8, <1>9, <1>10, <1>11, <1>12, <1>13,
       <1>14, <1>15, <1>16, <1>17, <1>18, <1>19
    DEF DeletionNext, DeletionStep, JobStep, RequestSomeDeletion, ApplySomeOp,
        ExpireSomeBackoff

(* The queue is upserts first: they were enqueued before the first job.    *)
UpsertsFirst ==
    \A i, k \in DOMAIN oplog :
        i < k /\ oplog[i].op_type = "remove_index" => oplog[k].op_type = "remove_index"

(* An upsert in the queue writes over an entry, it does not add one.       *)
UpsertsOverwrite ==
    \A i \in DOMAIN oplog : oplog[i].op_type = "upsert_index" =>
        \A r \in oplog[i].ids \ NeverIndexed : vector[r] # NoEntry

OutOfVector(r) == vector[r] = NoEntry /\ r \notin artifacts

VerifiedNotInVector ==
    \A r \in Ids \ NeverIndexed : tombstones[r].state = "verified" => OutOfVector(r)

VectorInv ==
    /\ FirstInv /\ UpsertsFirst /\ UpsertsOverwrite
    /\ \A j \in Jobs : At(j, "verified") =>
        \A r \in job[j].ids \ NeverIndexed : OutOfVector(r)
    /\ VerifiedNotInVector

LEMMA VectorInit == DeletionInit => VectorInv
<1> SUFFICES ASSUME DeletionInit PROVE VectorInv
    OBVIOUS
<1> DEFINE n == Cardinality(QueuedUpserts)
           f == SetToSeq(QueuedUpserts)
<1>1. oplog = [i \in 1..n |-> [NewOp("upsert_index", {f[i]}, 0)
                                   EXCEPT !.attempts = 1, !.backoff = TRUE]]
    BY DEF DeletionInit
<1>2. DOMAIN oplog = 1..n /\ f \in [1..n -> QueuedUpserts]
    BY <1>1, QueueOrder
<1> HIDE DEF n, f
<1>3. \A i \in DOMAIN oplog : oplog[i].op_type = "upsert_index" /\ oplog[i].ids = {f[i]}
    BY <1>1, <1>2 DEF NewOp
<1>4. UpsertsFirst
    BY <1>3 DEF UpsertsFirst
<1>5. \A r \in QueuedUpserts \ NeverIndexed : vector[r] # NoEntry
    <2>1. \A r \in Existing : records[r].status = "active"
        BY DeletionAssumption DEF DeletionInit
    <2>2. \A r \in Existing : Exists(r)
        BY <2>1 DEF Exists, Absent
    <2>3. 0 # NoEntry
        BY DEF NoEntry
    <2> QED
        BY <2>2, <2>3, DeletionAssumption DEF DeletionInit
<1>6. UpsertsOverwrite
    BY <1>2, <1>3, <1>5 DEF UpsertsOverwrite
<1>7. VerifiedNotInVector
    BY DEF DeletionInit, VerifiedNotInVector, NoTombstone
<1>8. \A j \in Jobs : ~At(j, "verified")
    BY DEF DeletionInit, IdleJob, At
<1> QED
    BY FirstInit, <1>4, <1>6, <1>7, <1>8 DEF VectorInv

(* A removal is applied when nothing is queued before it, so no upsert is  *)
(* queued at all.                                                          *)
LEMMA RemovalIsLast ==
    ASSUME VectorInv, NEW i \in DOMAIN oplog, Runnable(i), oplog[i].op_type = "remove_index"
    PROVE  \A k \in DOMAIN oplog : oplog[k].op_type = "remove_index"
<1>1. DOMAIN oplog = 1..Len(oplog) /\ Len(oplog) \in Nat
    BY LenProperties DEF VectorInv, FirstInv, DeletionTypeOK
<1>2. i = 1
    BY <1>1 DEF Runnable, OpConflicts
<1> QED
    BY <1>1, <1>2 DEF VectorInv, UpsertsFirst

(* What is out of the vector index and the artifacts stays out.            *)
LEMMA StaysOut ==
    ASSUME VectorInv, [DeletionNext]_deletionVars, NEW r \in Ids \ NeverIndexed, OutOfVector(r)
    PROVE  OutOfVector(r)'
<1>1. SurfaceMove
    BY StepMoves DEF VectorInv
<1>2. ASSUME NEW i \in DOMAIN oplog, ApplyOp(i) PROVE vector'[r] = NoEntry
    <2>1. PICK applied \in SUBSET oplog[i].ids : vector' = VectorAfter(oplog[i], applied)
        BY <1>2 DEF ApplyOp
    <2>2. oplog[i] \in VectorOp
        BY LenProperties, ElementOfSeq DEF VectorInv, FirstInv, DeletionTypeOK
    <2>3. r \in applied => oplog[i].op_type # "upsert_index"
        BY DEF VectorInv, UpsertsOverwrite, OutOfVector
    <2> QED
        BY <2>1, <2>3 DEF VectorAfter, OutOfVector
<1> QED
    BY <1>1, <1>2 DEF SurfaceMove, OutOfVector

LEMMA VectorStep == VectorInv /\ [DeletionNext]_deletionVars => VectorInv'
<1> SUFFICES ASSUME VectorInv, [DeletionNext]_deletionVars PROVE VectorInv'
    OBVIOUS
<1>1. SurfaceMove /\ LogMove /\ RowMove /\ JobMove
    BY StepMoves DEF VectorInv
<1>2. FirstInv /\ FirstInv'
    BY FirstStep DEF VectorInv
<1>3. oplog \in Seq(VectorOp) /\ DOMAIN oplog = 1..Len(oplog) /\ Len(oplog) \in Nat
    BY <1>2, LenProperties DEF FirstInv, DeletionTypeOK
<1>4. ASSUME NEW j \in Jobs, EnqueueRemove(j)
      PROVE  /\ DOMAIN oplog' = 1..(Len(oplog) + 1)
             /\ \A i \in DOMAIN oplog : oplog'[i] = oplog[i]
             /\ oplog'[Len(oplog) + 1].op_type = "remove_index"
             /\ vector' = vector
    <2>1. /\ oplog' \in Seq(VectorOp) /\ Len(oplog') = Len(oplog) + 1
          /\ \A i \in 1..Len(oplog) : oplog'[i] = oplog[i]
          /\ oplog'[Len(oplog) + 1].op_type = "remove_index"
        BY <1>2, <1>4, EnqueuedLog DEF FirstInv
    <2> QED
        BY <1>3, <1>4, <2>1, LenProperties DEF EnqueueRemove, surfaceVars
<1>5. UpsertsFirst'
    <2>1. CASE Sublog
        <3> SUFFICES ASSUME NEW i \in DOMAIN oplog', NEW k \in DOMAIN oplog', i < k,
                            oplog'[i].op_type = "remove_index"
                     PROVE  oplog'[k].op_type = "remove_index"
            BY DEF UpsertsFirst
        <3> QED
            BY <2>1 DEF Sublog, Same, VectorInv, UpsertsFirst
    <2>2. ASSUME NEW j \in Jobs, EnqueueRemove(j) PROVE UpsertsFirst'
        <3>1. \A k \in DOMAIN oplog' : k \in DOMAIN oplog \/ k = Len(oplog) + 1
            BY <1>3, <1>4, <2>2
        <3>2. \A i, k \in DOMAIN oplog' : i < k /\ k \in DOMAIN oplog => i \in DOMAIN oplog
            BY <1>3, <1>4, <2>2
        <3> QED
            BY <1>4, <2>2, <3>1, <3>2 DEF VectorInv, UpsertsFirst
    <2> QED BY <1>1, <2>1, <2>2 DEF LogMove
<1>6. UpsertsOverwrite'
    <2>1. ASSUME Sublog, NEW i \in DOMAIN oplog', oplog'[i].op_type = "upsert_index",
                 NEW r \in oplog'[i].ids \ NeverIndexed
          PROVE  vector'[r] # NoEntry
        <3>1. PICK a \in DOMAIN oplog : Same(oplog'[i], oplog[a])
            BY <2>1 DEF Sublog
        <3>2. oplog[a].op_type = "upsert_index" /\ r \in oplog[a].ids
            BY <2>1, <3>1 DEF Same
        <3>3. vector[r] # NoEntry
            BY <2>1, <3>2 DEF VectorInv, UpsertsOverwrite
        <3>4. ASSUME NEW k \in DOMAIN oplog, ApplyOp(k) PROVE vector'[r] # NoEntry
            <4>1. PICK applied \in SUBSET oplog[k].ids :
                    vector' = VectorAfter(oplog[k], applied)
                BY <3>4 DEF ApplyOp
            <4>2. oplog[k] \in VectorOp /\ oplog[a] \in VectorOp
                BY <1>3, ElementOfSeq
            <4>3. oplog[k].op_type = "upsert_index"
                BY <3>2, <3>4, <4>2, RemovalIsLast DEF ApplyOp, VectorOp
            <4>4. oplog[k].content # NoEntry /\ r \in Ids
                BY <3>2, <4>2, DeletionAssumption DEF VectorOp, NoEntry
            <4> QED
                BY <3>3, <4>1, <4>3, <4>4 DEF VectorAfter
        <3> QED
            BY <1>1, <3>3, <3>4 DEF SurfaceMove
    <2>2. ASSUME NEW j \in Jobs, EnqueueRemove(j) PROVE UpsertsOverwrite'
        <3>1. \A k \in DOMAIN oplog' : k \in DOMAIN oplog \/ k = Len(oplog) + 1
            BY <1>3, <1>4, <2>2
        <3> QED
            BY <1>4, <2>2, <3>1 DEF VectorInv, UpsertsOverwrite
    <2> QED BY <1>1, <2>1, <2>2 DEF LogMove, UpsertsOverwrite
<1>7. \A j \in Jobs : At(j, "verified")' =>
        \A r \in job'[j].ids \ NeverIndexed : OutOfVector(r)'
    <2> SUFFICES ASSUME NEW j \in Jobs, At(j, "verified")',
                        NEW r \in job'[j].ids \ NeverIndexed
                 PROVE  OutOfVector(r)'
        OBVIOUS
    <2>1. r \in job[j].ids /\ r \in Ids
        BY <1>1, <1>2 DEF JobMove, FirstInv, DeletionTypeOK, JobRecord
    <2>2. OutOfVector(r)
        BY <1>1, <2>1
        DEF JobMove, VerifyNotRetrievable, InSurface, OutOfVector, VectorInv
    <2> QED
        BY <2>1, <2>2, StaysOut
<1>8. VerifiedNotInVector'
    <2> SUFFICES ASSUME NEW r \in Ids \ NeverIndexed, tombstones'[r].state = "verified"
                 PROVE  OutOfVector(r)'
        BY DEF VerifiedNotInVector
    <2>1. OutOfVector(r)
        BY <1>1 DEF RowMove, VectorInv, VerifiedNotInVector
    <2> QED
        BY <2>1, StaysOut
<1> QED
    BY <1>2, <1>5, <1>6, <1>7, <1>8 DEF VectorInv

(* Whatever modes are asked for: a verified record is out of the vector    *)
(* index and the artifacts, unless the initial queue holds an upsert of it *)
(* that was never applied.                                                 *)
THEOREM VerifiedOutOfVector == DeletionSpec => []VerifiedNotInVector
<1>1. VectorInv => VerifiedNotInVector
    BY DEF VectorInv
<1> QED
    BY VectorInit, VectorStep, <1>1, PTL DEF DeletionSpec

(* The FTS5 postings come back when a hard deletion rebuilds them from the *)
(* rows of records, logically deleted ones included.  Where all callers    *)
(* ask for one mode, a job that rebuilds has only erased records to hide.  *)
OneMode(m) ==
    /\ \A j \in Jobs : ~At(j, "idle") => job[j].mode = m
    /\ \A r \in Ids : IsTombstoned(r) => tombstones[r].mode = m

GoneInv(m) ==
    /\ VectorInv
    /\ OneMode(m)
    /\ \A j \in Jobs : At(j, "erasing") \/ At(j, "rebuilding") => m = "hard"
    /\ \A j \in Jobs : At(j, "verified") => \A r \in job[j].ids : Gone(r, m)
    /\ VerifiedMeansGone

LEMMA GoneInit ==
    ASSUME NEW m
    PROVE  DeletionInit => GoneInv(m)
<1> SUFFICES ASSUME DeletionInit PROVE GoneInv(m)
    OBVIOUS
<1>1. \A j \in Jobs : job[j].pc = "idle"
    BY DEF DeletionInit, IdleJob
<1>2. \A r \in Ids : tombstones[r] = NoTombstone
    BY DEF DeletionInit
<1> QED
    BY VectorInit, <1>1, <1>2
    DEF GoneInv, OneMode, VerifiedMeansGone, At, IsTombstoned, NoTombstone

LEMMA OneModeStep ==
    ASSUME NEW m, RequestModes = {m}, GoneInv(m), [DeletionNext]_deletionVars
    PROVE  OneMode(m)'
<1>1. RowMove /\ JobMove
    BY StepMoves DEF GoneInv, VectorInv
<1> QED
    BY <1>1 DEF RowMove, JobMove, GoneInv, OneMode

(* In one mode, what is gone stays gone.                                   *)
LEMMA StaysGone ==
    ASSUME NeverIndexed = {}, NEW m, GoneInv(m), [DeletionNext]_deletionVars,
           NEW r \in Ids, Gone(r, m)
    PROVE  Gone(r, m)'
<1>1. SurfaceMove /\ RowMove
    BY StepMoves DEF GoneInv, VectorInv
<1>2. OutOfVector(r)'
    BY StaysOut DEF GoneInv, Gone, InSurface, OutOfVector
<1>3. lexical'[r] = NoEntry
    BY <1>1 DEF SurfaceMove, GoneInv, Gone, InSurface
<1>4. Exists(r)' => Exists(r)
    BY <1>1 DEF RowMove
<1> QED
    BY <1>2, <1>3, <1>4 DEF Gone, InSurface, OutOfVector

LEMMA GoneStep ==
    ASSUME NeverIndexed = {}, NEW m, RequestModes = {m}
    PROVE  GoneInv(m) /\ [DeletionNext]_deletionVars => GoneInv(m)'
<1> SUFFICES ASSUME GoneInv(m), [DeletionNext]_deletionVars PROVE GoneInv(m)'
    OBVIOUS
<1>1. RowMove /\ JobMove
    BY StepMoves DEF GoneInv, VectorInv
<1>2. VectorInv' /\ OneMode(m)'
    BY VectorStep, OneModeStep DEF GoneInv
<1>3. \A j \in Jobs : At(j, "erasing")' \/ At(j, "rebuilding")' => m = "hard"
    BY <1>1 DEF JobMove, GoneInv, OneMode
<1>4. \A j \in Jobs : At(j, "verified")' => \A r \in job'[j].ids : Gone(r, m)'
    <2> SUFFICES ASSUME NEW j \in Jobs, At(j, "verified")', NEW r \in job'[j].ids
                 PROVE  Gone(r, m)'
        OBVIOUS
    <2>1. r \in job[j].ids /\ r \in Ids
        BY <1>1 DEF JobMove, GoneInv, VectorInv, FirstInv, DeletionTypeOK, JobRecord
    <2>2. Gone(r, m)
        BY <1>1, <2>1 DEF JobMove, VerifyNotRetrievable, Gone, GoneInv, OneMode
    <2> QED
        BY <2>1, <2>2, StaysGone
<1>5. VerifiedMeansGone'
    <2> SUFFICES ASSUME NEW r \in Ids, tombstones'[r].state = "verified"
                 PROVE  Gone(r, tombstones[r].mode)'
        BY DEF VerifiedMeansGone
    <2>1. tombstones'[r].mode = m
        BY <1>2 DEF OneMode, IsTombstoned, NoTombstone
    <2>2. Gone(r, m)
        BY <1>1, <2>1 DEF RowMove, GoneInv, VerifiedMeansGone
    <2> QED
        BY <2>1, <2>2, StaysGone
<1> QED
    BY <1>2, <1>3, <1>4, <1>5 DEF GoneInv

(* Deletion integrity: where all callers ask for one mode and no upsert in *)
(* the initial queue is of a record the index has no entry of, a record    *)
(* with a verified tombstone is in no surface, and erased if that was      *)
(* asked for.                                                              *)
THEOREM VerifiedAreGone ==
    ASSUME NeverIndexed = {}, NEW m, RequestModes = {m}
    PROVE  DeletionSpec => []VerifiedMeansGone
<1>1. DeletionInit => GoneInv(m)
    BY GoneInit
<1>2. GoneInv(m) /\ [DeletionNext]_deletionVars => GoneInv(m)'
    BY GoneStep
<1>3. GoneInv(m) => VerifiedMeansGone
    BY DEF GoneInv
<1> QED
    BY <1>1, <1>2, <1>3, PTL DEF DeletionSpec

=============================================================================
