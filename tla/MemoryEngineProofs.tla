------------------------- MODULE MemoryEngineProofs -------------------------
(***************************************************************************)
(* Proofs about MemoryEngine for every set of threads, records and jobs,   *)
(* every initial graph and every bound: the types, the deletion integrity  *)
(* of recall, and that a correction is respected; and, for one thread,     *)
(* that the indexes hold what is active when nothing is under way.         *)
(***************************************************************************)
EXTENDS MemoryEngine, DeletionServiceProofs

-----------------------------------------------------------------------------
(* Calls                                                                   *)

(* The steps that write the record of a call, and those that write the one *)
(* it corrects or merges away.                                             *)
RecordSteps == {"read", "unindex", "store", "reread", "index", "upsert"}

OldSteps ==
    {"guard", "status", "link", "purge_lexical", "purge_vector", "purge_artifacts"}

Corrects(c) == c.id \in Ids /\ c.old \in Ids /\ c.rel \in {"supersedes", "contradicts"}

(* A bundle is built of what a filter left.                                *)
FiltersFirst(steps) ==
    \A i \in DOMAIN steps : steps[i] = "bundle" /\ i > 1 => steps[i - 1] = "filter"

(* What a call still has to do has the arguments it needs.                 *)
WellFormed(c) ==
    /\ c \in CallRecord
    /\ Range(c.steps) \cap RecordSteps # {} => c.id \in Ids /\ c.row \in Record
    /\ Range(c.steps) \cap OldSteps # {} \/ c.old # NoEntry => Corrects(c)
    /\ FiltersFirst(c.steps)

EngineTyped ==
    /\ JobsInv
    /\ call \in [Threads -> CallRecord]
    /\ \A t \in Threads : WellFormed(call[t])
    /\ used \subseteq Ids
    /\ corrections \subseteq Ids \X Ids \X Relations
    /\ \A c \in corrections : c[3] \in {"supersedes", "contradicts"}
    /\ calls \in Nat

(* What was tombstoned when a recall began still is, so the filter drops it. *)
RecallInv ==
    /\ \A t \in Threads : \A r \in call[t].deleted : IsTombstoned(r)
    /\ \A t \in Threads : Doing(t, "bundle") =>
        \A r \in Ids : call[t].rows[r] # Absent => r \notin call[t].deleted

(* The edge a correction adds is lost with a tombstoned record only.       *)
LinkedOrDeleted(c) == c \in dependencies \/ IsTombstoned(c[1]) \/ IsTombstoned(c[2])

CorrectionInv ==
    /\ \A c \in corrections : LinkedOrDeleted(c)
    /\ \A t \in Threads : call[t].corrected \subseteq corrections
    /\ \A t \in Threads :
        call[t].old # NoEntry /\ "link" \notin Range(call[t].steps) =>
            LinkedOrDeleted(<<call[t].id, call[t].old, call[t].rel>>)

EngineInv == EngineTyped /\ RecallInv /\ CorrectionInv

-----------------------------------------------------------------------------
(* Lists of steps                                                          *)

(* What is left when the first step is done.                               *)
LEMMA RestOfSteps ==
    ASSUME NEW s \in Seq(StepNames), s # <<>>, FiltersFirst(s)
    PROVE  /\ Tail(s) \in Seq(StepNames) /\ FiltersFirst(Tail(s))
           /\ Range(s) = {Head(s)} \cup Range(Tail(s))
           /\ Head(s) # "filter" => Tail(s) = <<>> \/ Head(Tail(s)) # "bundle"
<1>1. Len(s) \in Nat /\ DOMAIN s = 1..Len(s) /\ Len(s) # 0
    BY LenProperties, EmptySeq
<1> DEFINE r == Tail(s)
<1>2. /\ Head(s) \in StepNames /\ r \in Seq(StepNames) /\ Len(r) = Len(s) - 1
      /\ Head(s) = s[1]
      /\ \A i \in 1..(Len(s) - 1) : r[i] = s[i + 1]
    BY HeadTailProperties
<1>3. DOMAIN r = 1..(Len(s) - 1) /\ (r # <<>> => 1 \in DOMAIN r /\ Head(r) = r[1])
    BY <1>1, <1>2, LenProperties, EmptySeq
<1> HIDE DEF r
<1>4. FiltersFirst(r)
    <2> SUFFICES ASSUME NEW i \in DOMAIN r, r[i] = "bundle", i > 1 PROVE r[i - 1] = "filter"
        BY DEF FiltersFirst
    <2>1. i + 1 \in DOMAIN s /\ s[i + 1] = "bundle" /\ i + 1 > 1
        BY <1>1, <1>2, <1>3
    <2>2. s[(i + 1) - 1] = "filter"
        BY <2>1 DEF FiltersFirst
    <2>3. (i + 1) - 1 = (i - 1) + 1 /\ i - 1 \in 1..(Len(s) - 1)
        BY <1>1, <1>3
    <2> QED
        BY <1>2, <2>2, <2>3
<1>5. Range(s) = {Head(s)} \cup Range(r)
    <2>1. ASSUME NEW i \in DOMAIN s PROVE s[i] \in {Head(s)} \cup Range(r)
        <3>1. CASE i = 1
            BY <1>2, <3>1
        <3>2. CASE i # 1
            <4>1. i - 1 \in DOMAIN r /\ r[i - 1] = s[i]
                BY <1>1, <1>2, <1>3, <3>2
            <4> QED BY <4>1 DEF Range
        <3> QED BY <3>1, <3>2
    <2>2. ASSUME NEW i \in DOMAIN r PROVE r[i] \in Range(s)
        <3>1. i + 1 \in DOMAIN s /\ r[i] = s[i + 1]
            BY <1>1, <1>2, <1>3
        <3> QED BY <3>1 DEF Range
    <2>3. Head(s) \in Range(s)
        BY <1>1, <1>2 DEF Range
    <2> QED
        BY <2>1, <2>2, <2>3 DEF Range
<1>6. Head(s) # "filter" => r = <<>> \/ Head(r) # "bundle"
    <2> SUFFICES ASSUME r # <<>>, Head(r) = "bundle" PROVE Head(s) = "filter"
        OBVIOUS
    <2>1. 2 \in DOMAIN s /\ s[2] = "bundle"
        BY <1>1, <1>2, <1>3
    <2> QED
        BY <1>2, <2>1 DEF FiltersFirst
<1> QED
    BY <1>2, <1>4, <1>5, <1>6 DEF r

LEMMA StepLists ==
    /\ WriteSteps \in Seq(StepNames) /\ Range(WriteSteps) \subseteq RecordSteps \cup {"drain"}
    /\ UpdateSteps \in Seq(StepNames) /\ Range(UpdateSteps) \subseteq RecordSteps \cup {"drain"}
    /\ CorrectSteps \in Seq(StepNames)
    /\ Range(CorrectSteps) \subseteq RecordSteps \cup OldSteps \cup {"drain"}
    /\ "link" \in Range(CorrectSteps)
    /\ MergeSteps \in Seq(StepNames) /\ Range(MergeSteps) \subseteq OldSteps \cup {"drain"}
    /\ "link" \in Range(MergeSteps)
    /\ RecallSteps \in Seq(StepNames)
    /\ Range(RecallSteps) \cap (RecordSteps \cup OldSteps) = {} /\ FiltersFirst(RecallSteps)
    /\ Head(RecallSteps) # "bundle"
<1> USE DEF StepNames
<1>1. EnqueueAndDrain \in Seq(StepNames) /\ Range(EnqueueAndDrain) = {"upsert", "drain"}
    BY DEF EnqueueAndDrain, Range
<1>2. /\ <<"store", "reread", "index">> \in Seq(StepNames)
      /\ Range(<<"store", "reread", "index">>) = {"store", "reread", "index"}
    BY DEF Range
<1>3. <<"read", "unindex">> \in Seq(StepNames) /\ Range(<<"read", "unindex">>) = {"read", "unindex"}
    BY DEF Range
<1>4. /\ PurgeSteps \in Seq(StepNames)
      /\ Range(PurgeSteps) = {"purge_lexical", "purge_vector", "drain", "purge_artifacts"}
    BY DEF PurgeSteps, Range
<1>5. /\ <<"store", "reread", "status", "link", "index">> \in Seq(StepNames)
      /\ Range(<<"store", "reread", "status", "link", "index">>)
            = {"store", "reread", "status", "link", "index"}
    BY DEF Range
<1>6. /\ <<"guard", "status", "link">> \in Seq(StepNames)
      /\ Range(<<"guard", "status", "link">>) = {"guard", "status", "link"}
    BY DEF Range
<1>7. /\ RecallSteps \in Seq(StepNames)
      /\ Range(RecallSteps)
            = {"search_vector", "search_lexical", "hydrate", "filter", "bundle"}
      /\ FiltersFirst(RecallSteps) /\ Head(RecallSteps) = "search_vector"
    BY DEF RecallSteps, Range, FiltersFirst
<1> DEFINE store == <<"store", "reread", "index">>
           read == <<"read", "unindex">>
           correct == <<"store", "reread", "status", "link", "index">>
           merge == <<"guard", "status", "link">>
<1>8. WriteSteps = store \o EnqueueAndDrain /\ UpdateSteps = read \o WriteSteps
    BY DEF WriteSteps, UpdateSteps
<1>9. CorrectSteps = (correct \o PurgeSteps) \o EnqueueAndDrain /\ MergeSteps = merge \o PurgeSteps
    BY DEF CorrectSteps, MergeSteps
<1>10. /\ store \in Seq(StepNames) /\ Range(store) = {"store", "reread", "index"}
       /\ read \in Seq(StepNames) /\ Range(read) = {"read", "unindex"}
       /\ correct \in Seq(StepNames)
       /\ Range(correct) = {"store", "reread", "status", "link", "index"}
       /\ merge \in Seq(StepNames) /\ Range(merge) = {"guard", "status", "link"}
    BY <1>2, <1>3, <1>5, <1>6
<1> HIDE DEF store, read, correct, merge, StepNames
<1>c. ASSUME NEW a \in Seq(StepNames), NEW b \in Seq(StepNames), NEW c, c = a \o b
      PROVE  c \in Seq(StepNames) /\ Range(c) = Range(a) \cup Range(b)
    BY <1>c, ConcatProperties, RangeConcatenation
<1>11. /\ WriteSteps \in Seq(StepNames)
       /\ Range(WriteSteps) = Range(store) \cup Range(EnqueueAndDrain)
    BY <1>1, <1>8, <1>10, <1>c
<1>12. /\ UpdateSteps \in Seq(StepNames)
       /\ Range(UpdateSteps) = Range(read) \cup Range(WriteSteps)
    <2>1. UpdateSteps = read \o WriteSteps /\ read \in Seq(StepNames)
        BY <1>8, <1>10
    <2>2. WriteSteps \in Seq(StepNames)
        BY <1>11
    <2> QED BY <1>c, <2>1, <2>2
<1>13. /\ MergeSteps \in Seq(StepNames)
       /\ Range(MergeSteps) = Range(merge) \cup Range(PurgeSteps)
    BY <1>4, <1>9, <1>10, <1>c
<1>14. /\ correct \o PurgeSteps \in Seq(StepNames)
       /\ Range(correct \o PurgeSteps) = Range(correct) \cup Range(PurgeSteps)
    BY <1>4, <1>10, <1>c
<1>15. /\ CorrectSteps \in Seq(StepNames)
       /\ Range(CorrectSteps) = Range(correct \o PurgeSteps) \cup Range(EnqueueAndDrain)
    BY <1>1, <1>9, <1>14, <1>c
<1> QED
    BY <1>1, <1>4, <1>7, <1>10, <1>11, <1>12, <1>13, <1>14, <1>15 DEF RecordSteps, OldSteps

-----------------------------------------------------------------------------
(* What a step of the engine does to the store, the surfaces and the log   *)

LEMMA Arguments ==
    ASSUME EngineTyped, NEW t \in Threads, NEW x, Doing(t, x)
    PROVE  /\ call[t] \in CallRecord /\ call[t].steps # <<>>
           /\ x \in Range(call[t].steps)
           /\ x \in RecordSteps => /\ call[t].id \in Ids /\ call[t].row \in Record
                                   /\ call[t].row.status \in Statuses
                                   /\ call[t].row.content \in 0..MaxContent
           /\ x \in OldSteps => Corrects(call[t])
<1>1. call[t] \in CallRecord /\ WellFormed(call[t])
    BY DEF EngineTyped
<1>2. call[t].steps \in Seq(StepNames) /\ call[t].steps # <<>> /\ x = Head(call[t].steps)
    BY <1>1 DEF Doing, CallRecord
<1>3. x \in Range(call[t].steps)
    BY <1>1, <1>2, RestOfSteps DEF WellFormed
<1> QED
    BY <1>1, <1>2, <1>3 DEF WellFormed, Record

LEMMA UpsertTyped ==
    ASSUME NEW ids \in SUBSET Ids, NEW c \in 0..MaxContent
    PROVE  NewOp("upsert_index", ids, c) \in VectorOp
BY DEF NewOp, VectorOp

LEMMA EngineKeeps == EngineTyped /\ [EngineNext]_engineAllVars => JobsInv' /\ StoreMove
<1> SUFFICES ASSUME EngineTyped, [EngineNext]_engineAllVars PROVE JobsInv' /\ StoreMove
    OBVIOUS
<1> DEFINE Goal == JobsInv' /\ StoreMove
<1>t. /\ JobsInv /\ DeletionTypeOK /\ StoreTypeOK
      /\ lexical \in [Ids -> 0..MaxContent \cup {NoEntry}]
      /\ oplog \in Seq(VectorOp) /\ artifacts \subseteq Ids
      /\ interrupts \in Nat /\ used \subseteq Ids
    BY DEF EngineTyped, JobsInv, DeletionTypeOK
(* Whatever else it writes, a step of the engine leaves the jobs alone.    *)
<1>j. ASSUME DeletionTypeOK', job' = job, StoreMove PROVE Goal
    BY <1>j, <1>t, JobsStay DEF JobsInv, StoreMove
<1>s. ASSUME UNCHANGED storeVars PROVE StoreMove
    BY <1>s DEF storeVars, StoreMove, TombstonesStay, IsTombstoned, Exists
<1>u. ASSUME UNCHANGED deletionVars PROVE Goal
    <2>1. DeletionTypeOK' /\ job' = job /\ UNCHANGED storeVars
        BY <1>u, <1>t
        DEF deletionVars, storeVars, surfaceVars, countVars, DeletionTypeOK, StoreTypeOK
    <2> QED BY <1>j, <1>s, <2>1
(* One table is written.                                                   *)
<1>r. ASSUME OnlyStore, StoreTypeOK', tombstones' = tombstones,
             \A r \in Ids : Exists(r) => Exists(r)', dependencies \subseteq dependencies'
      PROVE  Goal
    <2>1. DeletionTypeOK' /\ job' = job
        BY <1>r, <1>t DEF OnlyStore, surfaceVars, countVars, DeletionTypeOK
    <2>2. StoreMove
        BY <1>r DEF StoreMove, TombstonesStay, IsTombstoned
    <2> QED BY <1>j, <2>1, <2>2
<1>l. ASSUME OnlyLexical, lexical' \in [Ids -> 0..MaxContent \cup {NoEntry}] PROVE Goal
    <2>1. DeletionTypeOK' /\ job' = job /\ UNCHANGED storeVars
        BY <1>l, <1>t DEF OnlyLexical, storeVars, countVars, DeletionTypeOK, StoreTypeOK
    <2> QED BY <1>j, <1>s, <2>1
<1>o. ASSUME OnlyLog, NEW o \in VectorOp, oplog' = Append(oplog, o) PROVE Goal
    <2>1. oplog' \in Seq(VectorOp)
        BY <1>o, <1>t, AppendProperties
    <2>2. DeletionTypeOK' /\ job' = job /\ UNCHANGED storeVars
        BY <1>o, <1>t, <2>1
        DEF OnlyLog, storeVars, surfaceVars, countVars, DeletionTypeOK, StoreTypeOK
    <2> QED BY <1>j, <1>s, <2>2
<1>1. ASSUME BeginDelete PROVE Goal
    BY <1>1, <1>t, JobsStep DEF BeginDelete, DeletionNext
<1>2. ASSUME DeletionStep PROVE Goal
    BY <1>2, <1>t, JobsStep DEF DeletionNext
<1>3. ASSUME NEW t \in Threads,
             \/ BeginCall(t) \/ ReadOld(t) \/ Reread(t) \/ MergeGuard(t) \/ LinkRefused(t)
             \/ DrainReturns(t) \/ RecallStep(t)
      PROVE  Goal
    <2>1. UNCHANGED deletionVars
        BY <1>3
        DEF BeginCall, BeginWrite, BeginUpdate, BeginCorrect, BeginMerge, BeginRecall, Begin,
            ReadOld, Reread, MergeGuard, LinkRefused, DrainReturns, RecallStep, SearchVector,
            SearchLexical, Hydrate, Filter, BuildBundle, OnlyCall
    <2> QED BY <1>u, <2>1
<1>4. ASSUME NEW t \in Threads, PatchStatus(t) PROVE Goal
    <2>1. PICK r \in used, s \in PatchStatuses : Exists(r) /\ SetStatus(r, s)
        BY <1>4 DEF PatchStatus
    <2>2. r \in Ids /\ s \in Statuses
        BY <1>t, EngineAssumption
    <2>3. StoreTypeOK' /\ tombstones' = tombstones /\ dependencies' = dependencies
          /\ \A x \in Ids : Exists(x)' <=> Exists(x)
        BY <1>t, <2>1, <2>2, SetStatusTyped
    <2>4. DeletionTypeOK' /\ job' = job
        BY <1>4, <1>t, <2>3 DEF PatchStatus, surfaceVars, countVars, DeletionTypeOK
    <2>5. StoreMove
        BY <2>3 DEF StoreMove, TombstonesStay, IsTombstoned
    <2> QED BY <1>j, <2>4, <2>5
<1>5. ASSUME NEW t \in Threads, Unindex(t) PROVE Goal
    BY <1>5, <1>l, <1>t DEF Unindex, Removed
<1>6. ASSUME NEW t \in Threads, IndexRow(t) PROVE Goal
    <2>1. call[t].row.content \in 0..MaxContent
        BY <1>6, Arguments DEF IndexRow, RecordSteps
    <2> QED BY <1>6, <1>l, <1>t, <2>1 DEF IndexRow
<1>7. ASSUME NEW t \in Threads, PurgeOldLexical(t) PROVE Goal
    BY <1>7, <1>l, <1>t DEF PurgeOldLexical, Removed
<1>8. ASSUME NEW t \in Threads, StoreRow(t) PROVE Goal
    <2>1. /\ call[t].id \in Ids /\ call[t].row.status \in Statuses
          /\ call[t].row.content \in 0..MaxContent
        BY <1>8, Arguments DEF StoreRow, RecordSteps
    <2> QED BY <1>8, <1>r, <1>t, <2>1, WriteTyped DEF StoreRow
<1>9. ASSUME NEW t \in Threads, MarkOld(t) PROVE Goal
    <2>1. call[t].old \in Ids
        BY <1>9, Arguments DEF MarkOld, OldSteps, Corrects
    <2>2. PICK s \in Statuses : SetStatus(call[t].old, s)
        BY <1>9 DEF MarkOld, Statuses
    <2> QED BY <1>9, <1>r, <1>t, <2>1, <2>2, SetStatusTyped DEF MarkOld
<1>10. ASSUME NEW t \in Threads, Link(t) PROVE Goal
    <2>1. call[t].id \in Ids /\ call[t].old \in Ids /\ call[t].rel \in Relations
        BY <1>10, Arguments DEF Link, OldSteps, Corrects, Relations
    <2>2. /\ StoreTypeOK' /\ records' = records /\ tombstones' = tombstones
          /\ dependencies \subseteq dependencies'
        BY <1>10, <1>t, <2>1, AddDependencyTyped DEF Link
    <2> QED BY <1>10, <1>r, <2>2 DEF Link, Exists
<1>11. ASSUME NEW t \in Threads, PurgeOldVector(t) PROVE Goal
    <2>1. call[t].old \in Ids
        BY <1>11, Arguments DEF PurgeOldVector, OldSteps, Corrects
    <2>2. NewOp("remove_index", {call[t].old}, 0) \in VectorOp
        BY <2>1, NewOpTyped
    <2> QED BY <1>11, <1>o, <2>2 DEF PurgeOldVector
<1>12. ASSUME NEW t \in Threads, EnqueueUpsert(t) PROVE Goal
    <2>1. call[t].id \in Ids /\ call[t].row.content \in 0..MaxContent
        BY <1>12, Arguments DEF EnqueueUpsert, RecordSteps
    <2>2. NewOp("upsert_index", {call[t].id}, call[t].row.content) \in VectorOp
        BY <2>1, UpsertTyped
    <2> QED BY <1>12, <1>o, <2>2 DEF EnqueueUpsert
<1>13. ASSUME NEW t \in Threads, PurgeOldArtifacts(t) PROVE Goal
    <2>1. DeletionTypeOK' /\ job' = job /\ UNCHANGED storeVars
        BY <1>13, <1>t DEF PurgeOldArtifacts, storeVars, countVars, DeletionTypeOK, StoreTypeOK
    <2> QED BY <1>j, <1>s, <2>1
<1>14. ASSUME NEW t \in Threads, EngineInterrupt(t) PROVE Goal
    <2>1. DeletionTypeOK' /\ job' = job /\ UNCHANGED storeVars
        BY <1>14, <1>t DEF EngineInterrupt, storeVars, surfaceVars, DeletionTypeOK, StoreTypeOK
    <2> QED BY <1>j, <1>s, <2>1
<1>15. ASSUME EngineApplies PROVE Goal
    <2>1. PICK i \in DOMAIN oplog : ApplyOp(i)
        BY <1>15 DEF EngineApplies
    <2>2. DeletionTypeOK' /\ job' = job /\ UNCHANGED storeVars
        BY <1>t, <2>1, AppliedTyped DEF ApplyOp
    <2> QED BY <1>j, <1>s, <2>2
<1>16. ASSUME UNCHANGED engineAllVars PROVE Goal
    BY <1>16, <1>u DEF engineAllVars
<1> HIDE DEF Goal
<1>17. Goal
    BY <1>1, <1>2, <1>3, <1>4, <1>5, <1>6, <1>7, <1>8, <1>9, <1>10, <1>11, <1>12, <1>13,
       <1>14, <1>15, <1>16
    DEF EngineNext, WriterStep
<1> QED
    BY <1>17 DEF Goal

-----------------------------------------------------------------------------
(* What a step of the engine does to the calls                             *)

(* A call begins with what is deleted and corrected now, goes on to its    *)
(* next step, or is over.  It comes to its bundle from the filter, and     *)
(* past its link with the edge in the graph.                               *)
CallBegins(t) ==
    /\ call[t].steps = <<>>
    /\ \A r \in call'[t].deleted : IsTombstoned(r)
    /\ call'[t].corrected \subseteq corrections
    /\ ~Doing(t, "bundle")'
    /\ call'[t].old # NoEntry => "link" \in Range(call'[t].steps)

Goes(t) ==
    /\ call[t].steps # <<>> /\ call'[t].steps = Rest(t)
    /\ call'[t].id = call[t].id /\ call'[t].old = call[t].old /\ call'[t].rel = call[t].rel
    /\ call'[t].deleted = call[t].deleted /\ call'[t].corrected = call[t].corrected

CallGoesOn(t) ==
    /\ Goes(t)
    /\ Doing(t, "bundle")' => \A r \in Ids : call'[t].rows[r] # Absent => ~IsTombstoned(r)
    /\ Doing(t, "link") => <<call[t].id, call[t].old, call[t].rel>> \in dependencies'

CallEnds(t) ==
    /\ call'[t].steps = <<>> /\ call'[t].old = NoEntry
    /\ call'[t].deleted = {} /\ call'[t].corrected = {}

CallMove(t) == call'[t] = call[t] \/ CallBegins(t) \/ CallGoesOn(t) \/ CallEnds(t)

CallsMove ==
    /\ call' \in [Threads -> CallRecord]
    /\ \A t \in Threads : WellFormed(call'[t]) /\ CallMove(t)

LEMMA OneCall ==
    ASSUME EngineTyped, NEW t \in Threads, NEW c \in CallRecord, WellFormed(c),
           call' = [call EXCEPT ![t] = c], CallMove(t)
    PROVE  CallsMove
<1>1. call \in [Threads -> CallRecord] /\ \A u \in Threads : WellFormed(call[u])
    BY DEF EngineTyped
<1>2. call' \in [Threads -> CallRecord] /\ call'[t] = c
    BY <1>1
<1>3. \A u \in Threads \ {t} : call'[u] = call[u]
    BY <1>1
<1> QED
    BY <1>1, <1>2, <1>3 DEF CallsMove, CallMove

LEMMA StillWellFormed ==
    ASSUME EngineTyped, NEW t \in Threads, call[t].steps # <<>>, NEW c \in CallRecord,
           c.steps = Rest(t), c.id = call[t].id, c.old = call[t].old, c.rel = call[t].rel,
           call[t].row \in Record => c.row \in Record
    PROVE  WellFormed(c)
<1>1. WellFormed(call[t]) /\ call[t].steps \in Seq(StepNames) /\ FiltersFirst(call[t].steps)
    BY DEF EngineTyped, WellFormed, CallRecord
<1>2. Range(c.steps) \subseteq Range(call[t].steps) /\ FiltersFirst(c.steps)
    BY <1>1, RestOfSteps DEF Rest
<1> QED
    BY <1>1, <1>2 DEF WellFormed, Corrects

LEMMA IdleTyped == IdleCall \in CallRecord /\ WellFormed(IdleCall)
<1>1. /\ IdleCall.steps = <<>> /\ <<>> \in Seq(StepNames)
      /\ Range(<<>>) = {} /\ FiltersFirst(<<>>)
    BY DEF IdleCall, Range, FiltersFirst
<1>2. IdleCall \in CallRecord
    <2>1. [r \in Ids |-> Absent] \in [Ids -> Record \cup {Absent}]
        OBVIOUS
    <2> QED
        BY <1>1, <2>1 DEF IdleCall, CallRecord
<1> QED
    BY <1>1, <1>2 DEF WellFormed, IdleCall

LEMMA Abandoned ==
    ASSUME EngineTyped, NEW t \in Threads, Abandon(t)
    PROVE  CallsMove
<1>1. call' = [call EXCEPT ![t] = IdleCall] /\ call'[t] = IdleCall
    BY DEF Abandon, EngineTyped
<1>2. CallEnds(t)
    BY <1>1 DEF CallEnds, IdleCall
<1> QED
    BY <1>1, <1>2, IdleTyped, OneCall DEF CallMove

(* A step other than the filter that goes on with new findings.            *)
LEMMA WentOn ==
    ASSUME EngineTyped, NEW t \in Threads, NEW x, Doing(t, x),
           x = "link" => <<call[t].id, call[t].old, call[t].rel>> \in dependencies',
           NEW c \in CallRecord, call' = [call EXCEPT ![t] = c],
           c.steps = Rest(t), c.id = call[t].id, c.old = call[t].old, c.rel = call[t].rel,
           c.deleted = call[t].deleted, c.corrected = call[t].corrected,
           call[t].row \in Record => c.row \in Record,
           \/ x # "filter"
           \/ \A r \in Ids : c.rows[r] # Absent => ~IsTombstoned(r)
    PROVE  CallsMove
<1>1. call[t].steps # <<>> /\ x = Head(call[t].steps)
    BY DEF Doing
<1>2. WellFormed(c)
    BY <1>1, StillWellFormed
<1>3. call'[t] = c
    BY DEF EngineTyped
<1>4. Goes(t)
    BY <1>1, <1>3 DEF Goes
<1>5. Doing(t, "bundle")' => \A r \in Ids : call'[t].rows[r] # Absent => ~IsTombstoned(r)
    <2>1. call[t].steps \in Seq(StepNames) /\ FiltersFirst(call[t].steps)
        BY DEF EngineTyped, WellFormed, CallRecord
    <2>2. x # "filter" => Rest(t) = <<>> \/ Head(Rest(t)) # "bundle"
        BY <1>1, <2>1, RestOfSteps DEF Rest
    <2> QED
        BY <1>3, <2>2 DEF Doing
<1>6. CallGoesOn(t)
    BY <1>1, <1>4, <1>5 DEF CallGoesOn, Doing
<1> QED
    BY <1>2, <1>6, OneCall DEF CallMove

LEMMA RestTyped ==
    ASSUME EngineTyped, NEW t \in Threads, call[t].steps # <<>>
    PROVE  Rest(t) \in Seq(StepNames) /\ call[t] \in CallRecord
BY RestOfSteps DEF EngineTyped, WellFormed, CallRecord, Rest

LEMMA Advanced ==
    ASSUME EngineTyped, NEW t \in Threads, NEW x, Doing(t, x), x # "filter",
           x = "link" => <<call[t].id, call[t].old, call[t].rel>> \in dependencies',
           Advance(t)
    PROVE  CallsMove
<1>1. CASE Rest(t) = <<>>
    BY <1>1, Abandoned DEF Advance
<1>2. CASE Rest(t) # <<>>
    <2> DEFINE c == [call[t] EXCEPT !.steps = Rest(t)]
    <2>1. Rest(t) \in Seq(StepNames) /\ call[t] \in CallRecord
        BY RestTyped DEF Doing
    <2>2. /\ c \in CallRecord /\ c.steps = Rest(t) /\ c.id = call[t].id /\ c.old = call[t].old
          /\ c.rel = call[t].rel /\ c.deleted = call[t].deleted
          /\ c.corrected = call[t].corrected /\ c.row = call[t].row
        BY <2>1 DEF CallRecord
    <2>3. call' = [call EXCEPT ![t] = c]
        BY <1>2 DEF Advance
    <2> HIDE DEF c
    <2> QED
        BY <2>2, <2>3, WentOn
<1> QED BY <1>1, <1>2

LEMMA Begun ==
    ASSUME EngineTyped, NEW t \in Threads, NEW c \in CallRecord, WellFormed(c), Begin(t, c),
           \A r \in c.deleted : IsTombstoned(r), c.corrected \subseteq corrections,
           c.steps = <<>> \/ Head(c.steps) # "bundle",
           c.old # NoEntry => "link" \in Range(c.steps)
    PROVE  CallsMove
<1>1. call[t].steps = <<>> /\ call' = [call EXCEPT ![t] = c] /\ call'[t] = c
    BY DEF Begin, EngineTyped
<1>2. CallBegins(t)
    BY <1>1 DEF CallBegins, Doing
<1> QED
    BY <1>1, <1>2, OneCall DEF CallMove

LEMMA WithoutBundle ==
    ASSUME NEW s \in Seq(StepNames), "bundle" \notin Range(s)
    PROVE  FiltersFirst(s) /\ (s = <<>> \/ Head(s) # "bundle")
<1>1. FiltersFirst(s)
    BY DEF FiltersFirst, Range
<1> QED
    BY <1>1, RestOfSteps

LEMMA BeginMoves ==
    ASSUME EngineTyped, NEW t \in Threads, BeginCall(t)
    PROVE  CallsMove
<1>t. /\ used \subseteq Ids /\ 0 \in 0..MaxContent
      /\ corrections \subseteq Ids \X Ids \X Relations
    BY DeletionAssumption DEF EngineTyped
<1>n. "bundle" \notin RecordSteps \cup OldSteps \cup {"drain"}
    BY DEF RecordSteps, OldSteps
<1>r. \A c \in 0..MaxContent : [status |-> "active", content |-> c] \in Record
    BY DEF Record, Statuses
(* A call that writes a record, and corrects another or none.              *)
<1>w. ASSUME NEW s \in Seq(StepNames), Range(s) \subseteq RecordSteps \cup {"drain"},
             NEW r \in Ids, NEW row \in Record,
             Begin(t, [IdleCall EXCEPT !.steps = s, !.id = r, !.row = row])
      PROVE  CallsMove
    <2> DEFINE c == [IdleCall EXCEPT !.steps = s, !.id = r, !.row = row]
    <2>1. /\ c \in CallRecord /\ c.steps = s /\ c.id = r /\ c.row = row /\ c.old = NoEntry
          /\ c.deleted = {} /\ c.corrected = {}
        BY IdleTyped DEF IdleCall, CallRecord
    <2>2. FiltersFirst(s) /\ (s = <<>> \/ Head(s) # "bundle")
        BY <1>n, <1>w, WithoutBundle
    <2>3. Range(s) \cap OldSteps = {}
        BY <1>w DEF RecordSteps, OldSteps
    <2> HIDE DEF c
    <2>4. WellFormed(c)
        BY <2>1, <2>2, <2>3 DEF WellFormed
    <2> QED
        BY <1>w, <2>1, <2>2, <2>4, Begun DEF c
<1>1. CASE BeginWrite(t)
    BY <1>1, <1>r, <1>w, StepLists DEF BeginWrite
<1>2. CASE BeginUpdate(t)
    BY <1>2, <1>r, <1>t, <1>w, StepLists DEF BeginUpdate
<1>3. CASE BeginCorrect(t)
    <2>1. PICK r \in Ids, old \in used, rel \in {"supersedes", "contradicts"} :
            Begin(t, [IdleCall EXCEPT !.steps = CorrectSteps, !.id = r, !.old = old,
                                      !.rel = rel,
                                      !.row = [status |-> "active", content |-> 0]])
        BY <1>3 DEF BeginCorrect
    <2> DEFINE row == [status |-> "active", content |-> 0]
               c == [IdleCall EXCEPT !.steps = CorrectSteps, !.id = r, !.old = old,
                                     !.rel = rel, !.row = row]
    <2>2. row \in Record /\ old \in Ids /\ rel \in Relations
        BY <1>r, <1>t DEF Relations
    <2>3. CorrectSteps \in Seq(StepNames)
        BY StepLists
    <2> HIDE DEF row
    <2>4. /\ c \in CallRecord /\ c.steps = CorrectSteps /\ c.id = r /\ c.row = row
          /\ c.old = old /\ c.rel = rel /\ c.deleted = {} /\ c.corrected = {}
        BY <2>2, <2>3, IdleTyped DEF IdleCall, CallRecord
    <2>5. FiltersFirst(CorrectSteps) /\ (CorrectSteps = <<>> \/ Head(CorrectSteps) # "bundle")
        BY <1>n, <2>3, StepLists, WithoutBundle
    <2>6. Begin(t, c)
        BY <2>1 DEF row
    <2> HIDE DEF c
    <2>7. WellFormed(c)
        BY <2>2, <2>4, <2>5 DEF WellFormed, Corrects
    <2> QED
        BY <2>4, <2>5, <2>6, <2>7, StepLists, Begun
<1>4. CASE BeginMerge(t)
    <2>1. PICK primary \in used, duplicate \in used :
            Begin(t, [IdleCall EXCEPT !.steps = MergeSteps, !.id = primary,
                                      !.old = duplicate, !.rel = "supersedes"])
        BY <1>4 DEF BeginMerge
    <2> DEFINE c == [IdleCall EXCEPT !.steps = MergeSteps, !.id = primary,
                                     !.old = duplicate, !.rel = "supersedes"]
    <2>2. primary \in Ids /\ duplicate \in Ids /\ "supersedes" \in Relations
        BY <1>t DEF Relations
    <2>3. MergeSteps \in Seq(StepNames)
        BY StepLists
    <2>4. /\ c \in CallRecord /\ c.steps = MergeSteps /\ c.id = primary
          /\ c.old = duplicate /\ c.rel = "supersedes" /\ c.deleted = {} /\ c.corrected = {}
        BY <2>2, <2>3, IdleTyped DEF IdleCall, CallRecord
    <2>5. FiltersFirst(MergeSteps) /\ (MergeSteps = <<>> \/ Head(MergeSteps) # "bundle")
        BY <1>n, <2>3, StepLists, WithoutBundle
    <2>6. Begin(t, c)
        BY <2>1
    <2>7. Range(MergeSteps) \cap RecordSteps = {}
        <3>1. Range(MergeSteps) \subseteq OldSteps \cup {"drain"}
            BY StepLists
        <3> QED BY <3>1 DEF RecordSteps, OldSteps
    <2> HIDE DEF c
    <2>8. WellFormed(c)
        BY <2>2, <2>4, <2>5, <2>7 DEF WellFormed, Corrects
    <2> QED
        BY <2>4, <2>5, <2>6, <2>8, StepLists, Begun
<1>5. CASE BeginRecall(t)
    <2> DEFINE deleted == {r \in Ids : IsTombstoned(r)}
               c == [IdleCall EXCEPT !.steps = RecallSteps, !.deleted = deleted,
                                     !.corrected = corrections]
    <2>1. Begin(t, c)
        BY <1>5 DEF BeginRecall
    <2>2. deleted \subseteq Ids /\ \A r \in deleted : IsTombstoned(r)
        OBVIOUS
    <2>3. RecallSteps \in Seq(StepNames)
        BY StepLists
    <2> HIDE DEF deleted
    <2>4. /\ c \in CallRecord /\ c.steps = RecallSteps /\ c.old = NoEntry
          /\ c.deleted = deleted /\ c.corrected = corrections
        BY <1>t, <2>2, <2>3, IdleTyped DEF IdleCall, CallRecord
    <2> HIDE DEF c
    <2>5. /\ Range(RecallSteps) \cap RecordSteps = {} /\ Range(RecallSteps) \cap OldSteps = {}
          /\ FiltersFirst(RecallSteps) /\ Head(RecallSteps) # "bundle"
        BY StepLists
    <2>6. WellFormed(c)
        BY <2>4, <2>5 DEF WellFormed
    <2> QED
        BY <2>1, <2>2, <2>4, <2>5, <2>6, Begun
<1> QED
    BY <1>1, <1>2, <1>3, <1>4, <1>5 DEF BeginCall

LEMMA WriterMoves ==
    ASSUME EngineTyped, NEW t \in Threads, WriterStep(t)
    PROVE  CallsMove
<1>1. CASE \/ Unindex(t) \/ StoreRow(t) \/ IndexRow(t) \/ MarkOld(t) \/ PurgeOldLexical(t)
           \/ PurgeOldVector(t) \/ PurgeOldArtifacts(t) \/ EnqueueUpsert(t) \/ DrainReturns(t)
    <2>1. \E x \in StepNames \ {"filter", "link"} : Doing(t, x) /\ Advance(t)
        BY <1>1
        DEF Unindex, StoreRow, IndexRow, MarkOld, PurgeOldLexical, PurgeOldVector,
            PurgeOldArtifacts, EnqueueUpsert, DrainReturns, StepNames
    <2> QED BY <2>1, Advanced
<1>2. CASE MergeGuard(t)
    BY <1>2, Abandoned, Advanced DEF MergeGuard
<1>3. CASE LinkRefused(t)
    BY <1>3, Abandoned DEF LinkRefused
<1>4. CASE Link(t)
    <2>1. <<call[t].id, call[t].old, call[t].rel>> \in dependencies'
        BY <1>4 DEF Link, AddDependency
    <2> QED BY <1>4, <2>1, Advanced DEF Link
<1>5. CASE ReadOld(t)
    <2>1. CASE ~RowFound(call[t].id)
        BY <1>5, <2>1, Abandoned DEF ReadOld
    <2>2. CASE RowFound(call[t].id)
        <3>1. /\ call[t] \in CallRecord /\ call[t].id \in Ids /\ call[t].row \in Record
              /\ Rest(t) \in Seq(StepNames)
            BY <1>5, Arguments, RestTyped DEF ReadOld, RecordSteps
        <3>2. records[call[t].id].status \in Statuses
            BY <2>2, <3>1
            DEF RowFound, Exists, EngineTyped, JobsInv, DeletionTypeOK, StoreTypeOK, Record
        <3> DEFINE row == [call[t].row EXCEPT !.status = records[call[t].id].status]
                   c == [call[t] EXCEPT !.steps = Rest(t), !.row = row]
        <3>3. row \in Record
            BY <3>1, <3>2 DEF Record
        <3>4. call' = [call EXCEPT ![t] = c]
            BY <1>5, <2>2, <3>1 DEF ReadOld, CallRecord
        <3> HIDE DEF row
        <3>5. /\ c \in CallRecord /\ c.steps = Rest(t) /\ c.id = call[t].id
              /\ c.old = call[t].old /\ c.rel = call[t].rel /\ c.deleted = call[t].deleted
              /\ c.corrected = call[t].corrected /\ c.row = row
            BY <3>1, <3>3 DEF CallRecord
        <3> HIDE DEF c
        <3>6. PICK x : Doing(t, x) /\ x # "filter" /\ x # "link"
            BY <1>5 DEF ReadOld
        <3>7. call[t].row \in Record => c.row \in Record
            BY <3>3, <3>5
        <3> QED BY <3>4, <3>5, <3>6, <3>7, WentOn
    <2> QED BY <2>1, <2>2
<1>6. CASE Reread(t)
    <2> DEFINE row == IF Exists(call[t].id) THEN records[call[t].id] ELSE call[t].row
               c == [call[t] EXCEPT !.steps = Rest(t), !.row = row]
    <2>1. /\ call[t] \in CallRecord /\ call[t].id \in Ids /\ call[t].row \in Record
          /\ Rest(t) \in Seq(StepNames)
        BY <1>6, Arguments, RestTyped DEF Reread, RecordSteps
    <2>2. row \in Record
        BY <2>1 DEF Exists, EngineTyped, JobsInv, DeletionTypeOK, StoreTypeOK
    <2>3. call' = [call EXCEPT ![t] = c]
        BY <1>6, <2>1 DEF Reread, CallRecord
    <2> HIDE DEF row
    <2>4. /\ c \in CallRecord /\ c.steps = Rest(t) /\ c.id = call[t].id
          /\ c.old = call[t].old /\ c.rel = call[t].rel /\ c.deleted = call[t].deleted
          /\ c.corrected = call[t].corrected /\ c.row = row
        BY <2>1, <2>2 DEF CallRecord
    <2> HIDE DEF c
    <2>5. PICK x : Doing(t, x) /\ x # "filter" /\ x # "link"
        BY <1>6 DEF Reread
    <2>6. call[t].row \in Record => c.row \in Record
        BY <2>2, <2>4
    <2> QED BY <2>3, <2>4, <2>5, <2>6, WentOn
<1> QED
    BY <1>1, <1>2, <1>3, <1>4, <1>5, <1>6 DEF WriterStep

LEMMA RecallMoves ==
    ASSUME EngineTyped, NEW t \in Threads, RecallStep(t)
    PROVE  CallsMove
<1>t. /\ records \in [Ids -> Record \cup {Absent}]
      /\ vector \in [Ids -> 0..MaxContent \cup {NoEntry}]
    BY DEF EngineTyped, JobsInv, DeletionTypeOK, StoreTypeOK
<1>c. ASSUME call[t].steps # <<>>
      PROVE  /\ call[t] \in CallRecord /\ Rest(t) \in Seq(StepNames)
             /\ call[t].hits \subseteq Ids \X (0..MaxContent)
             /\ call[t].rows \in [Ids -> Record \cup {Absent}]
    BY <1>c, RestTyped DEF CallRecord
<1>h. ASSUME NEW x, Doing(t, x), x \notin {"filter", "link"},
             NEW hits \in SUBSET (Ids \X (0..MaxContent)),
             call' = [call EXCEPT ![t].steps = Rest(t), ![t].hits = hits]
      PROVE  CallsMove
    <2> DEFINE c == [call[t] EXCEPT !.steps = Rest(t), !.hits = hits]
    <2>1. call[t] \in CallRecord /\ Rest(t) \in Seq(StepNames)
        BY <1>c, <1>h DEF Doing
    <2>2. call' = [call EXCEPT ![t] = c]
        BY <1>h, <2>1
    <2>3. /\ c \in CallRecord /\ c.steps = Rest(t) /\ c.id = call[t].id
          /\ c.old = call[t].old /\ c.rel = call[t].rel /\ c.deleted = call[t].deleted
          /\ c.corrected = call[t].corrected /\ c.row = call[t].row
        BY <2>1 DEF CallRecord
    <2> HIDE DEF c
    <2> QED BY <1>h, <2>2, <2>3, WentOn
<1>r. ASSUME NEW x, Doing(t, x), x # "link",
             NEW rows \in [Ids -> Record \cup {Absent}],
             call' = [call EXCEPT ![t].steps = Rest(t), ![t].rows = rows],
             x # "filter" \/ \A r \in Ids : rows[r] # Absent => ~IsTombstoned(r)
      PROVE  CallsMove
    <2> DEFINE c == [call[t] EXCEPT !.steps = Rest(t), !.rows = rows]
    <2>1. call[t] \in CallRecord /\ Rest(t) \in Seq(StepNames)
        BY <1>c, <1>r DEF Doing
    <2>2. call' = [call EXCEPT ![t] = c]
        BY <1>r, <2>1
    <2>3. /\ c \in CallRecord /\ c.steps = Rest(t) /\ c.id = call[t].id
          /\ c.old = call[t].old /\ c.rel = call[t].rel /\ c.deleted = call[t].deleted
          /\ c.corrected = call[t].corrected /\ c.row = call[t].row /\ c.rows = rows
        BY <2>1 DEF CallRecord
    <2>4. x # "filter" \/ \A r \in Ids : c.rows[r] # Absent => ~IsTombstoned(r)
        BY <1>r, <2>3
    <2>5. Doing(t, x) /\ x # "link"
        BY <1>r
    <2> HIDE DEF c
    <2> QED BY <2>2, <2>3, <2>4, <2>5, WentOn
<1>1. CASE SearchVector(t)
    <2>1. {<<r, vector[r]>> : r \in Contained(vector, Ids)} \subseteq Ids \X (0..MaxContent)
        BY <1>t DEF Contained
    <2>2. Doing(t, "search_vector")
        BY <1>1 DEF SearchVector
    <2> QED BY <1>1, <1>h, <2>1, <2>2 DEF SearchVector
<1>2. CASE SearchLexical(t)
    <2> DEFINE new == {<<r, records[r].content>> : r \in {x \in Contained(lexical, Ids) : InForce(x)}}
    <2>1. new \subseteq Ids \X (0..MaxContent)
        BY <1>t DEF Contained, InForce, Exists, Record
    <2>2. call[t].steps # <<>> /\ call[t].hits \subseteq Ids \X (0..MaxContent)
        BY <1>2, <1>c DEF SearchLexical, Doing
    <2>3. call' = [call EXCEPT ![t].steps = Rest(t), ![t].hits = call[t].hits \cup new]
        BY <1>2, <1>c, <2>2 DEF SearchLexical
    <2> HIDE DEF new
    <2>4. Doing(t, "search_lexical") /\ call[t].hits \cup new \in SUBSET (Ids \X (0..MaxContent))
        BY <1>2, <2>1, <2>2 DEF SearchLexical
    <2> QED BY <1>h, <2>3, <2>4
<1>3. CASE Hydrate(t)
    <2> DEFINE rows == [r \in Ids |-> IF \E h \in call[t].hits : h[1] = r THEN records[r]
                                     ELSE Absent]
    <2>1. rows \in [Ids -> Record \cup {Absent}]
        BY <1>t
    <2>2. call' = [call EXCEPT ![t].steps = Rest(t), ![t].rows = rows]
        BY <1>3 DEF Hydrate
    <2>3. PICK x : Doing(t, x) /\ x # "filter" /\ x # "link"
        BY <1>3 DEF Hydrate
    <2> HIDE DEF rows
    <2> QED BY <1>r, <2>1, <2>2, <2>3
<1>4. CASE Filter(t)
    <2> DEFINE rows == [r \in Ids |-> IF Survives(t, r) THEN call[t].rows[r] ELSE Absent]
    <2>1. call[t].steps # <<>> /\ call[t].rows \in [Ids -> Record \cup {Absent}]
        BY <1>4, <1>c DEF Filter, Doing
    <2>2. /\ rows \in [Ids -> Record \cup {Absent}]
          /\ \A r \in Ids : rows[r] # Absent => ~IsTombstoned(r)
        BY <2>1 DEF Survives
    <2>3. call' = [call EXCEPT ![t].steps = Rest(t), ![t].rows = rows]
        BY <1>4, <1>c, <2>1 DEF Filter
    <2> HIDE DEF rows
    <2>4. Doing(t, "filter")
        BY <1>4 DEF Filter
    <2> QED BY <1>r, <2>2, <2>3, <2>4
<1>5. CASE BuildBundle(t)
    <2>1. PICK beliefs \in SUBSET Ids, conflicts \in SUBSET Ids, standing \in SUBSET Ids :
            call' = [call EXCEPT ![t] = [IdleCall EXCEPT !.beliefs = beliefs,
                                                         !.conflicts = conflicts,
                                                         !.standing = standing]]
        <3>0. PICK standing \in SUBSET {r \in Ids : call[t].rows[r] # Absent} :
                LET current == {r \in Ids \ standing : Current(t, r)}
                    disputed == {r \in current : \E x \in ContradictorIds(r) : InForce(x)}
                IN call' = [call EXCEPT ![t] = [IdleCall EXCEPT
                                !.beliefs = current \ disputed, !.conflicts = disputed,
                                !.standing = standing]]
            BY <1>5 DEF BuildBundle
        <3> DEFINE current == {r \in Ids \ standing : Current(t, r)}
                   disputed == {r \in current : \E x \in ContradictorIds(r) : InForce(x)}
        <3>1. /\ current \ disputed \in SUBSET Ids /\ disputed \in SUBSET Ids
              /\ standing \in SUBSET Ids
            OBVIOUS
        <3>2. call' = [call EXCEPT ![t] = [IdleCall EXCEPT
                            !.beliefs = current \ disputed, !.conflicts = disputed,
                            !.standing = standing]]
            BY <3>0
        <3> HIDE DEF current, disputed
        <3> QED BY <3>1, <3>2
    <2> DEFINE c == [IdleCall EXCEPT !.beliefs = beliefs, !.conflicts = conflicts,
                                     !.standing = standing]
    <2>2. /\ c \in CallRecord /\ c.steps = <<>> /\ c.old = NoEntry
          /\ c.deleted = {} /\ c.corrected = {}
        BY IdleTyped DEF IdleCall, CallRecord
    <2>3. call' = [call EXCEPT ![t] = c]
        BY <2>1
    <2> HIDE DEF c
    <2>4. WellFormed(c)
        BY <2>2 DEF WellFormed, FiltersFirst, Range
    <2>5. call'[t] = c
        BY <2>3 DEF EngineTyped
    <2>6. CallEnds(t)
        BY <2>2, <2>5 DEF CallEnds
    <2> QED BY <2>2, <2>3, <2>4, <2>6, OneCall DEF CallMove
<1> QED
    BY <1>1, <1>2, <1>3, <1>4, <1>5 DEF RecallStep

LEMMA EngineCalls == EngineTyped /\ [EngineNext]_engineAllVars => CallsMove
<1> SUFFICES ASSUME EngineTyped, [EngineNext]_engineAllVars PROVE CallsMove
    OBVIOUS
<1>1. ASSUME call' = call PROVE CallsMove
    BY <1>1 DEF CallsMove, CallMove, EngineTyped
<1>2. ASSUME BeginDelete \/ (DeletionStep /\ UNCHANGED engineVars) \/ EngineApplies
      PROVE  CallsMove
    BY <1>1, <1>2 DEF BeginDelete, EngineApplies, engineVars
<1>3. ASSUME NEW t \in Threads, PatchStatus(t) PROVE CallsMove
    BY <1>1, <1>3 DEF PatchStatus
<1>4. ASSUME NEW t \in Threads, EngineInterrupt(t) PROVE CallsMove
    BY <1>4, Abandoned DEF EngineInterrupt
<1>5. ASSUME UNCHANGED engineAllVars PROVE CallsMove
    BY <1>1, <1>5 DEF engineAllVars, engineVars
<1>6. ASSUME NEW t \in Threads, BeginCall(t) \/ WriterStep(t) \/ RecallStep(t) PROVE CallsMove
    BY <1>6, BeginMoves, WriterMoves, RecallMoves
<1>7. EngineNext \/ UNCHANGED engineAllVars
    OBVIOUS
<1> QED
    BY <1>2, <1>3, <1>4, <1>5, <1>6, <1>7 DEF EngineNext

-----------------------------------------------------------------------------
(* Types                                                                   *)

(* A correction is noted by a call that has gone past its link.            *)
Noted ==
    /\ corrections \subseteq corrections'
    /\ \A c \in corrections' \ corrections : \E t \in Threads :
        /\ call[t].old # NoEntry /\ "link" \notin Range(call[t].steps)
        /\ c = <<call[t].id, call[t].old, call[t].rel>>

LEMMA NotedWithLink ==
    ASSUME EngineTyped, NEW t \in Threads, NEW x, Doing(t, x), x # "link", NoteCorrection(t)
    PROVE  Noted
<1>1. /\ call[t].steps \in Seq(StepNames) /\ FiltersFirst(call[t].steps)
      /\ call[t].steps # <<>> /\ x = Head(call[t].steps)
    BY DEF EngineTyped, WellFormed, CallRecord, Doing
<1>2. Range(call[t].steps) = {x} \cup Range(Rest(t))
    BY <1>1, RestOfSteps DEF Rest
<1>3. Rest(t) = <<>> => Range(Rest(t)) = {}
    BY DEF Range
<1> QED
    BY <1>2, <1>3 DEF Noted, NoteCorrection

LEMMA EngineHistory ==
    EngineTyped /\ [EngineNext]_engineAllVars => used' \subseteq Ids /\ calls' \in Nat /\ Noted
<1> SUFFICES ASSUME EngineTyped, [EngineNext]_engineAllVars
             PROVE  used' \subseteq Ids /\ calls' \in Nat /\ Noted
    OBVIOUS
<1> DEFINE Goal == used' \subseteq Ids /\ calls' \in Nat /\ Noted
<1>t. used \subseteq Ids /\ calls \in Nat /\ calls + 1 \in Nat
    BY DEF EngineTyped
<1>n. ASSUME corrections' = corrections PROVE Noted
    BY <1>n DEF Noted
<1>1. ASSUME BeginDelete \/ (DeletionStep /\ UNCHANGED engineVars) \/ EngineApplies PROVE Goal
    BY <1>1, <1>n, <1>t DEF BeginDelete, EngineApplies, engineVars
<1>2. ASSUME NEW t \in Threads, BeginCall(t) \/ PatchStatus(t) PROVE Goal
    <2>1. used' \subseteq Ids
        BY <1>2, <1>t
        DEF BeginCall, BeginWrite, BeginUpdate, BeginCorrect, BeginMerge, BeginRecall, FreshId,
            PatchStatus
    <2>2. calls' = calls + 1 /\ corrections' = corrections
        BY <1>2
        DEF BeginCall, BeginWrite, BeginUpdate, BeginCorrect, BeginMerge, BeginRecall, Begin,
            PatchStatus
    <2> QED BY <1>n, <1>t, <2>1, <2>2
<1>3. ASSUME NEW t \in Threads, WriterStep(t) PROVE Goal
    <2>1. CASE PurgeOldArtifacts(t) \/ DrainReturns(t)
        <3>1. PICK x : Doing(t, x) /\ x # "link" /\ NoteCorrection(t)
            BY <2>1 DEF PurgeOldArtifacts, DrainReturns
        <3> QED BY <1>t, <2>1, <3>1, NotedWithLink DEF PurgeOldArtifacts, DrainReturns
    <2>2. CASE ~(PurgeOldArtifacts(t) \/ DrainReturns(t))
        <3>1. used' = used /\ corrections' = corrections /\ calls' = calls
            BY <1>3, <2>2
            DEF WriterStep, ReadOld, Unindex, StoreRow, Reread, IndexRow, MergeGuard, MarkOld,
                Link, LinkRefused, PurgeOldLexical, PurgeOldVector, EnqueueUpsert, OnlyStore,
                OnlyLexical, OnlyLog, OnlyCall
        <3> QED BY <1>n, <1>t, <3>1
    <2> QED BY <2>1, <2>2
<1>4. ASSUME NEW t \in Threads, RecallStep(t) \/ EngineInterrupt(t) PROVE Goal
    BY <1>4, <1>n, <1>t
    DEF RecallStep, SearchVector, SearchLexical, Hydrate, Filter, BuildBundle, OnlyCall,
        EngineInterrupt
<1>5. ASSUME UNCHANGED engineAllVars PROVE Goal
    BY <1>5, <1>n, <1>t DEF engineAllVars, engineVars
<1> HIDE DEF Goal
<1>6. EngineNext \/ UNCHANGED engineAllVars
    OBVIOUS
<1>7. Goal
    BY <1>1, <1>2, <1>3, <1>4, <1>5, <1>6 DEF EngineNext
<1> QED
    BY <1>7 DEF Goal

LEMMA EngineTypedStep == EngineTyped /\ [EngineNext]_engineAllVars => EngineTyped'
<1> SUFFICES ASSUME EngineTyped, [EngineNext]_engineAllVars PROVE EngineTyped'
    OBVIOUS
<1>1. JobsInv' /\ CallsMove /\ used' \subseteq Ids /\ calls' \in Nat /\ Noted
    BY EngineKeeps, EngineCalls, EngineHistory
<1>2. /\ corrections' \subseteq Ids \X Ids \X Relations
      /\ \A c \in corrections' : c[3] \in {"supersedes", "contradicts"}
    <2>1. \A t \in Threads : call[t].old # NoEntry =>
            /\ <<call[t].id, call[t].old, call[t].rel>> \in Ids \X Ids \X Relations
            /\ call[t].rel \in {"supersedes", "contradicts"}
        BY DEF EngineTyped, WellFormed, Corrects, Relations
    <2> QED
        BY <1>1, <2>1 DEF Noted, EngineTyped
<1> QED
    BY <1>1, <1>2 DEF CallsMove, EngineTyped

LEMMA EngineTypedInit == EngineInit => EngineTyped
<1> SUFFICES ASSUME EngineInit PROVE EngineTyped
    OBVIOUS
<1>1. DeletionTypeOK /\ JobsTombstone
    BY FirstInit DEF EngineInit, FirstInv
<1>2. used \subseteq Ids
    BY DeletionAssumption DEF EngineInit
<1> QED
    BY <1>1, <1>2, IdleTyped DEF EngineInit, EngineTyped, JobsInv

(* Every variable keeps its type, and a row a writer is about to store is  *)
(* a row: whatever has happened to the record since the writer read it.    *)
THEOREM EngineTypeCorrect == EngineSpec => []EngineTypeOK
<1>1. EngineTyped => EngineTypeOK
    BY Arguments DEF EngineTyped, JobsInv, EngineTypeOK, RecordSteps
<1> QED
    BY EngineTypedInit, EngineTypedStep, <1>1, PTL DEF EngineSpec

-----------------------------------------------------------------------------
(* Deletion integrity                                                      *)

LEMMA RecallStays ==
    EngineTyped /\ RecallInv /\ [EngineNext]_engineAllVars => RecallInv'
<1> SUFFICES ASSUME EngineTyped, RecallInv, [EngineNext]_engineAllVars,
                    NEW t \in Threads
             PROVE  /\ \A r \in call'[t].deleted : IsTombstoned(r)'
                    /\ Doing(t, "bundle")' => \A r \in Ids :
                            call'[t].rows[r] # Absent => r \notin call'[t].deleted
    BY DEF RecallInv
<1>1. StoreMove /\ CallMove(t)
    BY EngineKeeps, EngineCalls DEF CallsMove
<1>2. call'[t] \in CallRecord /\ call[t] \in CallRecord
    BY EngineCalls DEF CallsMove, EngineTyped
<1>3. call'[t].deleted \subseteq Ids /\ \A r \in Ids : IsTombstoned(r) => IsTombstoned(r)'
    BY <1>1, <1>2 DEF CallRecord, StoreMove, TombstonesStay
<1>4. CASE call'[t] = call[t]
    BY <1>3, <1>4 DEF RecallInv, Doing
<1>5. CASE CallBegins(t)
    BY <1>3, <1>5 DEF CallBegins
<1>6. CASE CallGoesOn(t)
    <2>1. call'[t].deleted = call[t].deleted /\ \A r \in call[t].deleted : IsTombstoned(r)
        BY <1>6 DEF CallGoesOn, Goes, RecallInv
    <2>2. Doing(t, "bundle")' => \A r \in Ids : call'[t].rows[r] # Absent => ~IsTombstoned(r)
        BY <1>6 DEF CallGoesOn
    <2> QED BY <1>3, <2>1, <2>2
<1>7. CASE CallEnds(t)
    BY <1>7 DEF CallEnds, Doing
<1> QED
    BY <1>1, <1>4, <1>5, <1>6, <1>7 DEF CallMove

(* The step by which a recall returns is the one that builds its bundle,   *)
(* or an interruption, which leaves none.                                  *)
Bundled(t) ==
    /\ Bundle(t)' \subseteq {r \in Ids : call[t].rows[r] # Absent}
    /\ call'[t].beliefs \cup call'[t].conflicts \subseteq {r \in Ids : Current(t, r)}
    /\ \A r \in call'[t].beliefs : \A x \in ContradictorIds(r) : ~InForce(x)

LEMMA Returned ==
    ASSUME EngineTyped, [EngineNext]_engineAllVars, NEW t \in Threads, Returns(t)
    PROVE  Bundled(t)
<1>c. call \in [Threads -> CallRecord]
    BY DEF EngineTyped
<1>r. /\ call[t].steps # <<>> /\ Head(call[t].steps) = "bundle"
      /\ call'[t] # call[t]
    BY DEF Returns, Doing
<1>1. ASSUME BeginDelete \/ (DeletionStep /\ UNCHANGED engineVars) \/ EngineApplies
      PROVE  call' = call
    BY <1>1 DEF BeginDelete, EngineApplies, engineVars
<1>2. ASSUME NEW u \in Threads, PatchStatus(u) PROVE call' = call
    BY <1>2 DEF PatchStatus
<1>3. ASSUME NEW u \in Threads \ {t},
             BeginCall(u) \/ WriterStep(u) \/ RecallStep(u) \/ EngineInterrupt(u)
      PROVE  call'[t] = call[t]
    <2>1. CASE Advance(u) \/ Abandon(u)
        BY <1>c, <2>1 DEF Advance, Abandon
    <2>2. CASE BeginCall(u)
        BY <1>c, <2>2
        DEF BeginCall, BeginWrite, BeginUpdate, BeginCorrect, BeginMerge, BeginRecall, Begin
    <2>3. CASE RecallStep(u)
        BY <1>c, <2>3 DEF RecallStep, SearchVector, SearchLexical, Hydrate, Filter, BuildBundle
    <2>4. CASE ReadOld(u) \/ Reread(u)
        BY <1>c, <2>1, <2>4 DEF ReadOld, Reread
    <2>5. CASE WriterStep(u) /\ ~(ReadOld(u) \/ Reread(u))
        BY <2>1, <2>5
        DEF WriterStep, Unindex, StoreRow, IndexRow, MergeGuard, MarkOld, Link, LinkRefused,
            PurgeOldLexical, PurgeOldVector, PurgeOldArtifacts, EnqueueUpsert, DrainReturns
    <2>6. CASE EngineInterrupt(u)
        BY <2>1, <2>6 DEF EngineInterrupt
    <2> QED BY <1>3, <2>2, <2>3, <2>4, <2>5, <2>6
<1>4. ~BeginCall(t)
    BY <1>r
    DEF BeginCall, BeginWrite, BeginUpdate, BeginCorrect, BeginMerge, BeginRecall, Begin
<1>5. ~WriterStep(t)
    BY <1>r
    DEF WriterStep, ReadOld, Unindex, StoreRow, Reread, IndexRow, MergeGuard, MarkOld, Link,
        LinkRefused, PurgeOldLexical, PurgeOldVector, PurgeOldArtifacts, EnqueueUpsert,
        DrainReturns, Doing
<1>6. ASSUME RecallStep(t) PROVE BuildBundle(t)
    BY <1>6, <1>r DEF RecallStep, SearchVector, SearchLexical, Hydrate, Filter, Doing
<1>7. ASSUME EngineInterrupt(t) PROVE Bundled(t)
    <2>1. call'[t] = IdleCall
        BY <1>7, <1>c DEF EngineInterrupt, Abandon
    <2> QED BY <2>1 DEF Bundled, Bundle, IdleCall
<1>8. ASSUME BuildBundle(t) PROVE Bundled(t)
    <2>0. PICK standing \in SUBSET {r \in Ids : call[t].rows[r] # Absent} :
            LET current == {r \in Ids \ standing : Current(t, r)}
                disputed == {r \in current : \E x \in ContradictorIds(r) : InForce(x)}
            IN call' = [call EXCEPT ![t] = [IdleCall EXCEPT
                            !.beliefs = current \ disputed, !.conflicts = disputed,
                            !.standing = standing]]
        BY <1>8 DEF BuildBundle
    <2> DEFINE current == {r \in Ids \ standing : Current(t, r)}
               disputed == {r \in current : \E x \in ContradictorIds(r) : InForce(x)}
    <2>1. call' = [call EXCEPT ![t] = [IdleCall EXCEPT
                        !.beliefs = current \ disputed, !.conflicts = disputed,
                        !.standing = standing]]
        BY <2>0
    <2>2. \A r \in current \ disputed : \A x \in ContradictorIds(r) : ~InForce(x)
        OBVIOUS
    <2>3. disputed \subseteq current
        OBVIOUS
    <2> HIDE DEF disputed
    <2>4. /\ call'[t].beliefs = current \ disputed /\ call'[t].conflicts = disputed
          /\ call'[t].standing = standing
        <3> HIDE DEF current
        <3> QED BY <1>c, <2>1 DEF IdleCall
    <2>5. \A r \in Ids : Current(t, r) => call[t].rows[r] # Absent
        BY DEF Current, Absent
    <2> QED BY <2>0, <2>2, <2>3, <2>4, <2>5 DEF Bundled, Bundle
<1>9. EngineNext \/ UNCHANGED engineAllVars
    OBVIOUS
<1>10. ~UNCHANGED engineAllVars
    BY <1>r DEF engineAllVars, engineVars
<1>11. CASE \E u \in Threads :
            BeginCall(u) \/ PatchStatus(u) \/ WriterStep(u) \/ RecallStep(u) \/ EngineInterrupt(u)
    <2>1. PICK u \in Threads :
            BeginCall(u) \/ PatchStatus(u) \/ WriterStep(u) \/ RecallStep(u) \/ EngineInterrupt(u)
        BY <1>11
    <2>2. u = t
        BY <1>2, <1>3, <1>r, <2>1
    <2> QED BY <1>2, <1>4, <1>5, <1>6, <1>7, <1>8, <1>r, <2>1, <2>2
<1> QED
    BY <1>1, <1>9, <1>10, <1>11, <1>r DEF EngineNext

(* What was tombstoned when the recall began has no row left in it.        *)
LEMMA NothingDeleted ==
    ASSUME EngineTyped, RecallInv, [EngineNext]_engineAllVars, NEW t \in Threads, Returns(t)
    PROVE  Bundle(t)' \cap call[t].deleted = {}
<1>1. Bundle(t)' \subseteq {r \in Ids : call[t].rows[r] # Absent}
    BY Returned DEF Bundled
<1>2. \A r \in Ids : call[t].rows[r] # Absent => r \notin call[t].deleted
    BY DEF RecallInv, Returns
<1> QED
    BY <1>1, <1>2

LEMMA RecallInit == EngineInit => RecallInv
BY DEF EngineInit, RecallInv, IdleCall, Doing

(* Deletion integrity of recall: no bundle holds a record that was         *)
(* tombstoned before the recall began, whatever writers have put back into *)
(* the store and the indexes since.                                        *)
THEOREM RecallForgets == EngineSpec => DeletionIntegrity
<1> DEFINE Inv == EngineTyped /\ RecallInv
           Step == \A t \in Threads : Returns(t) => Bundle(t)' \cap call[t].deleted = {}
<1>1. EngineInit => Inv
    BY EngineTypedInit, RecallInit
<1>2. Inv /\ [EngineNext]_engineAllVars => Inv'
    BY EngineTypedStep, RecallStays
<1>3. Inv /\ [EngineNext]_engineAllVars => [Step]_engineAllVars
    BY NothingDeleted
<1> QED
    BY <1>1, <1>2, <1>3, PTL DEF EngineSpec, DeletionIntegrity

-----------------------------------------------------------------------------
(* Corrections                                                             *)

LEMMA LinkedStays ==
    ASSUME StoreMove, NEW c \in Ids \X Ids \X Relations, LinkedOrDeleted(c)
    PROVE  LinkedOrDeleted(c)'
<1>1. c[1] \in Ids /\ c[2] \in Ids
    OBVIOUS
<1> QED
    BY <1>1 DEF StoreMove, TombstonesStay, LinkedOrDeleted

LEMMA CorrectionStays ==
    EngineTyped /\ CorrectionInv /\ [EngineNext]_engineAllVars => CorrectionInv'
<1> SUFFICES ASSUME EngineTyped, CorrectionInv, [EngineNext]_engineAllVars
             PROVE  CorrectionInv'
    OBVIOUS
<1>1. StoreMove /\ CallsMove /\ Noted /\ EngineTyped'
    BY EngineKeeps, EngineCalls, EngineHistory, EngineTypedStep
<1> DEFINE edge(t) == <<call[t].id, call[t].old, call[t].rel>>
<1>2. ASSUME NEW t \in Threads, call[t].old # NoEntry
      PROVE  edge(t) \in Ids \X Ids \X Relations
    BY <1>2 DEF EngineTyped, WellFormed, Corrects, Relations
<1>3. ASSUME NEW t \in Threads, call[t].old # NoEntry, "link" \notin Range(call[t].steps)
      PROVE  LinkedOrDeleted(edge(t)) /\ edge(t) \in Ids \X Ids \X Relations
    BY <1>2, <1>3 DEF CorrectionInv
<1>4. \A c \in corrections' : LinkedOrDeleted(c)'
    <2> SUFFICES ASSUME NEW c \in corrections' PROVE LinkedOrDeleted(c)'
        OBVIOUS
    <2>1. LinkedOrDeleted(c) /\ c \in Ids \X Ids \X Relations
        BY <1>1, <1>3 DEF Noted, CorrectionInv, EngineTyped
    <2> QED BY <1>1, <2>1, LinkedStays
<1>5. ASSUME NEW t \in Threads PROVE call'[t].corrected \subseteq corrections'
    BY <1>1 DEF CallsMove, CallMove, CallBegins, CallGoesOn, Goes, CallEnds, CorrectionInv, Noted
<1>6. ASSUME NEW t \in Threads, call'[t].old # NoEntry, "link" \notin Range(call'[t].steps)
      PROVE  LinkedOrDeleted(edge(t))' 
    <2>1. CASE call'[t] = call[t]
        <3>1. LinkedOrDeleted(edge(t)) /\ edge(t) \in Ids \X Ids \X Relations
            BY <1>3, <1>6, <2>1
        <3> HIDE DEF edge
        <3>2. ASSUME NEW c \in Ids \X Ids \X Relations, LinkedOrDeleted(c)
              PROVE  LinkedOrDeleted(c)'
            BY <1>1, <3>2, LinkedStays
        <3> QED BY <2>1, <3>1, <3>2 DEF edge
    <2>2. CASE CallGoesOn(t)
        <3>1. CASE Doing(t, "link")
            BY <2>2, <3>1 DEF CallGoesOn, Goes, LinkedOrDeleted
        <3>2. CASE ~Doing(t, "link")
            <4>1. /\ call[t].steps \in Seq(StepNames) /\ FiltersFirst(call[t].steps)
                  /\ call[t].steps # <<>> /\ Head(call[t].steps) # "link"
                BY <2>2, <3>2 DEF EngineTyped, WellFormed, CallRecord, CallGoesOn, Goes, Doing
            <4>2. "link" \notin Range(call[t].steps)
                BY <1>6, <2>2, <4>1, RestOfSteps DEF CallGoesOn, Goes, Rest
            <4>3. /\ call'[t].id = call[t].id /\ call'[t].old = call[t].old
                  /\ call'[t].rel = call[t].rel
                BY <2>2 DEF CallGoesOn, Goes
            <4>4. LinkedOrDeleted(edge(t)) /\ edge(t) \in Ids \X Ids \X Relations
                BY <1>3, <1>6, <4>2, <4>3
            <4>5. PICK c \in Ids \X Ids \X Relations : c = edge(t) /\ LinkedOrDeleted(c)
                BY <4>4
            <4>6. LinkedOrDeleted(c)'
                BY <1>1, <4>5, LinkedStays
            <4> QED BY <4>3, <4>5, <4>6
        <3> QED BY <3>1, <3>2
    <2>3. ~CallBegins(t) /\ ~CallEnds(t)
        BY <1>6 DEF CallBegins, CallEnds
    <2> QED BY <1>1, <2>1, <2>2, <2>3 DEF CallsMove, CallMove
<1> QED
    BY <1>4, <1>5, <1>6 DEF CorrectionInv

LEMMA CorrectionInit == EngineInit => CorrectionInv
BY DEF EngineInit, CorrectionInv, IdleCall

(* Either the edge is still there, and the new record supersedes or        *)
(* disputes the old one; or the old record was deleted, before the recall  *)
(* began or while it was under way.                                        *)
LEMMA OldIsLeftOut ==
    ASSUME EngineInv, [EngineNext]_engineAllVars, NEW t \in Threads, Returns(t),
           NEW c \in call[t].corrected, InForce(c[1]), ~ErasedDuring(t, c)
    PROVE  /\ c[2] \notin call'[t].beliefs
           /\ c[3] = "supersedes" => c[2] \notin call'[t].conflicts
<1>1. Bundled(t) /\ Bundle(t)' \cap call[t].deleted = {}
    BY Returned, NothingDeleted DEF EngineInv
<1>2. c \in Ids \X Ids \X Relations /\ LinkedOrDeleted(c)
    BY DEF EngineInv, EngineTyped, CorrectionInv
<1>3. ~IsTombstoned(c[1])
    BY DEF InForce
<1>4. call'[t].beliefs \cup call'[t].conflicts \subseteq Bundle(t)'
    BY DEF Bundle
<1>5. CASE c \notin dependencies
    <2>1. c[2] \in call[t].deleted
        BY <1>2, <1>3, <1>5 DEF LinkedOrDeleted, ErasedDuring
    <2> QED BY <1>1, <1>4, <2>1
<1>6. CASE c \in dependencies /\ c[3] = "supersedes"
    <2>1. c = <<c[1], c[2], "supersedes">> /\ c[1] \in Ids /\ c[2] \in Ids
        BY <1>2, <1>6
    <2>2. c[1] \in SupersederIds(c[2])
        BY <1>6, <2>1 DEF SupersederIds
    <2>3. ~Current(t, c[2])
        BY <2>2 DEF Current, SupersededByActive
    <2> QED BY <1>1, <1>4, <2>3 DEF Bundled
<1>7. CASE c \in dependencies /\ c[3] = "contradicts"
    <2>1. c = <<c[1], c[2], "contradicts">> /\ c[1] \in Ids /\ c[2] \in Ids
        BY <1>2, <1>7
    <2>2. c[1] \in ContradictorIds(c[2])
        BY <1>7, <2>1 DEF ContradictorIds
    <2> QED BY <1>1, <1>7, <2>2 DEF Bundled
<1>8. c[3] \in {"supersedes", "contradicts"}
    BY DEF EngineInv, EngineTyped, CorrectionInv
<1> QED BY <1>5, <1>6, <1>7, <1>8

(* A correction is respected by every recall begun after it has returned:  *)
(* whatever updates, status patches, merges and interruptions happen to    *)
(* either record, the old one is neither a belief nor, when superseded, an *)
(* open conflict, unless a deletion erases the edge while the recall is    *)
(* under way.  Hypotheses and policy flags are not placed by status.       *)
THEOREM CorrectionsHold == EngineSpec => CorrectionRespected
<1> DEFINE Step == \A t \in Threads : Returns(t) =>
                    \A c \in call[t].corrected :
                        InForce(c[1]) /\ ~ErasedDuring(t, c) =>
                            /\ c[2] \notin call'[t].beliefs
                            /\ c[3] = "supersedes" => c[2] \notin call'[t].conflicts
<1>1. EngineInit => EngineInv
    BY EngineTypedInit, RecallInit, CorrectionInit DEF EngineInv
<1>2. EngineInv /\ [EngineNext]_engineAllVars => EngineInv'
    BY EngineTypedStep, RecallStays, CorrectionStays DEF EngineInv
<1>3. EngineInv /\ [EngineNext]_engineAllVars => [Step]_engineAllVars
    BY OldIsLeftOut
<1> QED
    BY <1>1, <1>2, <1>3, PTL DEF EngineSpec, CorrectionRespected
-----------------------------------------------------------------------------
(* Active means indexed                                                    *)

(* With two writers of a record the rows and the indexes may be written in *)
(* different orders.                                                       *)
OneThread == \A t, u \in Threads : t = u

(* No status patch puts a record in force again that a merge took out of   *)
(* the indexes, and none is corrected after its row is erased: the refused *)
(* link would end the call before the new record is indexed.               *)
NothingComesBack ==
    /\ "patch" \in Functions => PatchStatuses \cap {"active", "reinforced"} = {}
    /\ "correct" \in Functions => "hard" \notin RequestModes

(* The vector index fails less often than an operation is attempted; those *)
(* queued in the initial state have failed once.                           *)
Headroom == IF QueuedUpserts = {} THEN 0 ELSE 1

CallsSucceed == MaxInterrupts = 0 /\ MaxVectorFailures + Headroom < MaxOpAttempts

Left(t) == Range(call[t].steps)

(* What must, and what may not, be left to do after a step.                *)
Follows(x, rest) ==
    /\ x \in {"read", "unindex", "store"} => {"reread", "index", "upsert"} \subseteq rest
    /\ x \in {"guard", "bundle"} => {"index", "upsert"} \cap rest = {}
    /\ x \in {"index", "upsert"} => "reread" \notin rest
    /\ x \in {"purge_lexical", "purge_vector"} => "status" \notin rest

InOrder(s) == \A i \in DOMAIN s : Follows(s[i], {s[j] : j \in (i + 1)..Len(s)})

(* The old record is out of force before it is purged, and the row written *)
(* last is the one that is indexed.                                        *)
CallServes(t) ==
    /\ InOrder(call[t].steps)
    /\ Left(t) \cap {"purge_lexical", "purge_vector"} # {} /\ "status" \notin Left(t) =>
            ~InForce(call[t].old)
    /\ Left(t) \cap OldSteps # {} => call[t].id # call[t].old /\ call[t].old \in used
    /\ Left(t) \cap (RecordSteps \cup OldSteps) # {} => call[t].id \in used
    /\ Left(t) \cap {"index", "upsert"} # {} /\ "reread" \notin Left(t)
            /\ InForce(call[t].id) =>
                call[t].row.content = records[call[t].id].content
    /\ "correct" \notin Functions /\ "link" \in Left(t) =>
            Left(t) \cap {"index", "upsert"} = {}

(* No operation has used up its attempts.                                  *)
FailInv ==
    /\ vectorFailures <= MaxVectorFailures
    /\ \A i \in DOMAIN oplog : oplog[i].attempts <= vectorFailures + Headroom

(* Where no job is hard, a record whose id is in use has its row, or is    *)
(* about to get it.                                                        *)
Logical ==
    /\ \A j \in Jobs : job[j].mode = "logical" /\ ~At(j, "erasing")
    /\ \A r \in Ids : tombstones[r].mode # "hard"

UsedExist ==
    \A r \in used : Exists(r) \/ \E t \in Threads : Doing(t, "store") /\ call[t].id = r

(* The last operation of the log on the record, or if there is none the    *)
(* vector index, has the content of the row.                               *)
WillIndex(r) ==
    \/ \E i \in DOMAIN oplog :
        /\ oplog[i].op_type = "upsert_index" /\ r \in oplog[i].ids
        /\ oplog[i].content = records[r].content
        /\ \A j \in DOMAIN oplog : j > i => r \notin oplog[j].ids
    \/ /\ \A j \in DOMAIN oplog : r \notin oplog[j].ids
       /\ vector[r] = records[r].content

(* The indexes have, or will have, the content of the row, or the writer   *)
(* still has it to put there.                                              *)
Posted(r) ==
    lexical[r] = records[r].content \/ \E t \in Threads : call[t].id = r /\ "index" \in Left(t)

Embedded(r) == WillIndex(r) \/ \E t \in Threads : call[t].id = r /\ "upsert" \in Left(t)

IndexServes ==
    /\ FailInv
    /\ "correct" \in Functions => Logical /\ UsedExist
    /\ \A t \in Threads : CallServes(t)
    /\ \A r \in Ids : InForce(r) => Posted(r) /\ Embedded(r)

IndexInv == EngineTyped /\ IndexServes

-----------------------------------------------------------------------------
(* The order of the steps                                                  *)

LEMMA RestInOrder ==
    ASSUME NEW s \in Seq(StepNames), s # <<>>, InOrder(s)
    PROVE  InOrder(Tail(s)) /\ Follows(Head(s), Range(Tail(s)))
<1>1. Len(s) \in Nat /\ DOMAIN s = 1..Len(s) /\ Len(s) # 0
    BY LenProperties, EmptySeq
<1> DEFINE r == Tail(s)
<1>2. /\ r \in Seq(StepNames) /\ Len(r) = Len(s) - 1 /\ Head(s) = s[1]
      /\ \A i \in 1..(Len(s) - 1) : r[i] = s[i + 1]
    BY HeadTailProperties
<1>3. DOMAIN r = 1..(Len(s) - 1)
    BY <1>1, <1>2, LenProperties
<1> HIDE DEF r
<1>4. ASSUME NEW i \in 0..(Len(s) - 1)
      PROVE  {r[j] : j \in (i + 1)..Len(r)} = {s[j] : j \in ((i + 1) + 1)..Len(s)}
    <2>1. ASSUME NEW j \in (i + 1)..Len(r)
          PROVE  j + 1 \in ((i + 1) + 1)..Len(s) /\ r[j] = s[j + 1]
        BY <1>1, <1>2
    <2>2. ASSUME NEW j \in ((i + 1) + 1)..Len(s)
          PROVE  j - 1 \in (i + 1)..Len(r) /\ s[j] = r[j - 1]
        <3>1. j - 1 \in 1..(Len(s) - 1) /\ j - 1 \in (i + 1)..Len(r) /\ (j - 1) + 1 = j
            BY <1>1, <1>2
        <3> QED BY <1>2, <3>1
    <2> QED BY <2>1, <2>2
<1>5. InOrder(r)
    <2> SUFFICES ASSUME NEW i \in DOMAIN r
                 PROVE  Follows(r[i], {r[j] : j \in (i + 1)..Len(r)})
        BY DEF InOrder
    <2>1. i \in 0..(Len(s) - 1) /\ i + 1 \in DOMAIN s /\ r[i] = s[i + 1]
        BY <1>1, <1>2, <1>3
    <2>2. Follows(s[i + 1], {s[j] : j \in ((i + 1) + 1)..Len(s)})
        BY <2>1 DEF InOrder
    <2> QED BY <1>4, <2>1, <2>2
<1>6. Follows(Head(s), Range(r))
    <2>1. Range(r) = {r[j] : j \in (0 + 1)..Len(r)}
        BY <1>2, <1>3 DEF Range
    <2>2. Range(r) = {s[j] : j \in (1 + 1)..Len(s)}
        <3>1. 0 \in 0..(Len(s) - 1) /\ (0 + 1) + 1 = 1 + 1
            BY <1>1
        <3> QED BY <1>4, <2>1, <3>1
    <2>3. 1 \in DOMAIN s
        BY <1>1
    <2>4. Follows(s[1], {s[j] : j \in (1 + 1)..Len(s)})
        BY <2>3 DEF InOrder
    <2> QED BY <1>2, <2>2, <2>4
<1> QED
    BY <1>5, <1>6 DEF r

LEMMA ListsInOrder ==
    /\ InOrder(<<>>) /\ InOrder(WriteSteps) /\ InOrder(UpdateSteps) /\ InOrder(CorrectSteps)
    /\ InOrder(MergeSteps) /\ InOrder(RecallSteps)
    /\ Head(WriteSteps) = "store" /\ WriteSteps # <<>>
    /\ Head(CorrectSteps) = "store" /\ CorrectSteps # <<>>
<1>1. InOrder(<<>>)
    BY DEF InOrder
<1>2. /\ Len(WriteSteps) = 5 /\ DOMAIN WriteSteps = 1..5
      /\ WriteSteps[1] = "store" /\ WriteSteps[2] = "reread" /\ WriteSteps[3] = "index"
      /\ WriteSteps[4] = "upsert" /\ WriteSteps[5] = "drain"
    BY DEF WriteSteps, EnqueueAndDrain
<1>3. /\ Len(UpdateSteps) = 7 /\ DOMAIN UpdateSteps = 1..7
      /\ UpdateSteps[1] = "read" /\ UpdateSteps[2] = "unindex" /\ UpdateSteps[3] = "store"
      /\ UpdateSteps[4] = "reread" /\ UpdateSteps[5] = "index"
      /\ UpdateSteps[6] = "upsert" /\ UpdateSteps[7] = "drain"
    BY DEF UpdateSteps, WriteSteps, EnqueueAndDrain
<1>4. /\ Len(CorrectSteps) = 11 /\ DOMAIN CorrectSteps = 1..11
      /\ CorrectSteps[1] = "store" /\ CorrectSteps[2] = "reread" /\ CorrectSteps[3] = "status"
      /\ CorrectSteps[4] = "link" /\ CorrectSteps[5] = "index"
      /\ CorrectSteps[6] = "purge_lexical" /\ CorrectSteps[7] = "purge_vector"
      /\ CorrectSteps[8] = "drain" /\ CorrectSteps[9] = "purge_artifacts"
      /\ CorrectSteps[10] = "upsert" /\ CorrectSteps[11] = "drain"
    BY DEF CorrectSteps, PurgeSteps, EnqueueAndDrain
<1>5. /\ Len(MergeSteps) = 7 /\ DOMAIN MergeSteps = 1..7
      /\ MergeSteps[1] = "guard" /\ MergeSteps[2] = "status" /\ MergeSteps[3] = "link"
      /\ MergeSteps[4] = "purge_lexical" /\ MergeSteps[5] = "purge_vector"
      /\ MergeSteps[6] = "drain" /\ MergeSteps[7] = "purge_artifacts"
    BY DEF MergeSteps, PurgeSteps
<1>6. /\ Len(RecallSteps) = 5 /\ DOMAIN RecallSteps = 1..5
      /\ RecallSteps[1] = "search_vector" /\ RecallSteps[2] = "search_lexical"
      /\ RecallSteps[3] = "hydrate" /\ RecallSteps[4] = "filter"
      /\ RecallSteps[5] = "bundle"
    BY DEF RecallSteps
<1>7. InOrder(WriteSteps)
    BY <1>2 DEF InOrder, Follows
<1>8. InOrder(UpdateSteps)
    BY <1>3 DEF InOrder, Follows
<1>9. InOrder(CorrectSteps)
    BY <1>4 DEF InOrder, Follows
<1>10. InOrder(MergeSteps)
    BY <1>5 DEF InOrder, Follows
<1>11. InOrder(RecallSteps)
    BY <1>6 DEF InOrder, Follows
<1>12. WriteSteps \in Seq(StepNames) /\ CorrectSteps \in Seq(StepNames)
    BY StepLists
<1>13. WriteSteps # <<>> /\ CorrectSteps # <<>>
    <2>1. Len(<<>>) = 0
        BY EmptySeq
    <2>2. Len(WriteSteps) # 0 /\ Len(CorrectSteps) # 0
        BY <1>2, <1>4
    <2> QED BY <2>1, <2>2
<1>14. Head(WriteSteps) = "store" /\ Head(CorrectSteps) = "store"
    BY <1>2, <1>4, <1>12, <1>13, HeadTailProperties
<1> QED
    BY <1>1, <1>7, <1>8, <1>9, <1>10, <1>11, <1>13, <1>14

(* A step taken: the others are left, with the same arguments.             *)
Takes(t, x) ==
    /\ Left(t) = {x} \cup Left(t)'
    /\ InOrder(call'[t].steps) /\ Follows(x, Left(t)')
    /\ Left(t)' # {} =>
        /\ call'[t].id = call[t].id /\ call'[t].old = call[t].old
        /\ x \notin {"read", "reread"} => call'[t].row = call[t].row

LEMMA TakesStep ==
    ASSUME EngineTyped, NEW t \in Threads, NEW x, Doing(t, x), InOrder(call[t].steps),
           call'[t].steps = Rest(t),
           Rest(t) # <<>> =>
                /\ call'[t].id = call[t].id /\ call'[t].old = call[t].old
                /\ x \notin {"read", "reread"} => call'[t].row = call[t].row
    PROVE  Takes(t, x)
<1>1. /\ call[t].steps \in Seq(StepNames) /\ FiltersFirst(call[t].steps)
      /\ call[t].steps # <<>> /\ x = Head(call[t].steps)
    BY DEF EngineTyped, WellFormed, CallRecord, Doing
<1>2. Left(t) = {x} \cup Range(Rest(t))
    BY <1>1, RestOfSteps DEF Left, Rest
<1>3. InOrder(Rest(t)) /\ Follows(x, Range(Rest(t)))
    BY <1>1, RestInOrder DEF Rest
<1>4. Rest(t) = <<>> => Range(Rest(t)) = {}
    BY DEF Range
<1>5. Left(t)' = Range(Rest(t))
    BY DEF Left
<1> QED
    BY <1>2, <1>3, <1>4, <1>5 DEF Takes

LEMMA AdvanceTakes ==
    ASSUME EngineTyped, NEW t \in Threads, NEW x, Doing(t, x), InOrder(call[t].steps),
           Advance(t)
    PROVE  Takes(t, x)
<1>1. call \in [Threads -> CallRecord] /\ call[t] \in CallRecord
    BY DEF EngineTyped
<1>2. CASE Rest(t) = <<>>
    <2>1. call'[t].steps = <<>>
        BY <1>1, <1>2 DEF Advance, Abandon, IdleCall
    <2> QED BY <1>2, <2>1, TakesStep
<1>3. CASE Rest(t) # <<>>
    <2>1. call'[t] = [call[t] EXCEPT !.steps = Rest(t)]
        BY <1>1, <1>3 DEF Advance
    <2>2. /\ call'[t].steps = Rest(t) /\ call'[t].id = call[t].id
          /\ call'[t].old = call[t].old /\ call'[t].row = call[t].row
        BY <1>1, <2>1 DEF CallRecord
    <2> QED BY <2>2, TakesStep
<1> QED BY <1>2, <1>3

-----------------------------------------------------------------------------
(* The log                                                                 *)

(* What a step may do to the log and the vector index for a record: what   *)
(* is appended is of others.                                               *)
LogMoves(r) ==
    \/ oplog' = oplog /\ vector' = vector
    \/ \E o \in VectorOp : oplog' = Append(oplog, o) /\ vector' = vector /\ r \notin o.ids
    \/ \E i \in DOMAIN oplog : ApplyOp(i)
    \/ \E i \in DOMAIN oplog : OpBackoffExpires(i)

LEMMA LogShape ==
    ASSUME EngineTyped
    PROVE  /\ oplog \in Seq(VectorOp) /\ Len(oplog) \in Nat /\ DOMAIN oplog = 1..Len(oplog)
           /\ \A i \in DOMAIN oplog : oplog[i] \in VectorOp /\ oplog[i].ids \subseteq Ids
           /\ vector \in [Ids -> 0..MaxContent \cup {NoEntry}]
           /\ vectorFailures \in Nat
<1>1. oplog \in Seq(VectorOp)
    BY DEF EngineTyped, JobsInv, DeletionTypeOK
<1>2. Len(oplog) \in Nat /\ DOMAIN oplog = 1..Len(oplog)
    BY <1>1, LenProperties
<1>3. \A i \in DOMAIN oplog : oplog[i] \in VectorOp
    BY <1>1, <1>2, ElementOfSeq
<1> QED
    BY <1>1, <1>2, <1>3 DEF VectorOp, EngineTyped, JobsInv, DeletionTypeOK

LEMMA Appended ==
    ASSUME EngineTyped, NEW o \in VectorOp, oplog' = Append(oplog, o)
    PROVE  /\ DOMAIN oplog' = 1..(Len(oplog) + 1)
           /\ \A i \in 1..Len(oplog) : oplog'[i] = oplog[i]
           /\ oplog'[Len(oplog) + 1] = o
<1>1. oplog \in Seq(VectorOp)
    BY LogShape
<1>2. /\ oplog' \in Seq(VectorOp) /\ Len(oplog') = Len(oplog) + 1
      /\ \A i \in 1..Len(oplog) : oplog'[i] = oplog[i]
      /\ oplog'[Len(oplog) + 1] = o
    BY <1>1, AppendProperties
<1> QED
    BY <1>2, LenProperties

(* No operation is given up: it is applied and leaves the log, or it stays *)
(* where it is.                                                            *)
Applied(i) ==
    /\ oplog' = RemoveAt(oplog, i) /\ vector' = VectorAfter(oplog[i], oplog[i].ids)
    /\ vectorFailures' = vectorFailures

Retried(i) ==
    /\ DOMAIN oplog' = DOMAIN oplog
    /\ \A k \in DOMAIN oplog :
        /\ Same(oplog'[k], oplog[k]) /\ oplog'[k].content = oplog[k].content
        /\ oplog'[k].attempts \in Nat /\ oplog'[k].attempts <= oplog[k].attempts + 1
        /\ k # i => oplog'[k] = oplog[k]

Failed(i) ==
    /\ vectorFailures < MaxVectorFailures /\ vectorFailures' = vectorFailures + 1
    /\ Retried(i)
    /\ \E applied \in SUBSET oplog[i].ids : vector' = VectorAfter(oplog[i], applied)

LEMMA ReplacedOp ==
    ASSUME EngineTyped, NEW i \in DOMAIN oplog, NEW n \in Nat, n <= oplog[i].attempts + 1,
           NEW b \in BOOLEAN,
           oplog' = [oplog EXCEPT ![i] = [oplog[i] EXCEPT !.attempts = n, !.backoff = b]]
    PROVE  Retried(i)
<1> DEFINE o == [oplog[i] EXCEPT !.attempts = n, !.backoff = b]
<1>1. /\ i \in 1..Len(oplog) /\ DOMAIN oplog = 1..Len(oplog) /\ Len(oplog) \in Nat
      /\ oplog \in Seq(VectorOp)
    BY LogShape
<1>2. oplog[i] \in VectorOp
    BY LogShape
<1>3. /\ o \in VectorOp /\ Same(o, oplog[i]) /\ o.content = oplog[i].content
      /\ o.attempts = n
    BY <1>2 DEF VectorOp, Same
<1>4. oplog' = [oplog EXCEPT ![i] = o]
    OBVIOUS
<1> HIDE DEF o
<1>5. /\ oplog' \in Seq(VectorOp) /\ Len(oplog') = Len(oplog)
      /\ \A k \in 1..Len(oplog) : oplog'[k] = IF k = i THEN o ELSE oplog[k]
    BY <1>1, <1>3, <1>4, ExceptSeq
<1>6. DOMAIN oplog' = DOMAIN oplog
    BY <1>1, <1>5, LenProperties
<1>7. \A k \in DOMAIN oplog : oplog[k].attempts \in Nat
    BY LogShape DEF VectorOp
<1>8. ASSUME NEW k \in DOMAIN oplog
      PROVE  /\ Same(oplog'[k], oplog[k]) /\ oplog'[k].content = oplog[k].content
             /\ oplog'[k].attempts \in Nat /\ oplog'[k].attempts <= oplog[k].attempts + 1
             /\ k # i => oplog'[k] = oplog[k]
    <2>1. CASE k = i
        BY <1>1, <1>3, <1>5, <2>1
    <2>2. CASE k # i
        <3>1. oplog'[k] = oplog[k]
            BY <1>1, <1>5, <2>2
        <3>2. oplog[k].attempts \in Nat /\ oplog[k].attempts <= oplog[k].attempts + 1
            BY <1>7
        <3> QED BY <3>1, <3>2 DEF Same
    <2> QED BY <2>1, <2>2
<1> QED
    BY <1>6, <1>8 DEF Retried

LEMMA NothingGivenUp ==
    ASSUME EngineTyped, FailInv, CallsSucceed, NEW i \in DOMAIN oplog, ApplyOp(i)
    PROVE  Applied(i) \/ Failed(i)
<1>1. CASE /\ vector' = VectorAfter(oplog[i], oplog[i].ids)
           /\ oplog' = RemoveAt(oplog, i)
           /\ UNCHANGED vectorFailures
    BY <1>1 DEF Applied
<1>2. CASE /\ vectorFailures < MaxVectorFailures
           /\ vectorFailures' = vectorFailures + 1
           /\ \E applied \in SUBSET oplog[i].ids : vector' = VectorAfter(oplog[i], applied)
           /\ oplog' = IF oplog[i].attempts + 1 >= MaxOpAttempts THEN RemoveAt(oplog, i)
                       ELSE [oplog EXCEPT ![i].attempts = @ + 1, ![i].backoff = TRUE]
    <2>1. /\ oplog[i] \in VectorOp /\ oplog[i].attempts \in Nat /\ vectorFailures \in Nat
          /\ oplog \in Seq(VectorOp)
        BY LogShape DEF VectorOp
    <2>2. oplog[i].attempts <= vectorFailures + Headroom
        BY DEF FailInv
    <2>3. ~(oplog[i].attempts + 1 >= MaxOpAttempts)
        <3>1. Headroom \in Nat
            BY DEF Headroom
        <3>2. MaxVectorFailures + Headroom < MaxOpAttempts
            BY DEF CallsSucceed
        <3> QED BY <1>2, <2>1, <2>2, <3>1, <3>2, DeletionAssumption
    <2> DEFINE n == oplog[i].attempts + 1
    <2>4. n \in Nat /\ n <= oplog[i].attempts + 1
        BY <2>1
    <2>5. oplog' = [oplog EXCEPT ![i] = [oplog[i] EXCEPT !.attempts = n, !.backoff = TRUE]]
        BY <1>2, <2>1, <2>3
    <2> HIDE DEF n
    <2>6. Retried(i)
        BY <2>4, <2>5, ReplacedOp
    <2> QED BY <1>2, <2>6 DEF Failed
<1> QED
    BY <1>1, <1>2 DEF ApplyOp

LEMMA BackoffRetried ==
    ASSUME EngineTyped, NEW i \in DOMAIN oplog, OpBackoffExpires(i)
    PROVE  Retried(i) /\ vector' = vector /\ vectorFailures' = vectorFailures
<1>1. oplog[i] \in VectorOp /\ oplog[i].attempts \in Nat
    BY LogShape DEF VectorOp
<1> DEFINE n == oplog[i].attempts
<1>2. n \in Nat /\ n <= oplog[i].attempts + 1
    BY <1>1
<1>3. [oplog[i] EXCEPT !.attempts = n, !.backoff = FALSE] = [oplog[i] EXCEPT !.backoff = FALSE]
    BY <1>1 DEF VectorOp
<1>4. oplog' = [oplog EXCEPT ![i] = [oplog[i] EXCEPT !.backoff = FALSE]]
    BY LogShape DEF OpBackoffExpires
<1>5. oplog' = [oplog EXCEPT ![i] = [oplog[i] EXCEPT !.attempts = n, !.backoff = FALSE]]
    BY <1>3, <1>4
<1> HIDE DEF n
<1>6. Retried(i)
    BY <1>2, <1>5, ReplacedOp
<1> QED
    BY <1>6 DEF OpBackoffExpires, surfaceVars, countVars

LEMMA Shortened ==
    ASSUME EngineTyped, NEW i \in DOMAIN oplog, oplog' = RemoveAt(oplog, i)
    PROVE  /\ DOMAIN oplog' = 1..(Len(oplog) - 1)
           /\ \A k \in 1..(Len(oplog) - 1) :
                oplog'[k] = IF k < i THEN oplog[k] ELSE oplog[k + 1]
<1>1. i \in 1..Len(oplog) /\ oplog \in Seq(VectorOp)
    BY LogShape
<1>2. /\ oplog' \in Seq(VectorOp) /\ Len(oplog') = Len(oplog) - 1
      /\ \A k \in 1..(Len(oplog) - 1) :
            oplog'[k] = IF k < i THEN oplog[k] ELSE oplog[k + 1]
    BY <1>1, RemoveAtProperties
<1> QED
    BY <1>2, LenProperties

(* The last word on a record stays the last: the operation that has it is  *)
(* applied only when there is no other on the record left.                 *)
LEMMA WillIndexStays ==
    ASSUME EngineTyped, FailInv, CallsSucceed, NEW r \in Ids, LogMoves(r), WillIndex(r),
           records'[r].content = records[r].content
    PROVE  WillIndex(r)'
<1> DEFINE c == records[r].content
           n == Len(oplog)
           LastOf(i) == /\ oplog[i].op_type = "upsert_index" /\ r \in oplog[i].ids
                        /\ oplog[i].content = c
                        /\ \A j \in DOMAIN oplog : j > i => r \notin oplog[j].ids
           None == (\A j \in DOMAIN oplog : r \notin oplog[j].ids) /\ vector[r] = c
<1>1. n \in Nat /\ DOMAIN oplog = 1..n
    BY LogShape
<1>2. (\E i \in DOMAIN oplog : LastOf(i)) \/ None
    BY DEF WillIndex
<1>l. ASSUME NEW i \in DOMAIN oplog', oplog'[i].op_type = "upsert_index", r \in oplog'[i].ids,
             oplog'[i].content = c, \A j \in DOMAIN oplog' : j > i => r \notin oplog'[j].ids
      PROVE  WillIndex(r)'
    BY <1>l DEF WillIndex
<1>n. ASSUME \A j \in DOMAIN oplog' : r \notin oplog'[j].ids, vector'[r] = c
      PROVE  WillIndex(r)'
    BY <1>n DEF WillIndex
<1>3. CASE oplog' = oplog /\ vector' = vector
    BY <1>2, <1>3 DEF WillIndex
<1>4. ASSUME NEW o \in VectorOp, oplog' = Append(oplog, o), vector' = vector, r \notin o.ids
      PROVE  WillIndex(r)'
    <2>1. /\ DOMAIN oplog' = 1..(n + 1) /\ oplog'[n + 1] = o
          /\ \A k \in 1..n : oplog'[k] = oplog[k]
        BY <1>4, Appended
    <2>2. \A k \in 1..(n + 1) : k \in 1..n \/ k = n + 1
        BY <1>1
    <2>3. ASSUME NEW i \in DOMAIN oplog, LastOf(i) PROVE WillIndex(r)'
        <3>1. i \in 1..(n + 1) /\ oplog'[i] = oplog[i]
            BY <1>1, <2>1
        <3>2. \A j \in DOMAIN oplog' : j > i => r \notin oplog'[j].ids
            BY <1>1, <1>4, <2>1, <2>2, <2>3
        <3> QED BY <1>l, <2>1, <2>3, <3>1, <3>2
    <2>4. CASE None
        BY <1>1, <1>4, <1>n, <2>1, <2>2, <2>4
    <2> QED BY <1>2, <2>3, <2>4
(* An operation that stays where it is.                                    *)
<1>r. ASSUME NEW i \in DOMAIN oplog, Retried(i),
             r \notin oplog[i].ids => vector'[r] = vector[r]
      PROVE  WillIndex(r)'
    <2>1. /\ DOMAIN oplog' = DOMAIN oplog
          /\ \A k \in DOMAIN oplog :
                /\ oplog'[k].op_type = oplog[k].op_type /\ oplog'[k].ids = oplog[k].ids
                /\ oplog'[k].content = oplog[k].content
        BY <1>r DEF Retried, Same
    <2>2. ASSUME NEW k \in DOMAIN oplog, LastOf(k) PROVE WillIndex(r)'
        BY <1>l, <2>1, <2>2
    <2>3. CASE None
        BY <1>n, <1>r, <2>1, <2>3
    <2> QED BY <1>2, <2>2, <2>3
<1>5. ASSUME NEW i \in DOMAIN oplog, OpBackoffExpires(i) PROVE WillIndex(r)'
    BY <1>5, <1>r, BackoffRetried
<1>v. ASSUME NEW i \in DOMAIN oplog, NEW applied \in SUBSET oplog[i].ids,
             vector' = VectorAfter(oplog[i], applied), r \notin oplog[i].ids
      PROVE  vector'[r] = vector[r]
    BY <1>v DEF VectorAfter
<1>6. ASSUME NEW i \in DOMAIN oplog, Failed(i) PROVE WillIndex(r)'
    BY <1>6, <1>r, <1>v DEF Failed
<1>7. ASSUME NEW i \in DOMAIN oplog, Applied(i), Runnable(i) PROVE WillIndex(r)'
    <2>1. /\ DOMAIN oplog' = 1..(n - 1)
          /\ \A k \in 1..(n - 1) : oplog'[k] = IF k < i THEN oplog[k] ELSE oplog[k + 1]
        BY <1>7, Shortened DEF Applied
    <2>2. i \in 1..n
        BY <1>1
    <2>3. ASSUME NEW k \in DOMAIN oplog, LastOf(k) PROVE WillIndex(r)'
        <3>1. CASE k = i
            <4>1. \A e \in 1..(i - 1) : r \notin oplog[e].ids
                BY <1>7, <2>3, <3>1 DEF Runnable, OpConflicts
            <4>2. \A j \in 1..(n - 1) : r \notin oplog'[j].ids
                <5> TAKE j \in 1..(n - 1)
                <5>1. CASE j < i
                    BY <1>1, <2>1, <2>2, <4>1, <5>1
                <5>2. CASE ~(j < i)
                    <6>1. j + 1 \in DOMAIN oplog /\ j + 1 > k
                        BY <1>1, <2>2, <3>1, <5>2
                    <6> QED BY <2>1, <2>3, <5>2, <6>1
                <5> QED BY <5>1, <5>2
            <4>3. vector'[r] = c
                BY <1>7, <2>3, <3>1 DEF Applied, VectorAfter
            <4> QED BY <1>n, <2>1, <4>2, <4>3
        <3>2. CASE k < i
            <4>1. k \in 1..(n - 1) /\ oplog'[k] = oplog[k]
                BY <1>1, <2>1, <2>2, <3>2
            <4>2. \A j \in 1..(n - 1) : j > k => r \notin oplog'[j].ids
                <5> TAKE j \in 1..(n - 1)
                <5>1. CASE j < i
                    BY <1>1, <2>1, <2>2, <2>3, <5>1
                <5>2. CASE ~(j < i)
                    BY <1>1, <2>1, <2>2, <2>3, <3>2, <5>2
                <5> QED BY <5>1, <5>2
            <4> QED BY <1>l, <2>1, <2>3, <4>1, <4>2
        <3>3. CASE k > i
            <4>1. k - 1 \in 1..(n - 1) /\ (k - 1) + 1 = k /\ ~(k - 1 < i)
                BY <1>1, <2>2, <3>3
            <4>2. oplog'[k - 1] = oplog[k]
                BY <2>1, <4>1
            <4>3. \A j \in 1..(n - 1) : j > k - 1 => r \notin oplog'[j].ids
                <5> TAKE j \in 1..(n - 1)
                <5>1. ASSUME j > k - 1
                      PROVE  ~(j < i) /\ j + 1 \in DOMAIN oplog /\ j + 1 > k
                    BY <1>1, <2>2, <3>3, <5>1
                <5> QED BY <2>1, <2>3, <5>1
            <4> QED BY <1>l, <2>1, <2>3, <4>1, <4>2, <4>3
        <3> QED BY <1>1, <2>2, <3>1, <3>2, <3>3
    <2>4. CASE None
        <3>1. \A j \in 1..(n - 1) : r \notin oplog'[j].ids
            <4> TAKE j \in 1..(n - 1)
            <4>1. j \in DOMAIN oplog /\ j + 1 \in DOMAIN oplog
                BY <1>1
            <4> QED BY <2>1, <2>4, <4>1
        <3>2. vector'[r] = c
            BY <1>7, <1>v, <2>4 DEF Applied
        <3> QED BY <1>n, <2>1, <3>1, <3>2
    <2> QED BY <1>2, <2>3, <2>4
<1>8. ASSUME NEW i \in DOMAIN oplog, ApplyOp(i) PROVE WillIndex(r)'
    <2>1. Runnable(i)
        BY <1>8 DEF ApplyOp
    <2> QED BY <1>6, <1>7, <1>8, <2>1, NothingGivenUp
<1> QED
    BY <1>3, <1>4, <1>5, <1>8 DEF LogMoves

(* The writer has the last word on its record.                             *)
LEMMA WillIndexNow ==
    ASSUME EngineTyped, NEW r \in Ids, NEW c \in 0..MaxContent, c = records'[r].content,
           oplog' = Append(oplog, NewOp("upsert_index", {r}, c))
    PROVE  WillIndex(r)'
<1> DEFINE o == NewOp("upsert_index", {r}, c)
           n == Len(oplog)
<1>1. /\ o \in VectorOp /\ o.op_type = "upsert_index" /\ o.ids = {r} /\ o.content = c
    BY DEF NewOp, VectorOp
<1> HIDE DEF o
<1>2. DOMAIN oplog' = 1..(n + 1) /\ oplog'[n + 1] = o /\ n \in Nat
    BY <1>1, Appended, LogShape DEF o
<1>3. n + 1 \in DOMAIN oplog' /\ \A j \in DOMAIN oplog' : ~(j > n + 1)
    BY <1>2
<1> HIDE DEF n
<1>4. /\ oplog'[n + 1].op_type = "upsert_index" /\ r \in oplog'[n + 1].ids
      /\ oplog'[n + 1].content = records'[r].content
    BY <1>1, <1>2
<1> QED
    BY <1>3, <1>4 DEF WillIndex

(* Failures are counted, and what is appended has not been attempted.      *)
LogCounts ==
    \/ oplog' = oplog /\ vectorFailures' = vectorFailures
    \/ \E o \in VectorOp :
        oplog' = Append(oplog, o) /\ o.attempts = 0 /\ vectorFailures' = vectorFailures
    \/ \E i \in DOMAIN oplog : ApplyOp(i)
    \/ \E i \in DOMAIN oplog : OpBackoffExpires(i)

LEMMA FailStays ==
    ASSUME EngineTyped, FailInv, CallsSucceed, LogCounts
    PROVE  FailInv'
<1>1. /\ oplog \in Seq(VectorOp) /\ Len(oplog) \in Nat /\ DOMAIN oplog = 1..Len(oplog)
      /\ \A i \in DOMAIN oplog : oplog[i].attempts \in Nat
      /\ vectorFailures \in Nat /\ Headroom \in Nat /\ MaxVectorFailures \in Nat
    BY LogShape, DeletionAssumption DEF VectorOp, Headroom
<1>2. /\ vectorFailures <= MaxVectorFailures
      /\ \A i \in DOMAIN oplog : oplog[i].attempts <= vectorFailures + Headroom
    BY DEF FailInv
<1>3. CASE oplog' = oplog /\ vectorFailures' = vectorFailures
    BY <1>3 DEF FailInv, Headroom
<1>4. ASSUME NEW o \in VectorOp, oplog' = Append(oplog, o), o.attempts = 0,
             vectorFailures' = vectorFailures
      PROVE  FailInv'
    <2>1. /\ DOMAIN oplog' = 1..(Len(oplog) + 1) /\ oplog'[Len(oplog) + 1] = o
          /\ \A k \in 1..Len(oplog) : oplog'[k] = oplog[k]
        BY <1>4, Appended
    <2>2. \A k \in 1..(Len(oplog) + 1) : k \in 1..Len(oplog) \/ k = Len(oplog) + 1
        BY <1>1
    <2>3. \A k \in DOMAIN oplog' : oplog'[k].attempts <= vectorFailures + Headroom
        BY <1>1, <1>2, <1>4, <2>1, <2>2
    <2> QED BY <1>2, <1>4, <2>3 DEF FailInv, Headroom
<1>5. ASSUME NEW i \in DOMAIN oplog, Retried(i), vectorFailures' = vectorFailures,
             oplog'[i].attempts = oplog[i].attempts
      PROVE  FailInv'
    <2>1. \A k \in DOMAIN oplog' : oplog'[k].attempts <= vectorFailures + Headroom
        BY <1>2, <1>5 DEF Retried
    <2> QED BY <1>2, <1>5, <2>1 DEF FailInv, Headroom
<1>6. ASSUME NEW i \in DOMAIN oplog, OpBackoffExpires(i) PROVE FailInv'
    <2>1. oplog[i] \in VectorOp
        BY LogShape
    <2>2. oplog'[i].attempts = oplog[i].attempts
        BY <1>1, <1>6, <2>1 DEF OpBackoffExpires, VectorOp
    <2> QED BY <1>5, <1>6, <2>2, BackoffRetried
<1>7. ASSUME NEW i \in DOMAIN oplog, Failed(i) PROVE FailInv'
    <2>1. \A k \in DOMAIN oplog' :
            k \in DOMAIN oplog /\ oplog'[k].attempts <= oplog[k].attempts + 1
        BY <1>7 DEF Failed, Retried
    <2>0. \A k \in DOMAIN oplog' : oplog'[k].attempts \in Nat
        BY <1>7 DEF Failed, Retried
    <2>2. \A k \in DOMAIN oplog' : oplog'[k].attempts <= (vectorFailures + 1) + Headroom
        BY <1>1, <1>2, <2>0, <2>1
    <2>3. vectorFailures' = vectorFailures + 1 /\ vectorFailures + 1 <= MaxVectorFailures
        BY <1>1, <1>7 DEF Failed
    <2> QED BY <2>2, <2>3 DEF FailInv, Headroom
<1>8. ASSUME NEW i \in DOMAIN oplog, Applied(i) PROVE FailInv'
    <2>1. /\ DOMAIN oplog' = 1..(Len(oplog) - 1)
          /\ \A k \in 1..(Len(oplog) - 1) :
                oplog'[k] = IF k < i THEN oplog[k] ELSE oplog[k + 1]
        BY <1>8, Shortened DEF Applied
    <2>2. \A k \in DOMAIN oplog' : \E l \in DOMAIN oplog : oplog'[k] = oplog[l]
        <3> TAKE k \in DOMAIN oplog'
        <3>1. k \in DOMAIN oplog /\ k + 1 \in DOMAIN oplog
            BY <1>1, <2>1
        <3> QED BY <2>1, <3>1
    <2>3. \A k \in DOMAIN oplog' : oplog'[k].attempts <= vectorFailures + Headroom
        BY <1>2, <2>2
    <2> QED BY <1>2, <1>8, <2>3 DEF FailInv, Headroom, Applied
<1> QED
    BY <1>3, <1>4, <1>6, <1>7, <1>8, NothingGivenUp DEF LogCounts

-----------------------------------------------------------------------------
(* What deletions leave of a record in force                               *)

Undisturbed(r) ==
    /\ InForce(r) /\ records'[r] = records[r]
    /\ lexical'[r] = lexical[r] \/ lexical'[r] = records[r].content
    /\ LogMoves(r)

(* A job goes on in its mode, not to erase.                                *)
MovesOn(j) ==
    Others(j) /\ job'[j].mode = job[j].mode /\ (job'[j].pc = "erasing" => At(j, "erasing"))

LEMMA GotoMovesOn ==
    ASSUME job \in [Jobs -> JobRecord], NEW j \in Jobs, NEW pc \in JobPcs \ {"erasing"},
           Goto(j, pc)
    PROVE  MovesOn(j)
BY GotoJob DEF MovesOn

LEMMA TurnMovesOn ==
    ASSUME job \in [Jobs -> JobRecord], NEW j \in Jobs, NEW x \in Ids,
           NEW pc \in JobPcs \ {"erasing"}, Turn(j, x, pc)
    PROVE  MovesOn(j)
BY TurnJob DEF MovesOn, At

LEMMA AnswerMovesOn ==
    ASSUME job \in [Jobs -> JobRecord], NEW j \in Jobs, NEW pc \in JobPcs \ {"erasing"},
           NEW bad \in SUBSET Ids, job' = [job EXCEPT ![j].pc = pc, ![j].bad = bad]
    PROVE  MovesOn(j)
BY AnsweredJob DEF MovesOn

LEMMA DeletionLeaves ==
    ASSUME EngineTyped, RequestSomeDeletion \/ DeletionStep, NEW r \in Ids
    PROVE  /\ InForce(r)' => Undisturbed(r)
           /\ Logical /\ "hard" \notin RequestModes => Logical'
           /\ Logical => (Exists(r) => Exists(r)')
           /\ LogCounts
<1> DEFINE Row == InForce(r)' => Undisturbed(r)
           Jobs_ == /\ Logical /\ "hard" \notin RequestModes => Logical'
                    /\ Logical => (Exists(r) => Exists(r)')
           Goal == Row /\ Jobs_ /\ LogCounts
<1>t. /\ StoreTypeOK /\ job \in [Jobs -> JobRecord] /\ lexical \in [Ids -> 0..MaxContent \cup {NoEntry}]
      /\ \A j \in Jobs : job[j] \in JobRecord /\ job[j].mode \in Modes /\ job[j].ids \subseteq Ids
    BY DEF EngineTyped, JobsInv, DeletionTypeOK, JobRecord
<1>i. \A j \in Jobs : job[j].todo \subseteq job[j].ids
    BY DEF EngineTyped, JobsInv, JobsTombstone
<1>a. ASSUME NEW j \in Jobs, job[j].pc \notin {"idle", "tombstoning", "raised"}
      PROVE  \A x \in job[j].ids : IsTombstoned(x)
    BY <1>a DEF EngineTyped, JobsInv, JobsTombstone
<1>p. {"tombstoning", "marking", "lexical", "checking", "enqueueing", "draining", "answering",
       "artifacts", "rebuilding", "verifying", "verified", "failing", "done",
       "raised"} \subseteq JobPcs \ {"erasing"}
    BY DEF JobPcs
<1>l. ASSUME oplog' = oplog, vector' = vector PROVE LogMoves(r)
    BY <1>l DEF LogMoves
<1>c. ASSUME oplog' = oplog, vectorFailures' = vectorFailures PROVE LogCounts
    BY <1>c DEF LogCounts
(* The row of the record is not written, and its posting not removed.      *)
<1>r. ASSUME records' = records, IsTombstoned(r) => IsTombstoned(r)',
             \/ lexical'[r] = lexical[r] \/ IsTombstoned(r)
             \/ Exists(r) /\ lexical'[r] = records[r].content,
             LogMoves(r) \/ IsTombstoned(r)
      PROVE  Row
    BY <1>r DEF Undisturbed, InForce, Exists, Active
(* One job goes on, in its mode.                                           *)
<1>j. ASSUME NEW j \in Jobs, Others(j), job'[j].mode = job[j].mode,
             job'[j].pc = "erasing" => At(j, "erasing") \/ job[j].mode = "hard",
             \A x \in Ids : tombstones'[x].mode \in {tombstones[x].mode, job[j].mode},
             Exists(r) /\ ~Exists(r)' => At(j, "erasing")
      PROVE  Jobs_
    BY <1>j DEF Logical, Others, At
<1>m. ASSUME NEW j \in Jobs, NEW x \in Ids, NEW st \in DeletionStates, SetTombstoneState(x, st),
             UNCHANGED <<surfaceVars, oplog, countVars>>, MovesOn(j)
      PROVE  Goal
    <2>1. records' = records /\ (IsTombstoned(r) => IsTombstoned(r)')
          /\ \A y \in Ids : tombstones'[y].mode = tombstones[y].mode
        BY <1>m, <1>t, SetStateTyped, SetStateModes DEF SetTombstoneState
    <2>2. Row
        BY <1>l, <1>m, <1>r, <2>1 DEF surfaceVars
    <2>3. Jobs_
        <3>1. /\ \A y \in Ids : tombstones'[y].mode \in {tombstones[y].mode, job[j].mode}
              /\ Exists(r) => Exists(r)'
            BY <2>1 DEF Exists
        <3> QED BY <1>j, <1>m, <3>1 DEF MovesOn
    <2> QED BY <1>c, <1>m, <2>2, <2>3 DEF countVars
(* A step of a job that leaves the store.                                  *)
<1>s. ASSUME NEW j \in Jobs, UNCHANGED storeVars, Others(j), job'[j].mode = job[j].mode,
             job'[j].pc = "erasing" => At(j, "erasing") \/ job[j].mode = "hard",
             \/ lexical'[r] = lexical[r] \/ IsTombstoned(r)
             \/ Exists(r) /\ lexical'[r] = records[r].content,
             LogMoves(r) \/ IsTombstoned(r), LogCounts
      PROVE  Goal
    <2>1. Row
        <3>1. records' = records /\ (IsTombstoned(r) => IsTombstoned(r)')
            BY <1>s DEF storeVars, IsTombstoned
        <3> QED BY <1>r, <1>s, <3>1
    <2>2. Jobs_
        <3>1. /\ \A y \in Ids : tombstones'[y].mode \in {tombstones[y].mode, job[j].mode}
              /\ Exists(r) => Exists(r)'
            BY <1>s DEF storeVars, Exists
        <3> QED BY <1>j, <1>s, <3>1
    <2> QED BY <1>s, <2>1, <2>2
<1>k. ASSUME NEW j \in Jobs, UNCHANGED storeVars, MovesOn(j),
             \/ lexical'[r] = lexical[r] \/ IsTombstoned(r)
             \/ Exists(r) /\ lexical'[r] = records[r].content,
             LogMoves(r) \/ IsTombstoned(r), LogCounts
      PROVE  Goal
    BY <1>k, <1>s DEF MovesOn
<1>n. ASSUME NEW j \in Jobs, UNCHANGED <<storeVars, surfaceVars, oplog, countVars>>, MovesOn(j)
      PROVE  Goal
    <2>1. lexical' = lexical /\ oplog' = oplog /\ vector' = vector
        BY <1>n DEF surfaceVars
    <2>2. LogMoves(r) /\ LogCounts
        BY <1>c, <1>l, <1>n, <2>1 DEF countVars
    <2> QED BY <1>k, <1>n, <2>1, <2>2
<1> HIDE DEF Row, Jobs_
<1>g. Row /\ Jobs_ /\ LogCounts => Goal
    OBVIOUS
<1> HIDE DEF Goal
<1>1. ASSUME NEW j \in Jobs, NEW x \in Ids, NEW m \in RequestModes, RequestDeletion(j, x, m)
      PROVE  Goal
    <2>1. Others(j) /\ job'[j].pc = "tombstoning" /\ job'[j].mode = m /\ m \in Modes
        BY <1>1, <1>p, <1>t, RequestedIds, StartJob, DeletionAssumption DEF RequestDeletion
    <2>0. UNCHANGED <<storeVars, surfaceVars, oplog, countVars>>
        BY <1>1 DEF RequestDeletion
    <2>2. Logical /\ "hard" \notin RequestModes => Logical'
        <3> SUFFICES ASSUME Logical, "hard" \notin RequestModes PROVE Logical'
            OBVIOUS
        <3>1. \A k \in Jobs : job'[k].mode = "logical" /\ job'[k].pc # "erasing"
            BY <2>1 DEF Logical, Others, At, Modes
        <3> QED BY <2>0, <3>1 DEF Logical, At, storeVars
    <2>3. Row
        BY <1>l, <1>r, <2>0 DEF storeVars, surfaceVars, IsTombstoned
    <2>4. Jobs_
        BY <2>0, <2>2 DEF storeVars, Exists, Jobs_
    <2> QED BY <1>c, <1>g, <2>0, <2>3, <2>4 DEF countVars
<1>2. ASSUME NEW j \in Jobs, TombstoneOne(j) PROVE Goal
    <2>1. PICK x \in Ids : Turn(j, x, "marking") /\ Tombstone(x, job[j].mode, j)
        BY <1>2 DEF TombstoneOne
    <2>0. UNCHANGED <<surfaceVars, oplog, countVars>>
        BY <1>2 DEF TombstoneOne
    <2>2. MovesOn(j)
        BY <1>p, <1>t, <2>1, TurnMovesOn
    <2>3. /\ IsTombstoned(x)' /\ tombstones'[x].mode = job[j].mode
          /\ \A y \in Ids \ {x} : tombstones'[y] = tombstones[y]
          /\ \A y \in Ids : Exists(y)' <=> Exists(y)
        BY <1>t, <2>1, TombstoneTyped
    <2>4. \A y \in Ids \ {x} : records'[y] = records[y]
        BY <1>t, <2>1 DEF Tombstone, StoreTypeOK
    <2>5. Row
        <3>1. CASE r = x
            BY <2>3, <3>1 DEF InForce, Row
        <3>2. CASE r # x
            <4>1. /\ records'[r] = records[r] /\ tombstones'[r] = tombstones[r]
                  /\ lexical' = lexical /\ LogMoves(r)
                BY <1>l, <2>0, <2>3, <2>4, <3>2 DEF surfaceVars
            <4> QED BY <4>1 DEF Undisturbed, InForce, Exists, Active, IsTombstoned, Row
        <3> QED BY <3>1, <3>2
    <2>6. Jobs_
        <3>1. \A y \in Ids : tombstones'[y].mode \in {tombstones[y].mode, job[j].mode}
            BY <2>3
        <3> QED BY <1>j, <2>2, <2>3, <3>1 DEF MovesOn
    <2> QED BY <1>c, <1>g, <2>0, <2>5, <2>6 DEF countVars
<1>3. ASSUME NEW j \in Jobs, MarkDeleting(j) PROVE Goal
    <2>1. PICK x \in Ids : Turn(j, x, "lexical") /\ SetTombstoneState(x, "index_deleting")
        BY <1>3 DEF MarkDeleting
    <2>2. MovesOn(j)
        BY <1>p, <1>t, <2>1, TurnMovesOn
    <2>3. "index_deleting" \in DeletionStates /\ UNCHANGED <<surfaceVars, oplog, countVars>>
        BY <1>3 DEF MarkDeleting, DeletionStates
    <2> QED BY <1>m, <2>1, <2>2, <2>3
<1>4. ASSUME NEW j \in Jobs, PurgeLexical(j) PROVE Goal
    <2>1. lexical'[r] = lexical[r] \/ IsTombstoned(r)
        BY <1>4, <1>a DEF PurgeLexical, Removed, At
    <2>2. MovesOn(j)
        BY <1>4, <1>p, <1>t, GotoMovesOn DEF PurgeLexical
    <2>3. UNCHANGED storeVars /\ LogMoves(r) /\ LogCounts
        BY <1>4, <1>c, <1>l DEF PurgeLexical, countVars
    <2> QED BY <1>k, <2>1, <2>2, <2>3
<1>5. ASSUME NEW j \in Jobs, CheckLexical(j) PROVE Goal
    <2>1. Contained(lexical, job[j].ids) \in SUBSET Ids
        BY <1>t DEF Contained
    <2>2. MovesOn(j)
        BY <1>5, <1>p, <1>t, <2>1, AnswerMovesOn DEF CheckLexical
    <2> QED BY <1>5, <1>n, <2>2 DEF CheckLexical
<1>6. ASSUME NEW j \in Jobs, EnqueueRemove(j) PROVE Goal
    <2> DEFINE o == NewOp("remove_index", job[j].ids, 0)
    <2>1. o \in VectorOp /\ o.ids = job[j].ids /\ o.attempts = 0
        BY <1>t, NewOpTyped DEF NewOp
    <2>2. /\ oplog' = Append(oplog, o) /\ vector' = vector /\ lexical' = lexical
          /\ vectorFailures' = vectorFailures /\ UNCHANGED storeVars
        BY <1>6 DEF EnqueueRemove, surfaceVars, countVars
    <2> HIDE DEF o
    <2>3. LogMoves(r) \/ IsTombstoned(r)
        <3>1. r \in job[j].ids => IsTombstoned(r)
            BY <1>6, <1>a DEF EnqueueRemove, At
        <3> QED BY <2>1, <2>2, <3>1 DEF LogMoves
    <2>4. LogCounts
        BY <2>1, <2>2 DEF LogCounts
    <2>5. MovesOn(j)
        BY <1>6, <1>p, <1>t, GotoMovesOn DEF EnqueueRemove
    <2> QED BY <1>k, <2>2, <2>3, <2>4, <2>5
<1>7. ASSUME NEW j \in Jobs, Drained(j) PROVE Goal
    <2>1. MovesOn(j)
        BY <1>7, <1>p, <1>t, GotoMovesOn DEF Drained
    <2> QED BY <1>7, <1>n, <2>1 DEF Drained
<1>8. ASSUME NEW j \in Jobs, AnswerVector(j) PROVE Goal
    <2>1. job[j].bad \cup Contained(vector, job[j].ids) \in SUBSET Ids
        BY <1>t DEF Contained, JobRecord
    <2>2. job' = [job EXCEPT ![j].pc = "artifacts",
                             ![j].bad = job[j].bad \cup Contained(vector, job[j].ids)]
        BY <1>8, <1>t DEF AnswerVector
    <2>3. MovesOn(j)
        BY <1>p, <1>t, <2>1, <2>2, AnswerMovesOn
    <2> QED BY <1>8, <1>n, <2>3 DEF AnswerVector
<1>9. ASSUME NEW j \in Jobs, PurgeArtifacts(j) PROVE Goal
    <2>1. \E pc \in JobPcs : Goto(j, pc) /\ (pc = "erasing" => job[j].mode = "hard")
        BY <1>9 DEF PurgeArtifacts, JobPcs
    <2>2. /\ Others(j) /\ job'[j].mode = job[j].mode
          /\ job'[j].pc = "erasing" => job[j].mode = "hard"
        BY <1>t, <2>1, GotoJob
    <2>3. UNCHANGED storeVars /\ lexical' = lexical /\ LogMoves(r) /\ LogCounts
        BY <1>9, <1>c, <1>l DEF PurgeArtifacts, countVars
    <2> QED BY <1>s, <2>2, <2>3
<1>10. ASSUME NEW j \in Jobs, EraseOne(j) PROVE Goal
    <2>1. PICK x \in Ids : Turn(j, x, "rebuilding") /\ HardDelete(x)
        BY <1>10 DEF EraseOne
    <2>2. /\ tombstones' = tombstones /\ ~Exists(x)'
          /\ \A y \in Ids \ {x} : records'[y] = records[y]
        BY <1>t, <2>1, HardDeleteTyped
    <2>0. At(j, "erasing") /\ UNCHANGED <<surfaceVars, oplog, countVars>>
        BY <1>10 DEF EraseOne
    <2>5. MovesOn(j)
        BY <1>p, <1>t, <2>1, TurnMovesOn
    <2>3. Row
        <3>1. CASE r = x
            BY <2>2, <3>1 DEF InForce, Row
        <3>2. CASE r # x
            <4>1. /\ records'[r] = records[r] /\ tombstones'[r] = tombstones[r]
                  /\ lexical' = lexical /\ LogMoves(r)
                BY <1>l, <2>0, <2>2, <3>2 DEF surfaceVars
            <4> QED BY <4>1 DEF Undisturbed, InForce, Exists, Active, IsTombstoned, Row
        <3> QED BY <3>1, <3>2
    <2>4. Jobs_
        BY <1>j, <2>0, <2>2, <2>5 DEF MovesOn
    <2> QED BY <1>c, <1>g, <2>0, <2>3, <2>4 DEF countVars
<1>11. ASSUME NEW j \in Jobs, RebuildLexical(j) PROVE Goal
    <2>1. MovesOn(j)
        BY <1>11, <1>p, <1>t, GotoMovesOn DEF RebuildLexical
    <2>2. UNCHANGED storeVars /\ LogMoves(r) /\ LogCounts
        BY <1>11, <1>c, <1>l DEF RebuildLexical, countVars
    <2>3. lexical'[r] = IF Exists(r) THEN records[r].content ELSE NoEntry
        BY <1>11 DEF RebuildLexical, RebuiltPostings
    <2>4. Row
        BY <2>2, <2>3 DEF storeVars, Undisturbed, InForce, Exists, Active, IsTombstoned, Row
    <2>5. Jobs_
        <3>1. /\ \A y \in Ids : tombstones'[y].mode \in {tombstones[y].mode, job[j].mode}
              /\ Exists(r) => Exists(r)'
            BY <2>2 DEF storeVars, Exists
        <3> QED BY <1>j, <2>1, <3>1 DEF MovesOn
    <2> QED BY <1>g, <2>2, <2>4, <2>5
<1>12. ASSUME NEW j \in Jobs, Verify(j) PROVE Goal
    <2>1. \E pc \in JobPcs \ {"erasing"} : Goto(j, pc)
        BY <1>12, <1>p DEF Verify
    <2>2. MovesOn(j)
        BY <1>t, <2>1, GotoMovesOn
    <2> QED BY <1>12, <1>n, <2>2 DEF Verify
<1>13. ASSUME NEW j \in Jobs, MarkVerified(j) PROVE Goal
    <2>1. PICK x \in Ids : Turn(j, x, "done") /\ SetTombstoneState(x, "verified")
        BY <1>13 DEF MarkVerified
    <2>2. MovesOn(j)
        BY <1>p, <1>t, <2>1, TurnMovesOn
    <2>3. "verified" \in DeletionStates /\ UNCHANGED <<surfaceVars, oplog, countVars>>
        BY <1>13 DEF MarkVerified, DeletionStates
    <2> QED BY <1>m, <2>1, <2>2, <2>3
<1>14. ASSUME NEW j \in Jobs, MarkFailed(j) PROVE Goal
    <2>1. PICK x \in Ids :
            /\ SetTombstoneState(x, FailureState(j))
            /\ IF job[j].todo = {x} /\ RetriesLeft(j)
               THEN job' = [job EXCEPT ![j].pc = "marking", ![j].todo = job[j].ids,
                                       ![j].bad = {}, ![j].attempt = @ + 1]
               ELSE Turn(j, x, "done")
        BY <1>14 DEF MarkFailed
    <2>2. FailureState(j) \in DeletionStates
        BY DEF FailureState, DeletionStates
    <2>3. MovesOn(j)
        <3>1. CASE Turn(j, x, "done")
            BY <1>p, <1>t, <3>1, TurnMovesOn
        <3>2. CASE job' = [job EXCEPT ![j].pc = "marking", ![j].todo = job[j].ids,
                                      ![j].bad = {}, ![j].attempt = @ + 1]
            BY <1>t, <3>2, NextRound DEF MovesOn
        <3> QED BY <2>1, <3>1, <3>2
    <2>4. UNCHANGED <<surfaceVars, oplog, countVars>>
        BY <1>14 DEF MarkFailed
    <2> QED BY <1>m, <2>1, <2>2, <2>3, <2>4
<1>15. ASSUME NEW j \in Jobs, RetryJob(j) PROVE Goal
    <2>1. PICK first \in JobRows(j) :
            StartPurge(j, "marking", JobRows(j), tombstones[first].mode)
        BY <1>15 DEF RetryJob
    <2>2. JobRows(j) \in SUBSET Ids /\ tombstones[first].mode \in Modes /\ first \in Ids
        BY <1>t, RowsOfJob DEF JobRows
    <2>3. Others(j) /\ job'[j].mode = tombstones[first].mode /\ job'[j].pc = "marking"
        BY <1>p, <1>t, <2>1, <2>2, StartJob
    <2>0. UNCHANGED <<storeVars, surfaceVars, oplog, vectorFailures>>
        BY <1>15 DEF RetryJob
    <2>4. Logical => Logical'
        <3> SUFFICES ASSUME Logical PROVE Logical'
            OBVIOUS
        <3>1. \A k \in Jobs : job'[k].mode = "logical" /\ job'[k].pc # "erasing"
            BY <2>2, <2>3 DEF Logical, Others, At, Modes
        <3> QED BY <2>0, <3>1 DEF Logical, At, storeVars
    <2>5. Row
        BY <1>l, <1>r, <2>0 DEF storeVars, surfaceVars, IsTombstoned
    <2>6. Jobs_
        BY <2>0, <2>4 DEF storeVars, Exists, Jobs_
    <2> QED BY <1>c, <1>g, <2>0, <2>5, <2>6
<1>16. ASSUME NEW j \in Jobs, Interrupt(j) PROVE Goal
    <2>1. MovesOn(j)
        BY <1>16, <1>p, <1>t, GotoMovesOn DEF Interrupt
    <2>2. /\ UNCHANGED storeVars /\ lexical' = lexical /\ oplog' = oplog /\ vector' = vector
          /\ vectorFailures' = vectorFailures
        BY <1>16 DEF Interrupt, surfaceVars
    <2>3. LogMoves(r) /\ LogCounts
        BY <1>c, <1>l, <2>2
    <2> QED BY <1>k, <2>1, <2>2, <2>3
(* The log is served: jobs and store are left alone.                       *)
<1>o. ASSUME UNCHANGED <<storeVars, lexical, job>>, LogMoves(r), LogCounts PROVE Goal
    <2>1. Row
        BY <1>o, <1>r DEF storeVars, IsTombstoned
    <2>2. Jobs_
        BY <1>o DEF storeVars, Logical, At, Exists, Jobs_
    <2> QED BY <1>g, <1>o, <2>1, <2>2
<1>17. ASSUME NEW i \in DOMAIN oplog, ApplyOp(i) PROVE Goal
    <2>1. UNCHANGED <<storeVars, lexical, job>>
        BY <1>17 DEF ApplyOp
    <2>2. LogMoves(r) /\ LogCounts
        BY <1>17 DEF LogMoves, LogCounts
    <2> QED BY <1>o, <2>1, <2>2
<1>18. ASSUME NEW i \in DOMAIN oplog, OpBackoffExpires(i) PROVE Goal
    <2>1. UNCHANGED <<storeVars, lexical, job>>
        BY <1>18 DEF OpBackoffExpires, surfaceVars
    <2>2. LogMoves(r) /\ LogCounts
        BY <1>18 DEF LogMoves, LogCounts
    <2> QED BY <1>o, <2>1, <2>2
<1>19. Goal
    BY <1>1, <1>2, <1>3, <1>4, <1>5, <1>6, <1>7, <1>8, <1>9, <1>10, <1>11, <1>12, <1>13,
       <1>14, <1>15, <1>16, <1>17, <1>18
    DEF DeletionStep, JobStep, RequestSomeDeletion, ApplySomeOp, ExpireSomeBackoff
<1> QED
    BY <1>19 DEF Goal, Row, Jobs_

-----------------------------------------------------------------------------
(* The steps of a call                                                     *)

(* The row of a record in force was in force, with the same content.       *)
Kept(r) == InForce(r)' => InForce(r) /\ records'[r].content = records[r].content

LEMMA StillServes ==
    ASSUME EngineTyped, NEW t \in Threads, NEW x, CallServes(t), Takes(t, x), used' = used,
           \A r \in Ids : Kept(r) \/ (x = "store" /\ r = call[t].id),
           x = "status" => \A r \in Ids : r = call[t].old => ~InForce(r)',
           x = "reread" /\ Left(t)' # {} =>
                \A r \in Ids : r = call[t].id /\ InForce(r)' =>
                    call'[t].row.content = records'[r].content
    PROVE  CallServes(t)'
<1>i. PICK i, o : i = call[t].id /\ o = call[t].old
    OBVIOUS
<1> DEFINE left == Left(t)'
<1>1. /\ Left(t) = {x} \cup left /\ InOrder(call'[t].steps) /\ Follows(x, left)
      /\ left # {} => call'[t].id = i /\ call'[t].old = o
      /\ left # {} /\ x \notin {"read", "reread"} => call'[t].row = call[t].row
    BY <1>i DEF Takes
<1>2. /\ Left(t) \cap OldSteps # {} => o \in Ids /\ i # o /\ o \in used
      /\ Left(t) \cap RecordSteps # {} => i \in Ids
      /\ Left(t) \cap (RecordSteps \cup OldSteps) # {} => i \in used
    BY <1>i DEF EngineTyped, WellFormed, Corrects, CallServes, Left
<1>6. "correct" \notin Functions /\ "link" \in left => left \cap {"index", "upsert"} = {}
    BY <1>1 DEF CallServes
<1>s. /\ Left(t) \cap {"purge_lexical", "purge_vector"} # {} /\ "status" \notin Left(t) =>
            ~InForce(o)
      /\ Left(t) \cap {"index", "upsert"} # {} /\ "reread" \notin Left(t) /\ InForce(i) =>
            call[t].row.content = records[i].content
    BY <1>i DEF CallServes
<1>e. left = Range(call'[t].steps)
    BY DEF Left
<1> HIDE DEF left
<1>3. ASSUME left \cap {"purge_lexical", "purge_vector"} # {}, "status" \notin left
      PROVE  o \in Ids /\ ~InForce(o)'
    <2>1. o \in Ids /\ o # i
        BY <1>1, <1>2, <1>3 DEF OldSteps
    <2>2. CASE x = "status"
        BY <1>i, <2>1, <2>2
    <2>3. CASE x # "status"
        <3>1. ~InForce(o)
            BY <1>1, <1>3, <1>s, <2>3
        <3>2. Kept(o)
            BY <1>i, <2>1
        <3> QED BY <2>1, <3>1, <3>2 DEF Kept
    <2> QED BY <2>2, <2>3
<1>4. /\ left \cap OldSteps # {} => call'[t].id # call'[t].old /\ call'[t].old \in used'
      /\ left \cap (RecordSteps \cup OldSteps) # {} => call'[t].id \in used'
    BY <1>1, <1>2
<1>5. ASSUME left \cap {"index", "upsert"} # {}, "reread" \notin left, InForce(i)'
      PROVE  call'[t].row.content = records'[i].content
    <2>1. x \notin {"read", "unindex", "store"}
        BY <1>1, <1>5 DEF Follows
    <2>2. i \in Ids /\ left # {}
        BY <1>1, <1>2, <1>5 DEF RecordSteps
    <2>3. CASE x = "reread"
        BY <1>5, <1>i, <2>2, <2>3 DEF left
    <2>4. CASE x # "reread"
        <3>1. Kept(i)
            BY <1>i, <2>1, <2>2
        <3>2. InForce(i) /\ records'[i].content = records[i].content
            BY <1>5, <3>1 DEF Kept
        <3>3. call[t].row.content = records[i].content
            BY <1>1, <1>5, <1>s, <2>4, <3>2
        <3> QED BY <1>1, <2>1, <2>2, <2>4, <3>2, <3>3
    <2> QED BY <2>3, <2>4
<1>7. left \cap {"purge_lexical", "purge_vector"} # {} \/ left \cap {"index", "upsert"} # {} =>
            call'[t].id = i /\ call'[t].old = o
    BY <1>1
<1> QED
    BY <1>1, <1>3, <1>4, <1>5, <1>6, <1>7, <1>e
    DEF CallServes, Left, InForce, Exists, Active, IsTombstoned

(* What is posted and embedded when the call of the one thread goes on.    *)
LEMMA RowServed ==
    ASSUME EngineTyped, FailInv, CallsSucceed, OneThread, NEW t \in Threads, NEW x,
           Takes(t, x), NEW r \in Ids,
           \/ r = call[t].id /\ x \in {"unindex", "store"}
           \/ /\ Posted(r) /\ Embedded(r) /\ records'[r].content = records[r].content
              /\ lexical'[r] = lexical[r] \/ lexical'[r] = records[r].content
              /\ x = "index" /\ r = call[t].id => lexical'[r] = records[r].content
              /\ LogMoves(r) \/ WillIndex(r)'
              /\ x = "upsert" /\ r = call[t].id => WillIndex(r)'
    PROVE  Posted(r)' /\ Embedded(r)'
<1>1. /\ Left(t) = {x} \cup Left(t)' /\ Follows(x, Left(t)')
      /\ Left(t)' # {} => call'[t].id = call[t].id
    BY DEF Takes
<1>2. CASE r = call[t].id /\ x \in {"unindex", "store"}
    <2>1. "index" \in Left(t)' /\ "upsert" \in Left(t)' /\ call'[t].id = r
        BY <1>1, <1>2 DEF Follows
    <2> QED BY <2>1 DEF Posted, Embedded
<1>3. CASE /\ Posted(r) /\ Embedded(r) /\ records'[r].content = records[r].content
           /\ lexical'[r] = lexical[r] \/ lexical'[r] = records[r].content
           /\ x = "index" /\ r = call[t].id => lexical'[r] = records[r].content
           /\ LogMoves(r) \/ WillIndex(r)'
           /\ x = "upsert" /\ r = call[t].id => WillIndex(r)'
    <2>1. ASSUME NEW y \in Left(t), y # x, call[t].id = r
          PROVE  y \in Left(t)' /\ call'[t].id = r
        BY <1>1, <2>1
    <2>2. Posted(r)'
        <3>1. CASE lexical[r] = records[r].content
            BY <1>3, <3>1 DEF Posted
        <3>2. CASE lexical[r] # records[r].content
            <4>1. call[t].id = r /\ "index" \in Left(t)
                BY <1>3, <3>2 DEF Posted, OneThread
            <4>2. CASE x = "index"
                BY <1>3, <4>1, <4>2 DEF Posted
            <4>3. CASE x # "index"
                BY <2>1, <4>1, <4>3 DEF Posted
            <4> QED BY <4>2, <4>3
        <3> QED BY <3>1, <3>2
    <2>3. Embedded(r)'
        <3>1. CASE WillIndex(r)
            BY <1>3, <3>1, WillIndexStays DEF Embedded
        <3>2. CASE ~WillIndex(r)
            <4>1. call[t].id = r /\ "upsert" \in Left(t)
                BY <1>3, <3>2 DEF Embedded, OneThread
            <4>2. CASE x = "upsert"
                BY <1>3, <4>1, <4>2 DEF Embedded
            <4>3. CASE x # "upsert"
                BY <2>1, <4>1, <4>3 DEF Embedded
            <4> QED BY <4>2, <4>3
        <3> QED BY <3>1, <3>2
    <2> QED BY <2>2, <2>3
<1> QED BY <1>2, <1>3

LEMMA UsedStillExist ==
    ASSUME EngineTyped, OneThread, NEW t \in Threads, NEW x, Doing(t, x), used' = used,
           \A r \in Ids : Exists(r) => Exists(r)', UsedExist,
           x = "store" => \A r \in Ids : r = call[t].id => Exists(r)'
    PROVE  UsedExist'
<1> SUFFICES ASSUME NEW r \in used PROVE Exists(r)'
    BY DEF UsedExist
<1>1. r \in Ids
    BY DEF EngineTyped
<1>2. Exists(r) \/ (Doing(t, "store") /\ call[t].id = r)
    BY DEF UsedExist, OneThread
<1>3. Doing(t, "store") => x = "store"
    BY DEF Doing
<1> QED BY <1>1, <1>2, <1>3

(* What a step x of thread t may do to a record in force.                  *)
RowGoesOn(t, x, r) ==
    \/ x = "store" /\ r = call[t].id
    \/ /\ InForce(r) /\ records'[r].content = records[r].content
       /\ \/ lexical'[r] = lexical[r]
          \/ lexical'[r] = records[r].content
          \/ x = "unindex" /\ r = call[t].id
       /\ x = "index" /\ r = call[t].id => lexical'[r] = records[r].content
       /\ LogMoves(r) \/ WillIndex(r)'
       /\ x = "upsert" /\ r = call[t].id => WillIndex(r)'

LEMMA GoesOnServing ==
    ASSUME IndexInv, OneThread, CallsSucceed, NEW t \in Threads, NEW x, Doing(t, x),
           Takes(t, x), used' = used, job' = job, tombstones' = tombstones, LogCounts,
           \A r \in Ids : InForce(r)' => RowGoesOn(t, x, r),
           \A r \in Ids : Exists(r) => Exists(r)',
           x = "store" => \A r \in Ids : r = call[t].id => Exists(r)',
           x = "status" => \A r \in Ids : r = call[t].old => ~InForce(r)',
           x = "reread" /\ Left(t)' # {} =>
                \A r \in Ids : r = call[t].id /\ InForce(r)' =>
                    call'[t].row.content = records'[r].content
    PROVE  IndexServes'
<1>1. /\ EngineTyped /\ FailInv /\ CallServes(t)
      /\ "correct" \in Functions => Logical /\ UsedExist
      /\ \A r \in Ids : InForce(r) => Posted(r) /\ Embedded(r)
    BY DEF IndexInv, IndexServes
<1>2. FailInv'
    BY <1>1, FailStays
<1>3. "correct" \in Functions => Logical' /\ UsedExist'
    <2>1. Logical => Logical'
        BY DEF Logical, At
    <2> QED BY <1>1, <2>1, UsedStillExist
<1>4. \A u \in Threads : CallServes(u)'
    <2>1. \A r \in Ids : Kept(r) \/ (x = "store" /\ r = call[t].id)
        BY DEF Kept, RowGoesOn
    <2>2. CallServes(t)'
        BY <1>1, <2>1, StillServes
    <2> QED BY <2>2 DEF OneThread
<1>5. ASSUME NEW r \in Ids, InForce(r)' PROVE Posted(r)' /\ Embedded(r)'
    <2>1. RowGoesOn(t, x, r)
        BY <1>5
    <2>2. InForce(r) => Posted(r) /\ Embedded(r)
        BY <1>1
    <2>3. \/ r = call[t].id /\ x \in {"unindex", "store"}
          \/ /\ Posted(r) /\ Embedded(r) /\ records'[r].content = records[r].content
             /\ lexical'[r] = lexical[r] \/ lexical'[r] = records[r].content
             /\ x = "index" /\ r = call[t].id => lexical'[r] = records[r].content
             /\ LogMoves(r) \/ WillIndex(r)'
             /\ x = "upsert" /\ r = call[t].id => WillIndex(r)'
        BY <2>1, <2>2 DEF RowGoesOn
    <2> QED BY <1>1, <2>3, RowServed
<1> QED
    BY <1>2, <1>3, <1>4, <1>5 DEF IndexServes

(* A call that ends where it writes no index any more.                     *)
LEMMA EndsServing ==
    ASSUME IndexInv, OneThread, NEW t \in Threads, ~Doing(t, "store"), UNCHANGED deletionVars,
           used' = used, call'[t].steps = <<>>,
           Left(t) \cap {"index", "upsert"} = {} \/ ~InForce(call[t].id)
    PROVE  IndexServes'
<1>1. /\ FailInv /\ ("correct" \in Functions => Logical /\ UsedExist)
      /\ \A r \in Ids : InForce(r) => Posted(r) /\ Embedded(r)
    BY DEF IndexInv, IndexServes
<1>2. UNCHANGED <<records, tombstones, lexical, vector, oplog, job, vectorFailures>>
    BY DEF deletionVars, storeVars, surfaceVars, countVars
<1>3. FailInv'
    BY <1>1, <1>2 DEF FailInv, Headroom
<1>4. "correct" \in Functions => Logical' /\ UsedExist'
    <2>1. Logical => Logical'
        BY <1>2 DEF Logical, At
    <2>2. UsedExist => UsedExist'
        BY <1>2 DEF UsedExist, OneThread, Exists
    <2> QED BY <1>1, <2>1, <2>2
<1>5. \A u \in Threads : CallServes(u)'
    <2>1. Left(t)' = {} /\ InOrder(call'[t].steps)
        BY ListsInOrder DEF Left, Range
    <2>2. CallServes(t)'
        BY <2>1 DEF CallServes
    <2> QED BY <2>2 DEF OneThread
<1>6. ASSUME NEW r \in Ids, InForce(r)' PROVE Posted(r)' /\ Embedded(r)'
    <2>1. InForce(r)
        BY <1>2, <1>6 DEF InForce, Exists, Active, IsTombstoned
    <2>2. Posted(r) /\ Embedded(r)
        BY <1>1, <2>1
    <2>3. lexical[r] = records[r].content /\ WillIndex(r)
        BY <2>1, <2>2 DEF Posted, Embedded, OneThread
    <2> QED BY <1>2, <2>3 DEF Posted, Embedded, WillIndex
<1> QED
    BY <1>3, <1>4, <1>5, <1>6 DEF IndexServes

(* A step outside the calls of the thread.                                 *)
LEMMA CallsLeftServing ==
    ASSUME IndexInv, CallsSucceed, call' = call, used' = used, LogCounts,
           \A r \in Ids : InForce(r)' =>
                /\ InForce(r) /\ records'[r].content = records[r].content
                /\ lexical'[r] = lexical[r] \/ lexical'[r] = records[r].content
                /\ LogMoves(r),
           \A r \in Ids : "correct" \in Functions => (Exists(r) => Exists(r)'),
           "correct" \in Functions => Logical'
    PROVE  IndexServes'
<1>1. /\ EngineTyped /\ FailInv /\ \A t \in Threads : CallServes(t)
      /\ "correct" \in Functions => UsedExist
      /\ \A r \in Ids : InForce(r) => Posted(r) /\ Embedded(r)
    BY DEF IndexInv, IndexServes
<1>2. FailInv'
    BY <1>1, FailStays
<1>3. "correct" \in Functions => UsedExist'
    <2>1. used \subseteq Ids
        BY <1>1 DEF EngineTyped
    <2> QED BY <1>1, <2>1 DEF UsedExist, Doing
<1>4. ASSUME NEW t \in Threads PROVE CallServes(t)'
    <2>i. PICK i, o : i = call[t].id /\ o = call[t].old
        OBVIOUS
    <2>1. CallServes(t)
        BY <1>1
    <2>2. /\ Left(t) \cap OldSteps # {} => o \in Ids
          /\ Left(t) \cap RecordSteps # {} => i \in Ids
        BY <1>1, <2>i DEF EngineTyped, WellFormed, Corrects, Left
    <2>3. Left(t) \cap {"purge_lexical", "purge_vector"} # {} /\ "status" \notin Left(t) =>
            ~InForce(o)'
        BY <2>1, <2>2, <2>i DEF CallServes, OldSteps
    <2>4. Left(t) \cap {"index", "upsert"} # {} /\ "reread" \notin Left(t) /\ InForce(i)' =>
            call[t].row.content = records'[i].content
        BY <2>1, <2>2, <2>i DEF CallServes, RecordSteps
    <2>5. Left(t)' = Left(t)
        BY DEF Left
    <2> QED
        BY <2>1, <2>3, <2>4, <2>5, <2>i DEF CallServes, InForce, Exists, Active, IsTombstoned
<1>5. ASSUME NEW r \in Ids, InForce(r)' PROVE Posted(r)' /\ Embedded(r)'
    <2>1. /\ Posted(r) /\ Embedded(r) /\ records'[r].content = records[r].content
          /\ lexical'[r] = lexical[r] \/ lexical'[r] = records[r].content
          /\ LogMoves(r)
        BY <1>1, <1>5
    <2>2. Posted(r)'
        BY <2>1 DEF Posted, Left
    <2>3. WillIndex(r) => WillIndex(r)'
        BY <1>1, <2>1, WillIndexStays
    <2>4. Embedded(r)'
        BY <2>1, <2>3 DEF Embedded, Left
    <2> QED BY <2>2, <2>4
<1> QED
    BY <1>2, <1>3, <1>4, <1>5 DEF IndexServes

LEMMA WriterServes ==
    ASSUME IndexInv, OneThread, CallsSucceed, NEW t \in Threads, WriterStep(t)
    PROVE  IndexServes'
<1> DEFINE Goal == IndexServes'
<1>t. /\ EngineTyped /\ FailInv /\ CallServes(t) /\ InOrder(call[t].steps)
      /\ StoreTypeOK /\ lexical \in [Ids -> 0..MaxContent \cup {NoEntry}]
      /\ "correct" \in Functions => Logical /\ UsedExist
    BY DEF IndexInv, IndexServes, CallServes, EngineTyped, JobsInv, DeletionTypeOK
<1>i. PICK i, o : i = call[t].id /\ o = call[t].old
    OBVIOUS
<1>l. ASSUME oplog' = oplog, vectorFailures' = vectorFailures PROVE LogCounts
    BY <1>l DEF LogCounts
<1>m. ASSUME oplog' = oplog, vector' = vector, NEW r \in Ids PROVE LogMoves(r)
    BY <1>m DEF LogMoves
(* A step that leaves the store.                                           *)
<1>k. ASSUME NEW x, Doing(t, x), Takes(t, x), UNCHANGED <<storeVars, job>>, used' = used,
             x \notin {"store", "status", "reread"}, LogCounts,
             \A r \in Ids : InForce(r) =>
                /\ \/ lexical'[r] = lexical[r]
                   \/ lexical'[r] = records[r].content
                   \/ x = "unindex" /\ r = i
                /\ x = "index" /\ r = i => lexical'[r] = records[r].content
                /\ LogMoves(r) \/ WillIndex(r)'
                /\ x = "upsert" /\ r = i => WillIndex(r)'
      PROVE  Goal
    <2>1. records' = records /\ tombstones' = tombstones
        BY <1>k DEF storeVars
    <2>2. \A r \in Ids : InForce(r)' => InForce(r)
        BY <2>1 DEF InForce, Exists, Active, IsTombstoned
    <2>3. \A r \in Ids : InForce(r)' => RowGoesOn(t, x, r)
        BY <1>i, <1>k, <2>1, <2>2 DEF RowGoesOn
    <2>4. \A r \in Ids : Exists(r) => Exists(r)'
        BY <2>1 DEF Exists
    <2> QED BY <1>k, <2>1, <2>3, <2>4, GoesOnServing
(* A step that leaves the log and the vector index too.                    *)
<1>x. ASSUME NEW x, Doing(t, x), Advance(t), UNCHANGED <<storeVars, job, oplog, vector>>,
             used' = used, vectorFailures' = vectorFailures,
             x \notin {"store", "status", "reread", "upsert"},
             \A r \in Ids : InForce(r) =>
                /\ \/ lexical'[r] = lexical[r]
                   \/ lexical'[r] = records[r].content
                   \/ x = "unindex" /\ r = i
                /\ x = "index" /\ r = i => lexical'[r] = records[r].content
      PROVE  Goal
    <2>1. Takes(t, x)
        BY <1>t, <1>x, AdvanceTakes
    <2>2. LogCounts /\ \A r \in Ids : LogMoves(r)
        BY <1>l, <1>m, <1>x
    <2> QED BY <1>k, <1>x, <2>1, <2>2
<1>v. ASSUME UNCHANGED deletionVars
      PROVE  /\ UNCHANGED <<storeVars, job, oplog, vector>> /\ lexical' = lexical
             /\ vectorFailures' = vectorFailures
    BY <1>v DEF deletionVars, surfaceVars, countVars
<1>d. ASSUME NEW x, Doing(t, x), Advance(t), UNCHANGED deletionVars, used' = used,
             x \in {"guard", "drain", "link"}
      PROVE  Goal
    BY <1>d, <1>v, <1>x
<1>e. ASSUME NEW x, Doing(t, x), x # "store", Abandon(t), UNCHANGED deletionVars, used' = used,
             Left(t) \cap {"index", "upsert"} = {} \/ ~InForce(call[t].id)
      PROVE  Goal
    <2>1. call'[t].steps = <<>>
        BY <1>e, <1>t DEF EngineTyped, Abandon, IdleCall
    <2>2. ~Doing(t, "store")
        BY <1>e DEF Doing
    <2> QED BY <1>e, <2>1, <2>2, EndsServing
(* What is left of the call after x, and before.                           *)
<1>f. ASSUME NEW x, Doing(t, x)
      PROVE  Left(t) = {x} \cup Range(Rest(t)) /\ Follows(x, Range(Rest(t)))
    <2>1. call[t].steps \in Seq(StepNames) /\ FiltersFirst(call[t].steps) /\ call[t].steps # <<>>
        BY <1>f, <1>t DEF EngineTyped, WellFormed, CallRecord, Doing
    <2> QED BY <1>f, <1>t, <2>1, RestOfSteps, RestInOrder DEF Left, Rest, Doing
<1>1. CASE ReadOld(t)
    <2>1. Doing(t, "read") /\ UNCHANGED deletionVars /\ used' = used
        BY <1>1 DEF ReadOld, OnlyCall
    <2>2. CASE RowFound(call[t].id)
        <3>1. PICK row : call' = [call EXCEPT ![t].steps = Rest(t), ![t].row.status = row]
            BY <1>1, <2>2 DEF ReadOld
        <3>2. /\ call'[t].steps = Rest(t) /\ call'[t].id = call[t].id
              /\ call'[t].old = call[t].old
            BY <1>t, <3>1 DEF EngineTyped, CallRecord
        <3>3. Takes(t, "read")
            BY <1>t, <2>1, <3>2, TakesStep
        <3>4. LogCounts /\ \A r \in Ids : LogMoves(r)
            BY <1>l, <1>m, <1>v, <2>1
        <3> QED BY <1>k, <1>v, <2>1, <3>3, <3>4
    <2>3. CASE ~RowFound(call[t].id)
        <3>1. Abandon(t) /\ ~InForce(call[t].id)
            BY <1>1, <2>3 DEF ReadOld, RowFound, InForce
        <3> QED BY <1>e, <2>1, <3>1
    <2> QED BY <2>2, <2>3
<1>2. CASE Unindex(t)
    <2>1. \A r \in Ids : lexical'[r] = lexical[r] \/ r = i
        BY <1>2, <1>i DEF Unindex, Removed
    <2>2. /\ Doing(t, "unindex") /\ Advance(t) /\ UNCHANGED <<storeVars, job, oplog, vector>>
          /\ used' = used /\ vectorFailures' = vectorFailures
        BY <1>2 DEF Unindex, OnlyLexical, countVars
    <2> QED BY <1>x, <2>1, <2>2
<1>3. CASE StoreRow(t)
    <2>0. Doing(t, "store") /\ Advance(t)
        BY <1>3 DEF StoreRow
    <2>1. /\ i \in Ids /\ call[t].row.status \in Statuses /\ call[t].row.content \in 0..MaxContent
          /\ Takes(t, "store")
        BY <1>i, <1>t, <2>0, Arguments, AdvanceTakes DEF RecordSteps
    <2>2. Write(i, call[t].row.status, call[t].row.content)
        BY <1>3, <1>i DEF StoreRow
    <2>3. /\ tombstones' = tombstones /\ Exists(i)' /\ \A r \in Ids : Exists(r) => Exists(r)'
          /\ \A r \in Ids \ {i} : records'[r] = records[r]
        BY <1>t, <2>1, <2>2, WriteTyped
    <2>4. /\ UNCHANGED <<job, oplog, vector, lexical>> /\ used' = used
          /\ vectorFailures' = vectorFailures
        BY <1>3 DEF StoreRow, OnlyStore, surfaceVars, countVars
    <2>5. ASSUME NEW r \in Ids, InForce(r)' PROVE RowGoesOn(t, "store", r)
        <3>1. CASE r = i
            BY <1>i, <3>1 DEF RowGoesOn
        <3>2. CASE r # i
            <4>1. InForce(r) /\ records'[r].content = records[r].content /\ LogMoves(r)
                BY <1>m, <2>3, <2>4, <2>5, <3>2 DEF InForce, Exists, Active, IsTombstoned
            <4> QED BY <2>4, <4>1 DEF RowGoesOn
        <3> QED BY <3>1, <3>2
    <2> QED BY <1>i, <1>l, <2>0, <2>1, <2>3, <2>4, <2>5, GoesOnServing
<1>4. CASE Reread(t)
    <2>0. Doing(t, "reread") /\ UNCHANGED deletionVars /\ used' = used
        BY <1>4 DEF Reread, OnlyCall
    <2>1. PICK row : /\ row = IF Exists(i) THEN records[i] ELSE call[t].row
                     /\ call' = [call EXCEPT ![t].steps = Rest(t), ![t].row = row]
        BY <1>4, <1>i, <1>t DEF Reread, EngineTyped, CallRecord
    <2>2. /\ call'[t].steps = Rest(t) /\ call'[t].id = call[t].id
          /\ call'[t].old = call[t].old /\ call'[t].row = row
        BY <1>t, <2>1 DEF EngineTyped, CallRecord
    <2>3. Takes(t, "reread")
        BY <1>t, <2>0, <2>2, TakesStep
    <2>4. records' = records /\ tombstones' = tombstones /\ job' = job /\ lexical' = lexical
        BY <1>v, <2>0 DEF storeVars
    <2>5. LogCounts /\ \A r \in Ids : LogMoves(r)
        BY <1>l, <1>m, <1>v, <2>0
    <2>6. \A r \in Ids : InForce(r)' => RowGoesOn(t, "reread", r)
        BY <2>4, <2>5 DEF RowGoesOn, InForce, Exists, Active, IsTombstoned
    <2>7. \A r \in Ids : Exists(r) => Exists(r)'
        BY <2>4 DEF Exists
    <2>8. \A r \in Ids : r = call[t].id /\ InForce(r)' => call'[t].row.content = records'[r].content
        BY <1>i, <2>1, <2>2, <2>4 DEF InForce, Exists
    <2> QED BY <2>0, <2>3, <2>4, <2>5, <2>6, <2>7, <2>8, GoesOnServing
<1>5. CASE IndexRow(t)
    <2>0. /\ Doing(t, "index") /\ Advance(t) /\ UNCHANGED <<storeVars, job, oplog, vector>>
          /\ used' = used /\ vectorFailures' = vectorFailures
        BY <1>5 DEF IndexRow, OnlyLexical, countVars
    <2>1. lexical' = [lexical EXCEPT ![i] = call[t].row.content]
        BY <1>5, <1>i DEF IndexRow
    <2>2. InForce(i) => call[t].row.content = records[i].content
        BY <1>f, <1>i, <1>t, <2>0 DEF Follows, CallServes
    <2>3. \A r \in Ids \ {i} : lexical'[r] = lexical[r]
        BY <1>t, <2>1
    <2>4. i \in Ids => lexical'[i] = call[t].row.content
        BY <1>t, <2>1
    <2>5. \A r \in Ids : InForce(r) =>
            /\ lexical'[r] = lexical[r] \/ lexical'[r] = records[r].content
            /\ r = i => lexical'[r] = records[r].content
        BY <2>2, <2>3, <2>4
    <2> QED BY <1>x, <2>0, <2>5
<1>6. CASE MergeGuard(t)
    <2>1. Doing(t, "guard") /\ UNCHANGED deletionVars /\ used' = used
        BY <1>6 DEF MergeGuard, OnlyCall
    <2>2. CASE Advance(t)
        BY <1>d, <2>1, <2>2
    <2>3. CASE Abandon(t)
        <3>1. Left(t) \cap {"index", "upsert"} = {}
            BY <1>f, <2>1 DEF Follows
        <3> QED BY <1>e, <2>1, <2>3, <3>1
    <2> QED BY <1>6, <2>2, <2>3 DEF MergeGuard
<1>7. CASE MarkOld(t)
    <2>0. Doing(t, "status") /\ Advance(t)
        BY <1>7 DEF MarkOld
    <2>1. o \in Ids /\ Takes(t, "status")
        BY <1>i, <1>t, <2>0, Arguments, AdvanceTakes DEF OldSteps, Corrects
    <2>2. PICK s \in {"superseded", "contradicted"} : SetStatus(o, s)
        BY <1>7, <1>i DEF MarkOld
    <2>3. /\ tombstones' = tombstones /\ \A r \in Ids : records'[r].content = records[r].content
          /\ \A r \in Ids \ {o} : records'[r] = records[r]
          /\ \A r \in Ids : Exists(r) => Exists(r)'
        BY <1>t, <2>1, <2>2, SetStatusTyped DEF Statuses
    <2>4. /\ UNCHANGED <<job, oplog, vector, lexical>> /\ used' = used
          /\ vectorFailures' = vectorFailures
        BY <1>7 DEF MarkOld, OnlyStore, surfaceVars, countVars
    <2>5. ~InForce(o)'
        <3>1. CASE Exists(o)
            <4>1. records'[o].status = s
                BY <1>t, <2>1, <2>2, <3>1 DEF SetStatus, StoreTypeOK, Record, Exists
            <4> QED BY <4>1 DEF InForce, Active
        <3>2. CASE ~Exists(o)
            BY <2>2, <3>2 DEF SetStatus, InForce, Exists
        <3> QED BY <3>1, <3>2
    <2>6. ASSUME NEW r \in Ids, InForce(r)' PROVE RowGoesOn(t, "status", r)
        <3>1. r # o
            BY <2>5, <2>6
        <3>2. InForce(r) /\ records'[r].content = records[r].content /\ LogMoves(r)
            BY <1>m, <2>3, <2>4, <2>6, <3>1 DEF InForce, Exists, Active, IsTombstoned
        <3> QED BY <2>4, <3>2 DEF RowGoesOn
    <2> QED BY <1>i, <1>l, <2>0, <2>1, <2>3, <2>4, <2>5, <2>6, GoesOnServing
<1>8. CASE Link(t)
    <2>0. Doing(t, "link") /\ Advance(t)
        BY <1>8 DEF Link
    <2>1. records' = records /\ tombstones' = tombstones /\ Takes(t, "link")
        BY <1>8, <1>t, <2>0, AdvanceTakes DEF Link, AddDependency
    <2>2. /\ UNCHANGED <<job, oplog, vector, lexical>> /\ used' = used
          /\ vectorFailures' = vectorFailures
        BY <1>8 DEF Link, OnlyStore, surfaceVars, countVars
    <2>3. \A r \in Ids : InForce(r)' => RowGoesOn(t, "link", r)
        BY <1>m, <2>1, <2>2 DEF RowGoesOn, InForce, Exists, Active, IsTombstoned
    <2>4. \A r \in Ids : Exists(r) => Exists(r)'
        BY <2>1 DEF Exists
    <2> QED BY <1>l, <2>0, <2>1, <2>2, <2>3, <2>4, GoesOnServing
<1>9. CASE LinkRefused(t)
    <2>1. /\ Doing(t, "link") /\ UNCHANGED deletionVars /\ used' = used /\ Abandon(t)
          /\ ~Exists(call[t].id) \/ ~Exists(call[t].old)
        BY <1>9 DEF LinkRefused, OnlyCall
    <2>2. "link" \in Left(t) /\ ~Doing(t, "store")
        BY <1>t, <2>1, Arguments DEF Left, Doing
    <2>3. "correct" \notin Functions
        <3>1. call[t].id \in used /\ call[t].old \in used
            BY <1>t, <2>2 DEF CallServes, OldSteps
        <3>2. UsedExist => Exists(call[t].id) /\ Exists(call[t].old)
            BY <2>2, <3>1 DEF UsedExist, OneThread
        <3> QED BY <1>t, <2>1, <3>2
    <2>4. Left(t) \cap {"index", "upsert"} = {}
        BY <1>t, <2>2, <2>3 DEF CallServes
    <2> QED BY <1>e, <2>1, <2>4
(* The old record is out of force by now.                                  *)
<1>o. ASSUME NEW x \in {"purge_lexical", "purge_vector"}, Doing(t, x) PROVE ~InForce(o)
    BY <1>f, <1>i, <1>o, <1>t DEF Follows, CallServes
<1>10. CASE PurgeOldLexical(t)
    <2>1. /\ Doing(t, "purge_lexical") /\ Advance(t) /\ UNCHANGED <<storeVars, job, oplog, vector>>
          /\ used' = used /\ vectorFailures' = vectorFailures
        BY <1>10 DEF PurgeOldLexical, OnlyLexical, countVars
    <2>2. \A r \in Ids : r = o \/ lexical'[r] = lexical[r]
        BY <1>10, <1>i DEF PurgeOldLexical, Removed
    <2>3. ~InForce(o)
        BY <1>o, <2>1
    <2>4. \A r \in Ids : InForce(r) => lexical'[r] = lexical[r]
        BY <2>2, <2>3
    <2> QED BY <1>x, <2>1, <2>4
<1>11. CASE PurgeOldVector(t)
    <2>0. Doing(t, "purge_vector") /\ Advance(t)
        BY <1>11 DEF PurgeOldVector
    <2>1. o \in Ids /\ Takes(t, "purge_vector") /\ ~InForce(o)
        BY <1>i, <1>o, <1>t, <2>0, Arguments, AdvanceTakes DEF OldSteps, Corrects
    <2> DEFINE p == NewOp("remove_index", {o}, 0)
    <2>2. p \in VectorOp /\ p.ids = {o} /\ p.attempts = 0
        BY <2>1, NewOpTyped DEF NewOp
    <2>3. /\ oplog' = Append(oplog, p) /\ vector' = vector /\ lexical' = lexical
          /\ vectorFailures' = vectorFailures /\ UNCHANGED <<storeVars, job>> /\ used' = used
        BY <1>11, <1>i DEF PurgeOldVector, OnlyLog, surfaceVars, countVars
    <2> HIDE DEF p
    <2>4. LogCounts
        BY <2>2, <2>3 DEF LogCounts
    <2>5. \A r \in Ids : InForce(r) => LogMoves(r)
        BY <2>1, <2>2, <2>3 DEF LogMoves
    <2> QED BY <1>k, <2>0, <2>1, <2>3, <2>4, <2>5
<1>12. CASE PurgeOldArtifacts(t)
    <2>1. /\ Doing(t, "purge_artifacts") /\ Advance(t) /\ lexical' = lexical
          /\ UNCHANGED <<storeVars, job, oplog, vector>>
          /\ used' = used /\ vectorFailures' = vectorFailures
        BY <1>12 DEF PurgeOldArtifacts, countVars
    <2> QED BY <1>x, <2>1
<1>13. CASE EnqueueUpsert(t)
    <2>0. Doing(t, "upsert") /\ Advance(t)
        BY <1>13 DEF EnqueueUpsert
    <2>1. /\ i \in Ids /\ call[t].row.content \in 0..MaxContent /\ Takes(t, "upsert")
        BY <1>i, <1>t, <2>0, Arguments, AdvanceTakes DEF RecordSteps
    <2>2. PICK c \in 0..MaxContent : c = call[t].row.content
        BY <2>1
    <2> DEFINE p == NewOp("upsert_index", {i}, c)
    <2>3. p \in VectorOp /\ p.ids = {i} /\ p.attempts = 0
        BY <2>1, UpsertTyped DEF NewOp
    <2>4. /\ oplog' = Append(oplog, p) /\ vector' = vector /\ lexical' = lexical
          /\ vectorFailures' = vectorFailures /\ UNCHANGED <<storeVars, job>> /\ used' = used
        BY <1>13, <1>i, <2>2 DEF EnqueueUpsert, OnlyLog, surfaceVars, countVars
    <2>5. InForce(i) => WillIndex(i)'
        <3> SUFFICES ASSUME InForce(i) PROVE WillIndex(i)'
            OBVIOUS
        <3>1. c = records[i].content
            BY <1>f, <1>i, <1>t, <2>0, <2>2 DEF Follows, CallServes
        <3>2. c = records'[i].content
            BY <2>4, <3>1 DEF storeVars
        <3> QED BY <1>t, <2>1, <2>4, <3>2, WillIndexNow
    <2> HIDE DEF p
    <2>6. LogCounts
        BY <2>3, <2>4 DEF LogCounts
    <2>7. \A r \in Ids : InForce(r) => LogMoves(r) \/ WillIndex(r)'
        <3>1. \A r \in Ids : r # i => LogMoves(r)
            BY <2>3, <2>4 DEF LogMoves
        <3> QED BY <2>5, <3>1
    <2>8. \A r \in Ids : InForce(r) /\ r = i => WillIndex(r)'
        BY <2>5
    <2> QED BY <1>k, <2>0, <2>1, <2>4, <2>6, <2>7, <2>8
<1>14. CASE DrainReturns(t)
    BY <1>14, <1>d DEF DrainReturns
<1> QED
    BY <1>1, <1>2, <1>3, <1>4, <1>5, <1>6, <1>7, <1>8, <1>9, <1>10, <1>11, <1>12, <1>13, <1>14
    DEF WriterStep

-----------------------------------------------------------------------------
(* Every step                                                              *)

LEMMA ListsComplete ==
    /\ "reread" \in Range(WriteSteps) /\ "reread" \in Range(UpdateSteps)
    /\ "reread" \in Range(CorrectSteps)
    /\ "status" \in Range(CorrectSteps) /\ "status" \in Range(MergeSteps)
<1>1. 2 \in DOMAIN WriteSteps /\ WriteSteps[2] = "reread"
    BY DEF WriteSteps, EnqueueAndDrain
<1>2. 4 \in DOMAIN UpdateSteps /\ UpdateSteps[4] = "reread"
    BY DEF UpdateSteps, WriteSteps, EnqueueAndDrain
<1>3. /\ 2 \in DOMAIN CorrectSteps /\ CorrectSteps[2] = "reread"
      /\ 3 \in DOMAIN CorrectSteps /\ CorrectSteps[3] = "status"
    BY DEF CorrectSteps, PurgeSteps, EnqueueAndDrain
<1>4. 2 \in DOMAIN MergeSteps /\ MergeSteps[2] = "status"
    BY DEF MergeSteps, PurgeSteps
<1> QED
    BY <1>1, <1>2, <1>3, <1>4 DEF Range

LEMMA BegunServing ==
    ASSUME IndexInv, OneThread, NEW t \in Threads, NEW c, Begin(t, c),
           used' = used \/ (c.steps # <<>> /\ Head(c.steps) = "store" /\ used' = used \cup {c.id}),
           InOrder(c.steps),
           Range(c.steps) \cap {"purge_lexical", "purge_vector"} # {} => "status" \in Range(c.steps),
           Range(c.steps) \cap OldSteps # {} => c.id # c.old /\ c.old \in used,
           Range(c.steps) \cap (RecordSteps \cup OldSteps) # {} => c.id \in used',
           Range(c.steps) \cap {"index", "upsert"} # {} => "reread" \in Range(c.steps),
           "correct" \notin Functions /\ "link" \in Range(c.steps) =>
                Range(c.steps) \cap {"index", "upsert"} = {}
    PROVE  IndexServes'
<1>1. /\ FailInv /\ ("correct" \in Functions => Logical /\ UsedExist)
      /\ \A r \in Ids : InForce(r) => Posted(r) /\ Embedded(r)
      /\ call \in [Threads -> CallRecord]
    BY DEF IndexInv, IndexServes, EngineTyped
<1>2. UNCHANGED <<records, tombstones, lexical, vector, oplog, job, vectorFailures>>
    BY DEF Begin, deletionVars, storeVars, surfaceVars, countVars
<1>3. call[t].steps = <<>> /\ call'[t] = c
    BY <1>1 DEF Begin
<1>4. FailInv'
    BY <1>1, <1>2 DEF FailInv, Headroom
<1>5. "correct" \in Functions => Logical' /\ UsedExist'
    <2>1. Logical => Logical'
        BY <1>2 DEF Logical, At
    <2>2. ASSUME UsedExist, NEW r \in used'
          PROVE  Exists(r)' \/ (Doing(t, "store")' /\ call'[t].id = r)
        <3>1. CASE r \in used
            <4>1. Exists(r)
                BY <1>3, <2>2, <3>1 DEF UsedExist, OneThread, Doing
            <4> QED BY <1>2, <4>1 DEF Exists
        <3>2. CASE r \notin used
            BY <1>3, <2>2, <3>2 DEF Doing
        <3> QED BY <3>1, <3>2
    <2> QED BY <1>1, <2>1, <2>2 DEF UsedExist
<1>6. \A u \in Threads : CallServes(u)'
    <2>1. Left(t)' = Range(c.steps)
        BY <1>3 DEF Left
    <2>2. CallServes(t)'
        BY <1>3, <2>1 DEF CallServes
    <2> QED BY <2>2 DEF OneThread
<1>7. ASSUME NEW r \in Ids, InForce(r)' PROVE Posted(r)' /\ Embedded(r)'
    <2>1. Left(t) = {}
        BY <1>3 DEF Left, Range
    <2>2. InForce(r)
        BY <1>2, <1>7 DEF InForce, Exists, Active, IsTombstoned
    <2>3. lexical[r] = records[r].content /\ WillIndex(r)
        BY <1>1, <2>1, <2>2 DEF Posted, Embedded, OneThread
    <2> QED BY <1>2, <2>3 DEF Posted, Embedded, WillIndex
<1> QED
    BY <1>4, <1>5, <1>6, <1>7 DEF IndexServes

LEMMA BeginServes ==
    ASSUME IndexInv, OneThread, NEW t \in Threads, BeginCall(t)
    PROVE  IndexServes'
<1>d. /\ "drain" \notin RecordSteps \cup OldSteps
      /\ {"purge_lexical", "purge_vector", "link"} \subseteq OldSteps
    BY DEF RecordSteps, OldSteps
<1>e. {"index", "upsert"} \subseteq RecordSteps /\ RecordSteps \cap OldSteps = {}
    BY DEF RecordSteps, OldSteps
(* A call that writes a record, and corrects no other.                     *)
<1>w. ASSUME NEW s, InOrder(s), Range(s) \subseteq RecordSteps \cup {"drain"},
             "reread" \in Range(s), NEW r \in Ids, NEW row,
             \/ used' = used /\ r \in used
             \/ s # <<>> /\ Head(s) = "store" /\ used' = used \cup {r},
             Begin(t, [IdleCall EXCEPT !.steps = s, !.id = r, !.row = row])
      PROVE  IndexServes'
    <2> DEFINE c == [IdleCall EXCEPT !.steps = s, !.id = r, !.row = row]
    <2>1. c.steps = s /\ c.id = r
        BY DEF IdleCall
    <2> HIDE DEF c
    <2>2. Begin(t, c)
        BY <1>w DEF c
    <2>3. /\ Range(s) \cap OldSteps = {} /\ r \in used'
          /\ used' = used \/ (s # <<>> /\ Head(s) = "store" /\ used' = used \cup {r})
        BY <1>d, <1>e, <1>w
    <2>4. Range(s) \cap {"purge_lexical", "purge_vector"} = {} /\ "link" \notin Range(s)
        BY <1>d, <2>3
    <2> QED BY <1>w, <2>1, <2>2, <2>3, <2>4, BegunServing
<1>t. used \subseteq Ids
    BY DEF IndexInv, EngineTyped
<1>1. CASE BeginWrite(t)
    <2>1. PICK r, row :
            /\ r \in Ids
            /\ used' = used \cup {r}
            /\ Begin(t, [IdleCall EXCEPT !.steps = WriteSteps, !.id = r, !.row = row])
        BY <1>1 DEF BeginWrite, FreshId
    <2> QED BY <1>w, <2>1, ListsInOrder, ListsComplete, StepLists
<1>2. CASE BeginUpdate(t)
    <2>1. PICK r, row :
            /\ r \in used
            /\ used' = used
            /\ Begin(t, [IdleCall EXCEPT !.steps = UpdateSteps, !.id = r, !.row = row])
        BY <1>2 DEF BeginUpdate
    <2> QED BY <1>t, <1>w, <2>1, ListsInOrder, ListsComplete, StepLists
<1>3. CASE BeginCorrect(t)
    <2>1. PICK r \in Ids, old \in used, rel \in {"supersedes", "contradicts"} :
            /\ r \notin used /\ used' = used \cup {r}
            /\ Begin(t, [IdleCall EXCEPT !.steps = CorrectSteps, !.id = r, !.old = old,
                                         !.rel = rel,
                                         !.row = [status |-> "active", content |-> 0]])
        BY <1>3 DEF BeginCorrect, FreshId
    <2> DEFINE c == [IdleCall EXCEPT !.steps = CorrectSteps, !.id = r, !.old = old,
                                     !.rel = rel, !.row = [status |-> "active", content |-> 0]]
    <2>2. c.steps = CorrectSteps /\ c.id = r /\ c.old = old
        BY DEF IdleCall
    <2>3. Begin(t, c)
        BY <2>1
    <2> HIDE DEF c
    <2>4. r # old /\ r \in used' /\ old \in used /\ "correct" \in Functions
        BY <1>3, <2>1 DEF BeginCorrect
    <2> QED BY <2>1, <2>2, <2>3, <2>4, BegunServing, ListsInOrder, ListsComplete
<1>4. CASE BeginMerge(t)
    <2>1. PICK primary \in used, duplicate \in used :
            /\ primary # duplicate /\ used' = used
            /\ Begin(t, [IdleCall EXCEPT !.steps = MergeSteps, !.id = primary,
                                         !.old = duplicate, !.rel = "supersedes"])
        BY <1>4 DEF BeginMerge
    <2> DEFINE c == [IdleCall EXCEPT !.steps = MergeSteps, !.id = primary,
                                     !.old = duplicate, !.rel = "supersedes"]
    <2>2. c.steps = MergeSteps /\ c.id = primary /\ c.old = duplicate
        BY DEF IdleCall
    <2>3. Begin(t, c)
        BY <2>1
    <2> HIDE DEF c
    <2>4. Range(MergeSteps) \cap {"index", "upsert"} = {}
        <3>1. Range(MergeSteps) \subseteq OldSteps \cup {"drain"}
            BY StepLists
        <3> QED BY <1>d, <1>e, <3>1
    <2> QED BY <2>1, <2>2, <2>3, <2>4, BegunServing, ListsInOrder, ListsComplete
<1>5. CASE BeginRecall(t)
    <2>1. PICK deleted, corrected :
            Begin(t, [IdleCall EXCEPT !.steps = RecallSteps, !.deleted = deleted,
                                      !.corrected = corrected])
        BY <1>5 DEF BeginRecall
    <2> DEFINE c == [IdleCall EXCEPT !.steps = RecallSteps, !.deleted = deleted,
                                     !.corrected = corrected]
    <2>2. c.steps = RecallSteps
        BY DEF IdleCall
    <2>3. Begin(t, c) /\ used' = used
        BY <1>5, <2>1 DEF BeginRecall
    <2> HIDE DEF c
    <2>4. Range(RecallSteps) \cap (RecordSteps \cup OldSteps) = {} /\ InOrder(RecallSteps)
        BY ListsInOrder, StepLists
    <2>5. /\ Range(RecallSteps) \cap {"purge_lexical", "purge_vector"} = {}
          /\ Range(RecallSteps) \cap {"index", "upsert"} = {} /\ Range(RecallSteps) \cap OldSteps = {}
        BY <1>d, <1>e, <2>4
    <2> QED BY <2>2, <2>3, <2>4, <2>5, BegunServing
<1> QED
    BY <1>1, <1>2, <1>3, <1>4, <1>5 DEF BeginCall

LEMMA RecallServes ==
    ASSUME IndexInv, OneThread, CallsSucceed, NEW t \in Threads, RecallStep(t)
    PROVE  IndexServes'
<1>t. EngineTyped /\ CallServes(t) /\ InOrder(call[t].steps) /\ call \in [Threads -> CallRecord]
    BY DEF IndexInv, IndexServes, CallServes, EngineTyped
<1>u. UNCHANGED deletionVars /\ used' = used
    BY DEF RecallStep, SearchVector, SearchLexical, Hydrate, Filter, BuildBundle, OnlyCall
<1>v. UNCHANGED <<records, tombstones, lexical, vector, oplog, job, vectorFailures>>
    BY <1>u DEF deletionVars, storeVars, surfaceVars, countVars
<1>k. ASSUME NEW x \in {"search_vector", "search_lexical", "hydrate", "filter"}, Doing(t, x),
             call'[t].steps = Rest(t), call'[t].id = call[t].id, call'[t].old = call[t].old,
             call'[t].row = call[t].row
      PROVE  IndexServes'
    <2>1. Takes(t, x)
        BY <1>k, <1>t, TakesStep
    <2>2. LogCounts /\ \A r \in Ids : LogMoves(r)
        BY <1>v DEF LogCounts, LogMoves
    <2>3. \A r \in Ids : InForce(r)' => RowGoesOn(t, x, r)
        BY <1>k, <1>v, <2>2 DEF RowGoesOn, InForce, Exists, Active, IsTombstoned
    <2>4. \A r \in Ids : Exists(r) => Exists(r)'
        BY <1>v DEF Exists
    <2>5. x \notin {"store", "status", "reread"}
        BY <1>k
    <2> QED BY <1>k, <1>u, <1>v, <2>1, <2>2, <2>3, <2>4, <2>5, GoesOnServing
<1>1. CASE SearchVector(t) \/ SearchLexical(t)
    <2>1. PICK hits : call' = [call EXCEPT ![t].steps = Rest(t), ![t].hits = hits]
        <3>1. CASE SearchVector(t)
            BY <3>1 DEF SearchVector
        <3>2. CASE SearchLexical(t)
            <4> DEFINE h == call[t].hits \cup {<<r, records[r].content>> :
                                r \in {x \in Contained(lexical, Ids) : InForce(x)}}
            <4>1. call' = [call EXCEPT ![t].steps = Rest(t), ![t].hits = h]
                BY <1>t, <3>2 DEF SearchLexical, CallRecord
            <4> HIDE DEF h
            <4> QED BY <4>1
        <3> QED BY <1>1, <3>1, <3>2
    <2>2. /\ call'[t].steps = Rest(t) /\ call'[t].id = call[t].id
          /\ call'[t].old = call[t].old /\ call'[t].row = call[t].row
        BY <1>t, <2>1 DEF CallRecord
    <2>3. Doing(t, "search_vector") \/ Doing(t, "search_lexical")
        BY <1>1 DEF SearchVector, SearchLexical
    <2> QED BY <1>k, <2>2, <2>3
<1>2. CASE Hydrate(t) \/ Filter(t)
    <2>1. PICK rows : call' = [call EXCEPT ![t].steps = Rest(t), ![t].rows = rows]
        <3>1. CASE Hydrate(t)
            BY <3>1 DEF Hydrate
        <3>2. CASE Filter(t)
            <4> DEFINE h == [r \in Ids |-> IF Survives(t, r) THEN call[t].rows[r] ELSE Absent]
            <4>1. call' = [call EXCEPT ![t].steps = Rest(t), ![t].rows = h]
                BY <1>t, <3>2 DEF Filter, CallRecord
            <4> HIDE DEF h
            <4> QED BY <4>1
        <3> QED BY <1>2, <3>1, <3>2
    <2>2. /\ call'[t].steps = Rest(t) /\ call'[t].id = call[t].id
          /\ call'[t].old = call[t].old /\ call'[t].row = call[t].row
        BY <1>t, <2>1 DEF CallRecord
    <2>3. Doing(t, "hydrate") \/ Doing(t, "filter")
        BY <1>2 DEF Hydrate, Filter
    <2> QED BY <1>k, <2>2, <2>3
<1>3. CASE BuildBundle(t)
    <2>1. Doing(t, "bundle")
        BY <1>3 DEF BuildBundle
    <2>2. call'[t].steps = <<>>
        <3>1. PICK beliefs, conflicts, standing :
                call' = [call EXCEPT ![t] = [IdleCall EXCEPT !.beliefs = beliefs,
                                                             !.conflicts = conflicts,
                                                             !.standing = standing]]
            BY <1>3 DEF BuildBundle
        <3> QED BY <1>t, <3>1 DEF IdleCall
    <2>3. Left(t) \cap {"index", "upsert"} = {}
        <3>1. call[t].steps \in Seq(StepNames) /\ FiltersFirst(call[t].steps) /\ call[t].steps # <<>>
            BY <1>t, <2>1 DEF EngineTyped, WellFormed, CallRecord, Doing
        <3>2. Left(t) = {"bundle"} \cup Range(Rest(t)) /\ Follows("bundle", Range(Rest(t)))
            BY <1>t, <2>1, <3>1, RestOfSteps, RestInOrder DEF Left, Rest, Doing
        <3> QED BY <3>2 DEF Follows
    <2>4. ~Doing(t, "store")
        BY <2>1 DEF Doing
    <2> QED BY <1>u, <2>2, <2>3, <2>4, EndsServing
<1> QED
    BY <1>1, <1>2, <1>3 DEF RecallStep

LEMMA IndexStep ==
    ASSUME OneThread, NothingComesBack, CallsSucceed, Ids # {}, IndexInv,
           [EngineNext]_engineAllVars
    PROVE  IndexInv'
<1>t. EngineTyped /\ StoreTypeOK /\ used \subseteq Ids /\ ("correct" \in Functions => Logical)
    BY DEF IndexInv, IndexServes, EngineTyped, JobsInv, DeletionTypeOK
<1>h. "correct" \in Functions => "hard" \notin RequestModes
    BY DEF NothingComesBack
<1>1. ASSUME RequestSomeDeletion \/ DeletionStep, call' = call, used' = used PROVE IndexServes'
    <2>1. \A r \in Ids :
            /\ InForce(r)' => Undisturbed(r)
            /\ Logical /\ "hard" \notin RequestModes => Logical'
            /\ Logical => (Exists(r) => Exists(r)')
            /\ LogCounts
        BY <1>1, <1>t, DeletionLeaves
    <2>2. LogCounts /\ (Logical /\ "hard" \notin RequestModes => Logical')
        BY <2>1
    <2>3. \A r \in Ids : InForce(r)' =>
            /\ InForce(r) /\ records'[r].content = records[r].content
            /\ lexical'[r] = lexical[r] \/ lexical'[r] = records[r].content
            /\ LogMoves(r)
        BY <2>1 DEF Undisturbed
    <2> QED BY <1>1, <1>h, <1>t, <2>1, <2>2, <2>3, CallsLeftServing
<1>2. ASSUME BeginDelete \/ (DeletionStep /\ UNCHANGED engineVars) PROVE IndexServes'
    BY <1>1, <1>2 DEF BeginDelete, engineVars
(* A step that leaves the rows in force, the postings and the jobs.        *)
<1>k. ASSUME call' = call, used' = used, job' = job, tombstones' = tombstones, lexical' = lexical,
             LogCounts, \A r \in Ids : LogMoves(r),
             \A r \in Ids : Exists(r) => Exists(r)',
             \A r \in Ids : InForce(r)' =>
                InForce(r) /\ records'[r].content = records[r].content
      PROVE  IndexServes'
    <2>1. Logical => Logical'
        BY <1>k DEF Logical, At
    <2> QED BY <1>k, <1>t, <2>1, CallsLeftServing
<1>3. ASSUME NEW t \in Threads, PatchStatus(t) PROVE IndexServes'
    <2>1. PICK r \in used, s \in PatchStatuses : Exists(r) /\ SetStatus(r, s)
        BY <1>3 DEF PatchStatus
    <2>2. r \in Ids /\ s \in Statuses /\ s \notin {"active", "reinforced"}
        BY <1>3, <1>t, <2>1, EngineAssumption DEF NothingComesBack, PatchStatus
    <2>3. /\ tombstones' = tombstones /\ \A x \in Ids : Exists(x)' <=> Exists(x)
          /\ \A x \in Ids : records'[x].content = records[x].content
          /\ \A x \in Ids \ {r} : records'[x] = records[x]
        BY <1>t, <2>1, <2>2, SetStatusTyped
    <2>4. records'[r].status = s
        BY <1>t, <2>1, <2>2 DEF SetStatus, StoreTypeOK, Record, Exists
    <2>5. ASSUME NEW x \in Ids, InForce(x)' PROVE InForce(x)
        <3>1. x # r
            BY <2>2, <2>4, <2>5 DEF InForce, Active
        <3> QED BY <2>3, <2>5, <3>1 DEF InForce, Exists, Active, IsTombstoned
    <2>6. /\ call' = call /\ used' = used /\ job' = job /\ lexical' = lexical
          /\ oplog' = oplog /\ vector' = vector /\ vectorFailures' = vectorFailures
        BY <1>3 DEF PatchStatus, surfaceVars, countVars
    <2>7. LogCounts /\ \A x \in Ids : LogMoves(x)
        BY <2>6 DEF LogCounts, LogMoves
    <2> QED BY <1>k, <2>3, <2>5, <2>6, <2>7
<1>4. ASSUME EngineApplies PROVE IndexServes'
    <2>1. PICK i \in DOMAIN oplog : ApplyOp(i)
        BY <1>4 DEF EngineApplies
    <2>2. UNCHANGED <<records, tombstones, lexical, job>> /\ call' = call /\ used' = used
        BY <1>4, <2>1 DEF EngineApplies, ApplyOp, storeVars, engineVars
    <2>3. LogCounts /\ \A x \in Ids : LogMoves(x)
        BY <2>1 DEF LogCounts, LogMoves
    <2>4. \A x \in Ids : (InForce(x)' => InForce(x)) /\ (Exists(x) => Exists(x)')
        BY <2>2 DEF InForce, Exists, Active, IsTombstoned
    <2> QED BY <1>k, <2>2, <2>3, <2>4
<1>5. ASSUME UNCHANGED engineAllVars PROVE IndexServes'
    <2>1. /\ UNCHANGED <<records, tombstones, lexical, job>> /\ call' = call /\ used' = used
          /\ oplog' = oplog /\ vector' = vector /\ vectorFailures' = vectorFailures
        BY <1>5
        DEF engineAllVars, engineVars, deletionVars, storeVars, surfaceVars, countVars
    <2>2. LogCounts /\ \A x \in Ids : LogMoves(x)
        BY <2>1 DEF LogCounts, LogMoves
    <2>3. \A x \in Ids : (InForce(x)' => InForce(x)) /\ (Exists(x) => Exists(x)')
        BY <2>1 DEF InForce, Exists, Active, IsTombstoned
    <2> QED BY <1>k, <2>1, <2>2, <2>3
<1>6. ASSUME NEW t \in Threads, EngineInterrupt(t) PROVE IndexServes'
    BY <1>6, <1>t DEF EngineInterrupt, CallsSucceed, EngineTyped, JobsInv, DeletionTypeOK
<1>7. ASSUME NEW t \in Threads, BeginCall(t) \/ WriterStep(t) \/ RecallStep(t)
      PROVE  IndexServes'
    BY <1>7, BeginServes, WriterServes, RecallServes
<1>8. EngineNext \/ UNCHANGED engineAllVars
    OBVIOUS
<1>9. IndexServes'
    BY <1>2, <1>3, <1>4, <1>5, <1>6, <1>7, <1>8 DEF EngineNext
<1>10. EngineTyped'
    BY <1>t, EngineTypedStep
<1> QED BY <1>9, <1>10 DEF IndexInv

LEMMA IndexInit == EngineInit => IndexInv
<1> SUFFICES ASSUME EngineInit PROVE IndexServes
    BY EngineTypedInit DEF IndexInv
<1> USE DeletionAssumption
<1> DEFINE n == Cardinality(QueuedUpserts)
           f == SetToSeq(QueuedUpserts)
<1>1. n \in Nat /\ f \in [1..n -> QueuedUpserts] /\ IsFiniteSet(QueuedUpserts)
    BY QueueOrder, FS_Subset
<1>2. oplog = [i \in 1..n |-> [NewOp("upsert_index", {f[i]}, 0)
                                EXCEPT !.attempts = 1, !.backoff = TRUE]]
    BY DEF EngineInit, DeletionInit
<1>3. \A x \in QueuedUpserts : \E i \in 1..n : f[i] = x
    BY <1>1, SequenceOfAll
<1>n. QueuedUpserts = {} => n = 0
    BY FS_EmptySet
<1> HIDE DEF n, f
<1>4. DOMAIN oplog = 1..n
    BY <1>2
<1>5. \A i \in 1..n : /\ oplog[i].op_type = "upsert_index" /\ oplog[i].ids = {f[i]}
                      /\ oplog[i].content = 0 /\ oplog[i].attempts = 1
    BY <1>2 DEF NewOp
<1>6. FailInv
    <2>1. vectorFailures = 0
        BY DEF EngineInit, DeletionInit
    <2>2. 1..n # {} => Headroom = 1
        BY <1>1, <1>n DEF Headroom
    <2> QED BY <1>4, <1>5, <2>1, <2>2 DEF FailInv
<1>7. Logical
    BY DEF EngineInit, DeletionInit, Logical, IdleJob, At, NoTombstone
<1>8. UsedExist
    BY DEF EngineInit, DeletionInit, UsedExist, Exists, Absent
<1>9. \A t \in Threads : CallServes(t)
    <2> TAKE t \in Threads
    <2>1. call[t].steps = <<>>
        BY DEF EngineInit, IdleCall
    <2>2. Left(t) = {} /\ InOrder(call[t].steps)
        BY <2>1, ListsInOrder DEF Left, Range
    <2> QED BY <2>2 DEF CallServes
<1>10. ASSUME NEW r \in Ids, InForce(r) PROVE Posted(r) /\ Embedded(r)
    <2>1. r \in Existing /\ records[r].content = 0
        BY <1>10 DEF EngineInit, DeletionInit, InForce, Exists
    <2>2. Exists(r)
        BY <1>10 DEF InForce
    <2>3. lexical[r] = 0 /\ (r \notin NeverIndexed => vector[r] = 0)
        BY <2>2 DEF EngineInit, DeletionInit
    <2>4. WillIndex(r)
        <3>1. CASE r \in QueuedUpserts
            <4> DEFINE D == {i \in 1..n : f[i] = r}
            <4>1. D \in SUBSET (1..n) /\ D # {}
                BY <1>3, <3>1
            <4>2. PICK m \in 1..n : f[m] = r /\ \A x \in D : x <= m
                <5>1. Max(D) \in D /\ \A x \in D : x <= Max(D)
                    BY <1>1, <4>1, MaxOfInterval
                <5> QED BY <5>1
            <4>3. \A j \in 1..n : j > m => r \notin oplog[j].ids
                BY <1>1, <1>5, <4>2
            <4> QED BY <1>4, <1>5, <2>1, <4>2, <4>3 DEF WillIndex
        <3>2. CASE r \notin QueuedUpserts
            BY <1>1, <1>4, <1>5, <2>1, <2>3, <3>2 DEF WillIndex
        <3> QED BY <3>1, <3>2
    <2> QED BY <2>1, <2>3, <2>4 DEF Posted, Embedded
<1> QED
    BY <1>6, <1>7, <1>8, <1>9, <1>10 DEF IndexServes

(* No drift: when no call is under way and the log is drained, both        *)
(* indexes hold the current content of every active record - for one       *)
(* thread, whatever deletions run beside it, as long as its calls end, no  *)
(* operation is given up and nothing that left the indexes comes back into *)
(* force.                                                                  *)
THEOREM ActiveIndexed ==
    ASSUME OneThread, NothingComesBack, CallsSucceed
    PROVE  EngineSpec => []ActiveMeansIndexed
<1>1. CASE Ids = {}
    <2>1. ActiveMeansIndexed
        BY <1>1 DEF ActiveMeansIndexed
    <2> QED BY <2>1, PTL
<1>2. CASE Ids # {}
    <2>1. EngineInit => IndexInv
        BY IndexInit
    <2>2. IndexInv /\ [EngineNext]_engineAllVars => IndexInv'
        BY <1>2, IndexStep
    <2>3. IndexInv => ActiveMeansIndexed
        <3> SUFFICES ASSUME IndexInv, Quiescent, NEW r \in Ids, InForce(r)
                     PROVE  lexical[r] = records[r].content /\ vector[r] = records[r].content
            BY DEF ActiveMeansIndexed
        <3>1. Posted(r) /\ Embedded(r)
            BY DEF IndexInv, IndexServes
        <3>2. \A t \in Threads : Left(t) = {}
            BY DEF Quiescent, Left, Range
        <3>3. DOMAIN oplog = {}
            BY DEF Quiescent
        <3>4. lexical[r] = records[r].content /\ WillIndex(r)
            BY <3>1, <3>2 DEF Posted, Embedded
        <3> QED BY <3>3, <3>4 DEF WillIndex
    <2> QED
        BY <2>1, <2>2, <2>3, PTL DEF EngineSpec
<1> QED BY <1>1, <1>2
=============================================================================
