-------------------------- MODULE GenerationsProofs --------------------------
(***************************************************************************)
(* Proofs about Generations for every set of records, generations, stores  *)
(* and threads, and every bound.                                           *)
(***************************************************************************)
EXTENDS Generations, CanonicalStoreProofs

-----------------------------------------------------------------------------
(* Helpers                                                                 *)

LEMMA StoresFinite == IsFiniteSet(Stores)
<1>1. IsFiniteSet({"memory", "zvec", "turbovec"})
    <2>1. IsFiniteSet((({} \cup {"memory"}) \cup {"zvec"}) \cup {"turbovec"})
        BY FS_EmptySet, FS_AddElement, Zenon
    <2>2. (({} \cup {"memory"}) \cup {"zvec"}) \cup {"turbovec"} = {"memory", "zvec", "turbovec"}
        OBVIOUS
    <2> QED BY <2>1, <2>2
<1> QED
    BY <1>1, VectorAssumption, FS_Subset

LEMMA StoreOrder ==
    /\ StoreNames \in Seq(Stores) /\ StoreNames # <<>>
    /\ \A s \in Stores : \E i \in DOMAIN StoreNames : StoreNames[i] = s
BY StoresFinite, SetAsSequence, SequenceOfAll, GenerationsAssumption DEF StoreNames

(* What a call becomes, and that it leaves the others alone.               *)
Others(t) == \A u \in Threads \ {t} : call'[u] = call[u]

LEMMA BecomeCall ==
    ASSUME call \in [Threads -> CallRecord], NEW t \in Threads, NEW c \in CallRecord,
           Become(t, c)
    PROVE  call' \in [Threads -> CallRecord] /\ call'[t] = c /\ Others(t)
BY DEF Become, Others

LEMMA IdleTyped == IdleCall \in CallRecord
<1>1. <<>> \in Seq(Stores) /\ <<>> \in Seq(Ids \X (0..MaxContent)) /\ 0 \in 0..MaxContent
    BY GenerationsAssumption
<1> QED
    BY <1>1, GenerationsAssumption DEF IdleCall, CallRecord, CallPcs

LEMMA GotoCall ==
    ASSUME call \in [Threads -> CallRecord], NEW t \in Threads, NEW pc \in CallPcs,
           Goto(t, pc)
    PROVE  /\ call' \in [Threads -> CallRecord]
           /\ call'[t] = [call[t] EXCEPT !.pc = pc] /\ Others(t)
<1>1. [call[t] EXCEPT !.pc = pc] \in CallRecord
    BY DEF CallRecord
<1> QED
    BY <1>1, BecomeCall DEF Goto

-----------------------------------------------------------------------------
(* The stores                                                              *)

(* The state of a store is one of its states whatever is done to it.       *)
LEMMA LoadedOK ==
    ASSUME NEW fs \in [Generations -> [Ids -> Contents]]
    PROVE  StoreStateOK("turbovec", Loaded(fs))
BY DEF StoreStateOK, Loaded, TurbovecState

LEMMA NothingStored == NoVectors \in [Generations -> [Ids -> Contents]]
BY DEF NoVectors, Contents

LEMMA EmptyStoreOK ==
    ASSUME NEW s \in Stores
    PROVE  StoreStateOK(s, EmptyStore(s))
<1>1. CASE s = "memory"
    BY <1>1, NothingStored DEF StoreStateOK, EmptyStore, MemoryState
<1>2. CASE s = "zvec"
    BY <1>2 DEF StoreStateOK, EmptyStore, ZvecState
<1>3. CASE s = "turbovec"
    BY <1>3, NothingStored, LoadedOK DEF EmptyStore
<1> QED
    BY <1>1, <1>2, <1>3, VectorAssumption

LEMMA ReopenedOK ==
    ASSUME NEW s \in Stores, NEW x, StoreStateOK(s, x),
           NEW fs \in [Generations -> [Ids -> Contents]]
    PROVE  StoreStateOK(s, Reopened(s, x, fs))
<1>1. CASE s = "memory"
    BY <1>1, EmptyStoreOK DEF Reopened
<1>2. CASE s = "zvec"
    BY <1>2 DEF Reopened
<1>3. CASE s = "turbovec"
    BY <1>3, LoadedOK DEF Reopened
<1> QED
    BY <1>1, <1>2, <1>3, VectorAssumption

LEMMA UpsertedOK ==
    ASSUME NEW s \in Stores, NEW x, StoreStateOK(s, x), NEW g \in Generations,
           NEW r \in Ids, NEW c \in 0..MaxContent
    PROVE  StoreStateOK(s, Upserted(s, x, g, r, c))
<1>c. c \in Contents /\ c # NoEntry
    BY GenerationsAssumption DEF Contents, NoEntry
<1>1. CASE s = "memory"
    BY <1>1, <1>c DEF StoreStateOK, Upserted, MemoryState
<1>2. CASE s = "zvec"
    BY <1>2 DEF StoreStateOK, Upserted, ZvecState
<1>3. CASE s = "turbovec"
    BY <1>3, <1>c DEF StoreStateOK, Upserted, TurbovecState
<1> QED
    BY <1>1, <1>2, <1>3, VectorAssumption

LEMMA RemovedFromOK ==
    ASSUME NEW s \in Stores, NEW x, StoreStateOK(s, x), NEW r \in Ids
    PROVE  StoreStateOK(s, RemovedFrom(s, x, r))
<1>c. NoEntry \in Contents
    BY DEF Contents
<1>1. CASE s = "memory"
    BY <1>1 DEF StoreStateOK, RemovedFrom, MemoryState
<1>2. CASE s = "zvec"
    BY <1>2 DEF StoreStateOK, RemovedFrom, ZvecState
<1>3. CASE s = "turbovec"
    <2>1. \A g \in Generations :
            /\ Dropped(x[g], r) \in [index : [Ids -> Contents], live : SUBSET Ids]
            /\ \A q \in Dropped(x[g], r).live : Dropped(x[g], r).index[q] # NoEntry
        BY <1>3, <1>c DEF StoreStateOK, TurbovecState, Dropped
    <2> QED
        BY <1>3, <2>1 DEF StoreStateOK, RemovedFrom, InNoGeneration, TurbovecState
<1> QED
    BY <1>1, <1>2, <1>3, VectorAssumption

LEMMA CompactedOK ==
    ASSUME NEW x, StoreStateOK("memory", x)
    PROVE  StoreStateOK("memory", Compacted(x))
BY DEF StoreStateOK, Compacted, MemoryState, Contents

LEMMA WithoutGenerationOK ==
    ASSUME NEW x, StoreStateOK("turbovec", x), NEW g \in Generations
    PROVE  StoreStateOK("turbovec", WithoutGeneration(x, g))
BY NothingStored DEF StoreStateOK, WithoutGeneration, Loaded, TurbovecState

LEMMA IndexedOK ==
    ASSUME NEW s \in Stores
    PROVE  StoreStateOK(s, Indexed(s))
<1> DEFINE vectors == [r \in Ids |-> IF r \in Existing THEN 0 ELSE NoEntry]
<1>v. vectors \in [Ids -> Contents] /\ 0 \in 0..MaxContent
    BY GenerationsAssumption DEF Contents
<1>e. \A r \in Existing : vectors[r] # NoEntry
    BY GenerationsAssumption DEF NoEntry
<1>a. FirstGeneration \in Generations /\ Existing \in SUBSET Ids
    BY GenerationsAssumption
<1>1. CASE s = "memory"
    <2>1. Indexed(s) = [vectors |-> [NoVectors EXCEPT ![FirstGeneration] = vectors],
                        deleted |-> {}]
        BY <1>1 DEF Indexed
    <2> HIDE DEF vectors
    <2>2. [NoVectors EXCEPT ![FirstGeneration] = vectors] \in [Generations -> [Ids -> Contents]]
        BY <1>v, <1>a, NothingStored
    <2>3. Indexed(s) \in MemoryState
        BY <2>1, <2>2 DEF MemoryState
    <2> QED
        BY <1>1, <2>3 DEF StoreStateOK
<1>2. CASE s = "zvec"
    BY <1>2, <1>v, <1>a DEF StoreStateOK, Indexed, ZvecState
<1>3. CASE s = "turbovec"
    <2>1. Indexed(s) = [Loaded(NoVectors) EXCEPT ![FirstGeneration] =
                            [index |-> vectors, live |-> Existing]]
        BY <1>3 DEF Indexed
    <2>2. Loaded(NoVectors) \in TurbovecState /\ \A g \in Generations : Loaded(NoVectors)[g].live = {}
        BY NothingStored DEF Loaded, TurbovecState
    <2> HIDE DEF vectors
    <2> DEFINE L == Loaded(NoVectors)
               y == [index |-> vectors, live |-> Existing]
    <2>3. y \in [index : [Ids -> Contents], live : SUBSET Ids]
          /\ \A r \in y.live : y.index[r] # NoEntry
        BY <1>v, <1>e, <1>a
    <2> HIDE DEF L, y
    <2>4. Indexed(s) = [L EXCEPT ![FirstGeneration] = y]
        BY <2>1 DEF L, y
    <2>5. /\ Indexed(s) \in TurbovecState
          /\ \A g \in Generations : \A r \in Indexed(s)[g].live : Indexed(s)[g].index[r] # NoEntry
        BY <2>2, <2>3, <2>4, <1>a DEF TurbovecState, L
    <2> QED
        BY <1>3, <2>5 DEF StoreStateOK
<1> QED
    BY <1>1, <1>2, <1>3, VectorAssumption

-----------------------------------------------------------------------------
(* Types                                                                   *)

(* A call that enqueues knows for which record, and for a store; one that  *)
(* will enqueue an upsert found no tombstone when it looked.               *)
CallsKnowTheirRecord ==
    \A t \in Threads :
        /\ call[t].pc \in {"store", "enqueue", "tombstone", "purge", "answer", "verify"} =>
                call[t].id \in Ids
        /\ call[t].pc \in {"store", "enqueue", "tombstone", "purge", "answer"} =>
                call[t].left # <<>>
        /\ call[t].pc \in {"store", "enqueue"} => call[t].clear

CallInv == GenerationsTypeOK /\ CallsKnowTheirRecord

(* The rows a migration reads, and what it takes for the next one.         *)
LEMMA RowsRead ==
    ASSUME StoreTypeOK
    PROVE  SetToSeq({<<r, records[r].content>> : r \in {x \in Ids : Exists(x)}})
                \in Seq(Ids \X (0..MaxContent))
<1> DEFINE R == {<<r, records[r].content>> : r \in {x \in Ids : Exists(x)}}
<1>1. IsFiniteSet(Ids \X (0..MaxContent))
    <2>1. MaxContent \in Int /\ 0 \in Int /\ IsFiniteSet(Ids)
        BY GenerationsAssumption
    <2>2. IsFiniteSet(0..MaxContent)
        BY <2>1, FS_Interval
    <2> QED
        BY <2>1, <2>2, FS_Product, Zenon
<1>2. R \subseteq Ids \X (0..MaxContent)
    BY DEF StoreTypeOK, Exists, Record
<1> HIDE DEF R
<1>3. IsFiniteSet(R)
    BY <1>1, <1>2, FS_Subset
<1>4. SetToSeq(R) \in Seq(R)
    BY <1>3, SetAsSequence
<1> QED
    BY <1>2, <1>4, SeqOfSubset DEF R

LEMMA CallTypeInit == GenerationsInit => CallInv
<1> SUFFICES ASSUME GenerationsInit PROVE CallInv
    OBVIOUS
<1> USE GenerationsAssumption
<1>1. StoreTypeOK
    BY DEF GenerationsInit, StoreTypeOK, Record, Statuses
<1>2. stores = [s \in Stores |-> stores[s]] /\ \A s \in Stores : StoreStateOK(s, stores[s])
    BY IndexedOK DEF GenerationsInit
<1>3. files \in [Generations -> [Ids -> Contents]]
    BY NothingStored DEF GenerationsInit
<1>4. call \in [Threads -> CallRecord] /\ \A t \in Threads : call[t].pc = "idle"
    BY IdleTyped DEF GenerationsInit, IdleCall
<1>5. /\ oplog \in Seq(LogOp) /\ active \in Generations
      /\ table \in [Generations -> {"absent", "shadow", "active", "retired"}]
      /\ calls \in 0..MaxCalls /\ restarts \in 0..MaxRestarts
      /\ readded \subseteq Ids /\ missed \in [Stores -> [Generations -> SUBSET Ids]]
    BY DEF GenerationsInit
<1> QED
    BY <1>1, <1>2, <1>3, <1>4, <1>5 DEF CallInv, GenerationsTypeOK, CallsKnowTheirRecord

-----------------------------------------------------------------------------
(* What a step may do                                                      *)

(* To a call: nothing, or it goes on to where it names no record, or it is *)
(* about to write one it found clear, or it is a deletion going its way,   *)
(* which marks its record before it purges it and verifies with an empty   *)
(* log.                                                                    *)
CallMove(u) ==
    \/ call'[u] = call[u]
    \/ call'[u].pc \in {"idle", "drain", "read", "reindex", "switch"}
    \/ /\ call'[u].pc \in {"store", "enqueue"}
       /\ call'[u].id \in Ids /\ call'[u].left # <<>> /\ call'[u].clear
    \/ call'[u].pc = "tombstone" /\ call'[u].id \in Ids /\ call'[u].left # <<>>
    \/ /\ call[u].pc = "tombstone" /\ call'[u].pc = "purge"
       /\ call'[u].id = call[u].id /\ call'[u].left # <<>>
       /\ tombstones'[call[u].id] # NoTombstone
    \/ /\ call[u].pc \in {"purge", "answer"} /\ call'[u].pc \in {"purge", "answer"}
       /\ call'[u].id = call[u].id /\ call'[u].left # <<>>
    \/ /\ call[u].pc = "answer" /\ call'[u].pc = "verify"
       /\ call'[u].id = call[u].id /\ oplog = <<>>

NoUpsert(r) ==
    \A i \in DOMAIN oplog : oplog[i].type = "upsert" => oplog[i].id # r

(* To a record that is tombstoned: its tombstone stays; an upsert of it is *)
(* enqueued or a store contains it again only as readded tells; it becomes *)
(* verified only when no store contains it and a call verifies it.         *)
RecordMove(r) ==
    /\ r \in readded => r \in readded'
    /\ IsTombstoned(r) => tombstones'[r] # NoTombstone
    /\ IsTombstoned(r) /\ NoUpsert(r) => NoUpsert(r)' \/ r \in readded'
    /\ IsTombstoned(r) /\ NoUpsert(r) /\ Gone(r) => Gone(r)' \/ r \in readded'
    /\ tombstones'[r].state = "verified" =>
        \/ tombstones[r].state = "verified"
        \/ Gone(r) /\ \E t \in Threads : At(t, "verify") /\ call[t].id = r

LEMMA OneCallMoves ==
    ASSUME NEW t \in Threads, Others(t), CallMove(t)
    PROVE  \A u \in Threads : CallMove(u)
BY DEF Others, CallMove

LEMMA KnownRecords ==
    ASSUME CallInv, \A u \in Threads : CallMove(u)
    PROVE  CallsKnowTheirRecord'
BY DEF CallInv, CallsKnowTheirRecord, CallMove

LEMMA QuietRecords ==
    ASSUME tombstones' = tombstones, stores' = stores, oplog' = oplog, readded \subseteq readded'
    PROVE  \A r \in Ids : RecordMove(r)
BY DEF RecordMove, NoUpsert, Gone, IsTombstoned

(* An operation for another record, or a removal, puts no record back.     *)
LEMMA StaysOutOfStore ==
    ASSUME NEW s \in Stores, NEW x, StoreStateOK(s, x), NEW r \in Ids, ~ContainsId(s, x, r),
           NEW q \in Ids
    PROVE  /\ ~ContainsId(s, RemovedFrom(s, x, q), r)
           /\ \A g \in Generations, c \in 0..MaxContent :
                q # r => ~ContainsId(s, Upserted(s, x, g, q, c), r)
<1>1. CASE s = "memory"
    <2>1. ~ContainsId(s, RemovedFrom(s, x, q), r)
        BY <1>1 DEF StoreStateOK, MemoryState, ContainsId, RemovedFrom
    <2>2. ASSUME NEW g \in Generations, NEW c \in 0..MaxContent, q # r
          PROVE  ~ContainsId(s, Upserted(s, x, g, q, c), r)
        <3> DEFINE y == Upserted(s, x, g, q, c)
        <3>1. /\ y.deleted = x.deleted \ {q}
              /\ \A h \in Generations : y.vectors[h][r] = x.vectors[h][r]
            BY <1>1, <2>2 DEF StoreStateOK, MemoryState, Upserted
        <3> HIDE DEF y
        <3> QED
            BY <1>1, <2>2, <3>1 DEF ContainsId, y
    <2> QED BY <2>1, <2>2
<1>2. CASE s = "zvec"
    BY <1>2 DEF StoreStateOK, ZvecState, ContainsId, RemovedFrom, Upserted
<1>3. CASE s = "turbovec"
    <2>1. \A g \in Generations : ~Holds(Dropped(x[g], q), r)
        BY <1>3 DEF StoreStateOK, TurbovecState, ContainsId, Holds, Dropped
    <2>2. ~ContainsId(s, RemovedFrom(s, x, q), r)
        BY <1>3, <2>1 DEF ContainsId, RemovedFrom, InNoGeneration
    <2>3. \A g \in Generations, c \in 0..MaxContent :
                q # r => ~ContainsId(s, Upserted(s, x, g, q, c), r)
        BY <1>3 DEF StoreStateOK, TurbovecState, ContainsId, Holds, Upserted
    <2> QED BY <2>2, <2>3
<1> QED
    BY <1>1, <1>2, <1>3, VectorAssumption

LEMMA MaintainedStaysOut ==
    ASSUME NEW r \in Ids
    PROVE  /\ \A x : StoreStateOK("memory", x) /\ ~ContainsId("memory", x, r) =>
                    ~ContainsId("memory", Compacted(x), r)
           /\ \A x : \A g \in Generations :
                StoreStateOK("turbovec", x) /\ ~ContainsId("turbovec", x, r) =>
                    ~ContainsId("turbovec", WithoutGeneration(x, g), r)
<1>1. \A x : StoreStateOK("memory", x) /\ ~ContainsId("memory", x, r) =>
                    ~ContainsId("memory", Compacted(x), r)
    BY DEF StoreStateOK, MemoryState, ContainsId, Compacted
<1>2. \A x : \A g \in Generations :
        StoreStateOK("turbovec", x) /\ ~ContainsId("turbovec", x, r) =>
                    ~ContainsId("turbovec", WithoutGeneration(x, g), r)
    BY DEF StoreStateOK, TurbovecState, ContainsId, WithoutGeneration, Holds, Loaded, NoVectors
<1> QED BY <1>1, <1>2

-----------------------------------------------------------------------------
(* Every step is of these kinds                                            *)

StepFacts ==
    GenerationsTypeOK' /\ (\A u \in Threads : CallMove(u)) /\ (\A r \in Ids : RecordMove(r))

LEMMA BeginCall ==
    ASSUME CallInv, NEW t \in Threads, NEW f, NEW c \in CallRecord, Begin(t, f, c)
    PROVE  /\ call' \in [Threads -> CallRecord] /\ call'[t] = c /\ Others(t)
           /\ calls' \in 0..MaxCalls /\ restarts' = restarts
<1>1. calls' \in 0..MaxCalls /\ restarts' = restarts
    BY GenerationsAssumption DEF CallInv, GenerationsTypeOK, Begin
<1> QED
    BY <1>1, BecomeCall DEF CallInv, GenerationsTypeOK, Begin

LEMMA SameRows ==
    ASSUME StoreTypeOK, UNCHANGED storeVars
    PROVE  StoreTypeOK' /\ tombstones' = tombstones
BY DEF storeVars, StoreTypeOK

LEMMA StoreWritten ==
    ASSUME GenerationsTypeOK, NEW s \in Stores, NEW x, StoreStateOK(s, x),
           stores' = [stores EXCEPT ![s] = x]
    PROVE  /\ stores' = [q \in Stores |-> stores'[q]]
           /\ \A q \in Stores : StoreStateOK(q, stores'[q])
           /\ stores'[s] = x /\ \A q \in Stores \ {s} : stores'[q] = stores[q]
<1> DEFINE P(q, y) == StoreStateOK(q, y)
<1>1. stores = [q \in Stores |-> stores[q]] /\ \A q \in Stores : P(q, stores[q])
    BY DEF GenerationsTypeOK
<1>2. P(s, x)
    OBVIOUS
<1> HIDE DEF P
<1>3. stores' = [q \in Stores |-> IF q = s THEN x ELSE stores[q]]
    BY <1>1
<1>4. /\ stores' = [q \in Stores |-> stores'[q]]
      /\ stores'[s] = x /\ \A q \in Stores \ {s} : stores'[q] = stores[q]
    BY <1>3
<1>5. \A q \in Stores : P(q, stores'[q])
    BY <1>1, <1>2, <1>4
<1> QED
    BY <1>4, <1>5 DEF P

(* A step that changes a call and nothing else.                            *)
LEMMA OnlyCallFacts ==
    ASSUME CallInv, NEW t \in Threads, call' \in [Threads -> CallRecord], Others(t),
           CallMove(t), calls' \in 0..MaxCalls, restarts' = restarts, OnlyCall
    PROVE  StepFacts
<1>1. \A u \in Threads : CallMove(u)
    BY OneCallMoves
<1>2. \A r \in Ids : RecordMove(r)
    BY QuietRecords DEF OnlyCall, storeVars, vectorVars, historyVars
<1>3. GenerationsTypeOK'
    BY SameRows DEF CallInv, GenerationsTypeOK, OnlyCall, vectorVars, historyVars
<1> QED
    BY <1>1, <1>2, <1>3 DEF StepFacts

LEMMA BeginWriteFacts ==
    ASSUME CallInv, NEW t \in Threads, BeginWrite(t) PROVE StepFacts
<1> PICK r \in Ids, c \in 0..MaxContent :
        Begin(t, "write", [IdleCall EXCEPT !.pc = "store", !.then = "drain", !.id = r,
                                           !.content = c, !.generation = active,
                                           !.left = StoreNames])
    BY DEF BeginWrite
<1> DEFINE d == [IdleCall EXCEPT !.pc = "store", !.then = "drain", !.id = r,
                                 !.content = c, !.generation = active,
                                 !.left = StoreNames]
<1>1. d \in CallRecord /\ d.pc = "store" /\ d.id = r /\ d.left # <<>>
    BY IdleTyped, StoreOrder DEF CallRecord, CallPcs, CallInv, GenerationsTypeOK
<1>2. d.clear
    BY DEF IdleCall
<1> HIDE DEF d
<1>3. /\ call' \in [Threads -> CallRecord] /\ call'[t] = d /\ Others(t)
      /\ calls' \in 0..MaxCalls /\ restarts' = restarts
    BY <1>1, BeginCall DEF d
<1>4. CallMove(t)
    BY <1>1, <1>2, <1>3 DEF CallMove
<1> QED
    BY <1>3, <1>4, OnlyCallFacts DEF BeginWrite

LEMMA StoreRowFacts ==
    ASSUME CallInv, NEW t \in Threads, StoreRow(t) PROVE StepFacts
<1>1. call[t].id \in Ids /\ call[t].left # <<>> /\ call[t].clear /\ call[t].content \in 0..MaxContent
    BY DEF CallInv, CallsKnowTheirRecord, GenerationsTypeOK, CallRecord, StoreRow, At
<1>2. /\ call' \in [Threads -> CallRecord] /\ Others(t)
      /\ call'[t] = [call[t] EXCEPT !.pc = "enqueue"]
    BY GotoCall DEF StoreRow, CallInv, GenerationsTypeOK, CallPcs
<1>3. CallMove(t)
    <2>1. /\ call'[t].pc = "enqueue" /\ call'[t].id = call[t].id /\ call'[t].left = call[t].left
          /\ call'[t].clear = call[t].clear
        BY <1>2 DEF CallInv, GenerationsTypeOK, CallRecord
    <2> QED BY <1>1, <2>1 DEF CallMove
<1>4. StoreTypeOK' /\ tombstones' = tombstones
    BY <1>1, WriteTyped DEF StoreRow, Statuses, CallInv, GenerationsTypeOK
<1>5. GenerationsTypeOK'
    BY <1>2, <1>4 DEF CallInv, GenerationsTypeOK, StoreRow, vectorVars, countVars, historyVars
<1>6. \A r \in Ids : RecordMove(r)
    BY <1>4, QuietRecords DEF StoreRow, vectorVars, historyVars
<1> QED
    BY <1>2, <1>3, <1>5, <1>6, OneCallMoves DEF StepFacts

(* The stores a call is still to be enqueued for.                          *)
LEMMA NextStore ==
    ASSUME CallInv, NEW t \in Threads, call[t].left # <<>>
    PROVE  Head(call[t].left) \in Stores /\ Tail(call[t].left) \in Seq(Stores)
<1>1. call[t].left \in Seq(Stores)
    BY DEF CallInv, GenerationsTypeOK, CallRecord
<1> QED BY <1>1, HeadTailProperties

LEMMA Enqueued ==
    ASSUME CallInv, NEW o \in LogOp, oplog' = Append(oplog, o)
    PROVE  /\ oplog' \in Seq(LogOp)
           /\ \A r \in Ids : NoUpsert(r) /\ ~(o.type = "upsert" /\ o.id = r) => NoUpsert(r)'
<1>1. oplog \in Seq(LogOp)
    BY DEF CallInv, GenerationsTypeOK
<1>2. /\ oplog' \in Seq(LogOp) /\ Len(oplog') = Len(oplog) + 1 /\ Len(oplog) \in Nat
      /\ oplog'[Len(oplog) + 1] = o /\ \A i \in 1..Len(oplog) : oplog'[i] = oplog[i]
      /\ DOMAIN oplog = 1..Len(oplog) /\ DOMAIN oplog' = 1..Len(oplog')
    BY <1>1, AppendProperties, LenProperties
<1> QED
    BY <1>2 DEF NoUpsert

LEMMA MissedTyped ==
    ASSUME CallInv, NEW c, NEW s, c.id \in Ids
    PROVE  Missed(c, s) \in [Stores -> [Generations -> SUBSET Ids]]
<1>1. missed \in [Stores -> [Generations -> SUBSET Ids]]
    BY DEF CallInv, GenerationsTypeOK
<1>2. ASSUME s \in Stores
      PROVE  \A g \in Generations : MissedNow(c, s, g) \in SUBSET Ids
    BY <1>1, <1>2 DEF MissedNow
<1> DEFINE now == [g \in Generations |-> MissedNow(c, s, g)]
<1>3. s \in Stores => now \in [Generations -> SUBSET Ids]
    BY <1>2
<1> HIDE DEF now
<1>4. [missed EXCEPT ![s] = now] \in [Stores -> [Generations -> SUBSET Ids]]
    BY <1>1, <1>3
<1> QED
    BY <1>4 DEF Missed, now

LEMMA EnqueueUpsertFacts ==
    ASSUME CallInv, NEW t \in Threads, EnqueueUpsert(t) PROVE StepFacts
<1> DEFINE o == Op("upsert", Head(call[t].left), call[t].generation, call[t].id, call[t].content)
           d == [call[t] EXCEPT !.left = Tail(@),
                                !.pc = IF Tail(call[t].left) = <<>> THEN call[t].then ELSE @]
<1>1. /\ call[t] \in CallRecord /\ call[t].pc = "enqueue"
      /\ call[t].id \in Ids /\ call[t].left # <<>> /\ call[t].clear
    BY DEF CallInv, CallsKnowTheirRecord, GenerationsTypeOK, EnqueueUpsert, At
<1>2. Head(call[t].left) \in Stores /\ Tail(call[t].left) \in Seq(Stores)
    BY <1>1, NextStore
<1>3. o \in LogOp /\ o.id = call[t].id
    BY <1>1, <1>2 DEF Op, LogOp, CallRecord
<1>4. /\ d \in CallRecord /\ d.id = call[t].id /\ d.left = Tail(call[t].left)
      /\ d.clear = call[t].clear
      /\ d.pc = IF Tail(call[t].left) = <<>> THEN call[t].then ELSE "enqueue"
    BY <1>1, <1>2 DEF CallRecord, CallPcs
<1>5. oplog' = Append(oplog, o) /\ Become(t, d)
    BY DEF EnqueueUpsert
<1> HIDE DEF o, d
<1>6. call' \in [Threads -> CallRecord] /\ call'[t] = d /\ Others(t)
    BY <1>4, <1>5, BecomeCall DEF CallInv, GenerationsTypeOK
<1>7. CallMove(t)
    <2>1. CASE Tail(call[t].left) = <<>>
        BY <1>1, <1>4, <1>6, <2>1 DEF CallMove, CallRecord
    <2>2. CASE Tail(call[t].left) # <<>>
        BY <1>1, <1>4, <1>6, <2>2 DEF CallMove
    <2> QED BY <2>1, <2>2
<1>8. /\ oplog' \in Seq(LogOp)
      /\ \A r \in Ids : NoUpsert(r) /\ r # call[t].id => NoUpsert(r)'
    BY <1>3, <1>5, Enqueued
<1>9. /\ readded \subseteq readded' /\ readded' \subseteq Ids
      /\ IsTombstoned(call[t].id) => call[t].id \in readded'
      /\ missed' \in [Stores -> [Generations -> SUBSET Ids]]
    BY <1>1, MissedTyped DEF EnqueueUpsert, CallInv, GenerationsTypeOK
<1>10. GenerationsTypeOK'
    BY <1>6, <1>8, <1>9, SameRows DEF CallInv, GenerationsTypeOK, EnqueueUpsert, countVars
<1>11. \A r \in Ids : RecordMove(r)
    <2> SUFFICES ASSUME NEW r \in Ids PROVE RecordMove(r)
        OBVIOUS
    <2>1. tombstones' = tombstones /\ stores' = stores
        BY DEF EnqueueUpsert, storeVars
    <2>2. Gone(r) => Gone(r)'
        BY <2>1 DEF Gone
    <2> QED
        BY <2>1, <2>2, <1>8, <1>9 DEF RecordMove, IsTombstoned
<1> QED
    BY <1>6, <1>7, <1>10, <1>11, OneCallMoves DEF StepFacts

LEMMA ApplyNextFacts ==
    ASSUME CallInv, ApplyNext PROVE StepFacts
<1> DEFINE o == Head(oplog)
<1>1. /\ o \in LogOp /\ o = oplog[1] /\ 1 \in DOMAIN oplog
      /\ oplog' \in Seq(LogOp)
      /\ \A i \in DOMAIN oplog' : i + 1 \in DOMAIN oplog /\ oplog'[i] = oplog[i + 1]
    BY HeadTailProperties, LenProperties DEF CallInv, GenerationsTypeOK, ApplyNext
<1> HIDE DEF o
<1>2. /\ o.store \in Stores /\ o.generation \in Generations /\ o.id \in Ids
      /\ o.content \in 0..MaxContent
    BY <1>1 DEF LogOp
<1>3. StoreStateOK(o.store, stores[o.store])
    BY <1>2 DEF CallInv, GenerationsTypeOK
<1>4. StoreStateOK(o.store, Applied(o))
    BY <1>2, <1>3, UpsertedOK, RemovedFromOK DEF Applied
<1>5. stores' = [stores EXCEPT ![o.store] = Applied(o)]
    BY DEF ApplyNext, o
<1>6. /\ stores' = [q \in Stores |-> stores'[q]]
      /\ \A q \in Stores : StoreStateOK(q, stores'[q])
      /\ stores'[o.store] = Applied(o) /\ \A q \in Stores \ {o.store} : stores'[q] = stores[q]
    BY <1>2, <1>4, <1>5, StoreWritten DEF CallInv
<1>7. GenerationsTypeOK'
    BY <1>1, <1>6, SameRows DEF CallInv, GenerationsTypeOK, ApplyNext, countVars, historyVars
<1>8. \A u \in Threads : CallMove(u)
    BY DEF ApplyNext, CallMove
<1>9. \A r \in Ids : RecordMove(r)
    <2> SUFFICES ASSUME NEW r \in Ids PROVE RecordMove(r)
        OBVIOUS
    <2>1. tombstones' = tombstones /\ readded' = readded
        BY DEF ApplyNext, storeVars, historyVars
    <2>2. NoUpsert(r) => NoUpsert(r)'
        BY <1>1 DEF NoUpsert
    <2>3. ASSUME NoUpsert(r), Gone(r) PROVE Gone(r)'
        <3>1. ~ContainsId(o.store, stores[o.store], r)
            BY <1>2, <2>3 DEF Gone
        <3>2. o.type = "upsert" => o.id # r
            BY <1>1, <2>3 DEF NoUpsert
        <3>3. ~ContainsId(o.store, Applied(o), r)
            BY <1>2, <1>3, <3>1, <3>2, StaysOutOfStore DEF Applied
        <3> QED
            BY <1>6, <2>3, <3>3 DEF Gone
    <2> QED
        BY <2>1, <2>2, <2>3 DEF RecordMove, IsTombstoned
<1> QED
    BY <1>7, <1>8, <1>9 DEF StepFacts

LEMMA DrainReturnsFacts ==
    ASSUME CallInv, NEW t \in Threads, DrainReturns(t) PROVE StepFacts
<1>1. call' \in [Threads -> CallRecord] /\ Others(t) /\ call'[t].pc = "idle"
    BY BecomeCall, IdleTyped DEF DrainReturns, CallInv, GenerationsTypeOK, IdleCall
<1>2. CallMove(t)
    BY <1>1 DEF CallMove
<1>3. calls' \in 0..MaxCalls /\ restarts' = restarts
    BY DEF DrainReturns, countVars, CallInv, GenerationsTypeOK
<1> QED
    BY <1>1, <1>2, <1>3, OnlyCallFacts DEF DrainReturns

LEMMA BeginDeleteFacts ==
    ASSUME CallInv, NEW t \in Threads, BeginDelete(t) PROVE StepFacts
<1> PICK r \in Ids :
        Begin(t, "delete", [IdleCall EXCEPT !.pc = "tombstone", !.id = r, !.left = StoreNames])
    BY DEF BeginDelete
<1> DEFINE d == [IdleCall EXCEPT !.pc = "tombstone", !.id = r, !.left = StoreNames]
<1>1. d \in CallRecord /\ d.pc = "tombstone" /\ d.id = r /\ d.left # <<>>
    BY IdleTyped, StoreOrder DEF CallRecord, CallPcs
<1> HIDE DEF d
<1>2. /\ call' \in [Threads -> CallRecord] /\ call'[t] = d /\ Others(t)
      /\ calls' \in 0..MaxCalls /\ restarts' = restarts
    BY <1>1, BeginCall DEF d
<1>3. CallMove(t)
    BY <1>1, <1>2 DEF CallMove
<1> QED
    BY <1>2, <1>3, OnlyCallFacts DEF BeginDelete

LEMMA TombstoneRecordFacts ==
    ASSUME CallInv, NEW t \in Threads, TombstoneRecord(t) PROVE StepFacts
<1>1. /\ call[t].pc = "tombstone" /\ call[t].id \in Ids /\ call[t].left # <<>> /\ t \in Jobs
    BY GenerationsAssumption DEF CallInv, CallsKnowTheirRecord, TombstoneRecord, At
<1>2. /\ call' \in [Threads -> CallRecord] /\ Others(t)
      /\ call'[t] = [call[t] EXCEPT !.pc = "purge"]
    BY GotoCall DEF TombstoneRecord, CallInv, GenerationsTypeOK, CallPcs
<1>3. /\ StoreTypeOK' /\ tombstones'[call[t].id].state = "canonical_tombstoned"
      /\ tombstones'[call[t].id] # NoTombstone
      /\ \A s \in Ids \ {call[t].id} : tombstones'[s] = tombstones[s]
    BY <1>1, TombstoneTyped DEF TombstoneRecord, CallInv, GenerationsTypeOK, Modes, IsTombstoned
<1>4. CallMove(t)
    <2>1. call'[t].pc = "purge" /\ call'[t].id = call[t].id /\ call'[t].left = call[t].left
        BY <1>2 DEF CallInv, GenerationsTypeOK, CallRecord
    <2> QED BY <1>1, <1>3, <2>1 DEF CallMove
<1>5. GenerationsTypeOK'
    BY <1>2, <1>3 DEF CallInv, GenerationsTypeOK, TombstoneRecord, vectorVars, countVars,
                      historyVars
<1>6. \A r \in Ids : RecordMove(r)
    <2> SUFFICES ASSUME NEW r \in Ids PROVE RecordMove(r)
        OBVIOUS
    <2>1. stores' = stores /\ oplog' = oplog /\ readded' = readded
        BY DEF TombstoneRecord, vectorVars, historyVars
    <2>2. (NoUpsert(r) => NoUpsert(r)') /\ (Gone(r) => Gone(r)')
        BY <2>1 DEF NoUpsert, Gone
    <2>3. /\ IsTombstoned(r) => tombstones'[r] # NoTombstone
          /\ tombstones'[r].state = "verified" => tombstones[r].state = "verified"
        BY <1>1, <1>3 DEF IsTombstoned
    <2> QED
        BY <2>1, <2>2, <2>3 DEF RecordMove
<1> QED
    BY <1>2, <1>4, <1>5, <1>6, OneCallMoves DEF StepFacts

LEMMA EnqueueRemovalFacts ==
    ASSUME CallInv, NEW t \in Threads, EnqueueRemoval(t) PROVE StepFacts
<1> DEFINE o == Op("remove", Head(call[t].left), FirstGeneration, call[t].id, 0)
<1>1. call[t].pc = "purge" /\ call[t].id \in Ids /\ call[t].left # <<>>
    BY DEF CallInv, CallsKnowTheirRecord, EnqueueRemoval, At
<1>2. o \in LogOp /\ o.type = "remove"
    BY <1>1, NextStore, GenerationsAssumption DEF Op, LogOp
<1>3. oplog' = Append(oplog, o)
    BY DEF EnqueueRemoval
<1> HIDE DEF o
<1>4. oplog' \in Seq(LogOp) /\ \A r \in Ids : NoUpsert(r) => NoUpsert(r)'
    BY <1>2, <1>3, Enqueued
<1>5. /\ call' \in [Threads -> CallRecord] /\ Others(t)
      /\ call'[t] = [call[t] EXCEPT !.pc = "answer"]
    BY GotoCall DEF EnqueueRemoval, CallInv, GenerationsTypeOK, CallPcs
<1>6. CallMove(t)
    <2>1. call'[t].pc = "answer" /\ call'[t].id = call[t].id /\ call'[t].left = call[t].left
        BY <1>5 DEF CallInv, GenerationsTypeOK, CallRecord
    <2> QED BY <1>1, <2>1 DEF CallMove
<1>7. GenerationsTypeOK'
    BY <1>4, <1>5, SameRows DEF CallInv, GenerationsTypeOK, EnqueueRemoval, countVars, historyVars
<1>8. \A r \in Ids : RecordMove(r)
    <2> SUFFICES ASSUME NEW r \in Ids PROVE RecordMove(r)
        OBVIOUS
    <2>1. tombstones' = tombstones /\ stores' = stores /\ readded' = readded
        BY DEF EnqueueRemoval, storeVars, historyVars
    <2>2. Gone(r) => Gone(r)'
        BY <2>1 DEF Gone
    <2> QED
        BY <1>4, <2>1, <2>2 DEF RecordMove, IsTombstoned
<1> QED
    BY <1>5, <1>6, <1>7, <1>8, OneCallMoves DEF StepFacts

LEMMA AnswerFacts ==
    ASSUME CallInv, NEW t \in Threads, Answer(t) PROVE StepFacts
<1> DEFINE gone == call[t].gone /\ ~ContainsId(Head(call[t].left), stores[Head(call[t].left)],
                                               call[t].id)
           d == [call[t] EXCEPT !.gone = gone, !.left = Tail(@),
                                !.pc = IF Tail(call[t].left) = <<>> THEN "verify" ELSE "purge"]
<1>1. /\ call[t] \in CallRecord /\ call[t].pc = "answer" /\ call[t].id \in Ids
      /\ call[t].left # <<>> /\ oplog = <<>>
    BY DEF CallInv, CallsKnowTheirRecord, GenerationsTypeOK, Answer, At
<1>2. Tail(call[t].left) \in Seq(Stores)
    BY <1>1, NextStore
<1>3. Become(t, d)
    BY DEF Answer
<1>4. gone \in BOOLEAN
    BY DEF gone
<1> HIDE DEF gone
<1>5. /\ d \in CallRecord /\ d.id = call[t].id /\ d.left = Tail(call[t].left)
      /\ d.pc = IF Tail(call[t].left) = <<>> THEN "verify" ELSE "purge"
    BY <1>1, <1>2, <1>4 DEF CallRecord, CallPcs
<1> HIDE DEF d
<1>6. call' \in [Threads -> CallRecord] /\ call'[t] = d /\ Others(t)
    BY <1>3, <1>5, BecomeCall DEF CallInv, GenerationsTypeOK
<1>7. CallMove(t)
    BY <1>1, <1>5, <1>6 DEF CallMove
<1>8. calls' \in 0..MaxCalls /\ restarts' = restarts
    BY DEF Answer, countVars, CallInv, GenerationsTypeOK
<1> QED
    BY <1>6, <1>7, <1>8, OnlyCallFacts DEF Answer

LEMMA VerifyFacts ==
    ASSUME CallInv, NEW t \in Threads, Verify(t) PROVE StepFacts
<1> DEFINE st == IF call[t].gone /\ Gone(call[t].id) THEN "verified" ELSE "manual_attention"
<1>1. call[t].pc = "verify" /\ call[t].id \in Ids /\ st \in DeletionStates
    BY DEF CallInv, CallsKnowTheirRecord, Verify, At, DeletionStates
<1>2. st = "verified" => Gone(call[t].id)
    OBVIOUS
<1>3. SetTombstoneState(call[t].id, st)
    BY DEF Verify
<1> DEFINE r0 == call[t].id
<1> HIDE DEF st, r0
<1>4. /\ StoreTypeOK'
      /\ \A s \in Ids : IsTombstoned(s)' <=> IsTombstoned(s)
      /\ \A x \in Ids : tombstones'[x].state = tombstones[x].state
                            \/ (x = r0 /\ tombstones'[x].state = st)
    <2>1. r0 \in Ids /\ SetTombstoneState(r0, st) /\ StoreTypeOK
        BY <1>1, <1>3 DEF r0, CallInv, GenerationsTypeOK
    <2>2. /\ StoreTypeOK'
          /\ \A s \in Ids : IsTombstoned(s)' <=> IsTombstoned(s)
        BY <1>1, <2>1, SetStateTyped
    <2>3. \A x \in Ids : tombstones'[x].state = tombstones[x].state
                            \/ (x = r0 /\ tombstones'[x].state = st)
        BY <1>1, <2>1, SetStateModes
    <2> QED BY <2>2, <2>3
<1>5. call' \in [Threads -> CallRecord] /\ call'[t].pc = "idle" /\ Others(t)
    BY IdleTyped, BecomeCall DEF Verify, CallInv, GenerationsTypeOK, IdleCall
<1>6. CallMove(t)
    BY <1>5 DEF CallMove
<1>7. GenerationsTypeOK'
    BY <1>4, <1>5 DEF CallInv, GenerationsTypeOK, Verify, vectorVars, countVars, historyVars
<1>8. \A r \in Ids : RecordMove(r)
    <2> SUFFICES ASSUME NEW r \in Ids PROVE RecordMove(r)
        OBVIOUS
    <2>1. stores' = stores /\ oplog' = oplog /\ readded' = readded
        BY DEF Verify, vectorVars, historyVars
    <2>2. (NoUpsert(r) => NoUpsert(r)') /\ (Gone(r) => Gone(r)')
        BY <2>1 DEF NoUpsert, Gone
    <2>3. IsTombstoned(r) => tombstones'[r] # NoTombstone
        BY <1>4 DEF IsTombstoned
    <2>4. tombstones'[r].state = "verified" =>
            tombstones[r].state = "verified" \/ (Gone(r) /\ At(t, "verify") /\ call[t].id = r)
        <3>1. tombstones'[r].state = tombstones[r].state
                \/ (r = call[t].id /\ tombstones'[r].state = st)
            BY <1>4 DEF r0
        <3> QED
            BY <1>1, <1>2, <3>1 DEF At
    <2> QED
        BY <2>1, <2>2, <2>3, <2>4 DEF RecordMove
<1> QED
    BY <1>5, <1>6, <1>7, <1>8, OneCallMoves DEF StepFacts

(* Where the records, the log and the stores are left alone.               *)
LEMMA QuietFacts ==
    ASSUME CallInv, NEW t \in Threads, call' \in [Threads -> CallRecord], Others(t),
           CallMove(t), calls' \in 0..MaxCalls, restarts' = restarts,
           UNCHANGED <<storeVars, stores, oplog, readded>>,
           files' \in [Generations -> [Ids -> Contents]],
           table' \in [Generations -> {"absent", "shadow", "active", "retired"}],
           active' \in Generations, missed' \in [Stores -> [Generations -> SUBSET Ids]]
    PROVE  StepFacts
<1>1. \A u \in Threads : CallMove(u)
    BY OneCallMoves
<1>2. \A r \in Ids : RecordMove(r)
    BY QuietRecords DEF storeVars
<1>3. GenerationsTypeOK'
    BY SameRows DEF CallInv, GenerationsTypeOK
<1> QED
    BY <1>1, <1>2, <1>3 DEF StepFacts

LEMMA OpenedTyped ==
    ASSUME GenerationsTypeOK, NEW g \in Generations, NEW status \in {"shadow", "active"}
    PROVE  Opened(g, status) \in [Generations -> {"absent", "shadow", "active", "retired"}]
BY DEF GenerationsTypeOK, Opened

LEMMA BeginMigrationFacts ==
    ASSUME CallInv, NEW t \in Threads, BeginMigration(t) PROVE StepFacts
<1> PICK g \in Generations :
        /\ Begin(t, "migrate", [IdleCall EXCEPT !.pc = "read", !.generation = g])
        /\ table' = Opened(g, "shadow")
    BY DEF BeginMigration
<1> DEFINE d == [IdleCall EXCEPT !.pc = "read", !.generation = g]
<1>1. d \in CallRecord /\ d.pc = "read"
    BY IdleTyped DEF CallRecord, CallPcs
<1> HIDE DEF d
<1>2. /\ call' \in [Threads -> CallRecord] /\ call'[t] = d /\ Others(t)
      /\ calls' \in 0..MaxCalls /\ restarts' = restarts
    BY <1>1, BeginCall DEF d
<1>3. CallMove(t)
    BY <1>1, <1>2 DEF CallMove
<1>4. table' \in [Generations -> {"absent", "shadow", "active", "retired"}]
    BY OpenedTyped DEF CallInv
<1> QED
    BY <1>2, <1>3, <1>4, QuietFacts
    DEF BeginMigration, vectorVars, historyVars, CallInv, GenerationsTypeOK

LEMMA ReadRowsFacts ==
    ASSUME CallInv, NEW t \in Threads, ReadRows(t) PROVE StepFacts
<1> DEFINE q == SetToSeq({<<r, records[r].content>> : r \in {x \in Ids : Exists(x)}})
           d == [call[t] EXCEPT !.pc = "reindex", !.then = "reindex", !.rows = q]
<1>1. q \in Seq(Ids \X (0..MaxContent))
    BY RowsRead DEF CallInv, GenerationsTypeOK
<1>2. Become(t, d)
    BY DEF ReadRows
<1> HIDE DEF q
<1>3. d \in CallRecord /\ d.pc = "reindex"
    <2>1. call[t] \in CallRecord
        BY DEF CallInv, GenerationsTypeOK
    <2> QED
        BY <1>1, <2>1 DEF CallRecord, CallPcs
<1> HIDE DEF d
<1>4. call' \in [Threads -> CallRecord] /\ call'[t] = d /\ Others(t)
    BY <1>2, <1>3, BecomeCall DEF CallInv, GenerationsTypeOK
<1>5. CallMove(t)
    BY <1>3, <1>4 DEF CallMove
<1> QED
    BY <1>4, <1>5, QuietFacts
    DEF ReadRows, vectorVars, countVars, historyVars, CallInv, GenerationsTypeOK

LEMMA ReindexRowFacts ==
    ASSUME CallInv, NEW t \in Threads, ReindexRow(t) PROVE StepFacts
<1> DEFINE row == Head(call[t].rows)
           clear == ~IsTombstoned(row[1])
           skipped == [call[t] EXCEPT !.rows = Tail(@)]
           taken == [call[t] EXCEPT !.pc = "enqueue", !.rows = Tail(@), !.id = row[1],
                                    !.clear = clear, !.content = row[2],
                                    !.left = StoreNames]
<1>1. call[t] \in CallRecord /\ call[t].pc = "reindex" /\ call[t].rows \in Seq(Ids \X (0..MaxContent))
    BY DEF CallInv, GenerationsTypeOK, CallRecord, ReindexRow, At
<1>2. /\ call' \in [Threads -> CallRecord] /\ Others(t) /\ CallMove(t)
    <2>1. CASE call[t].rows = <<>>
        <3>1. Goto(t, "drain")
            BY <2>1 DEF ReindexRow, Goto
        <3>2. /\ call' \in [Threads -> CallRecord] /\ Others(t)
              /\ call'[t] = [call[t] EXCEPT !.pc = "drain"]
            BY <3>1, GotoCall DEF CallInv, GenerationsTypeOK, CallPcs
        <3>3. call'[t].pc = "drain"
            BY <1>1, <3>2 DEF CallRecord
        <3> QED BY <3>2, <3>3 DEF CallMove
    <2>2. ASSUME call[t].rows # <<>>
          PROVE  Tail(call[t].rows) \in Seq(Ids \X (0..MaxContent)) /\ row \in Ids \X (0..MaxContent)
        BY <1>1, <2>2, HeadTailProperties
    <2>3. CASE call[t].rows # <<>> /\ ~Reindexable(row[1])
        <3>1. Become(t, skipped)
            BY <2>3 DEF ReindexRow
        <3>2. skipped \in CallRecord /\ skipped.pc = "reindex"
            BY <1>1, <2>2, <2>3 DEF CallRecord
        <3> HIDE DEF skipped
        <3>3. call' \in [Threads -> CallRecord] /\ Others(t) /\ call'[t] = skipped
            BY <3>1, <3>2, BecomeCall DEF CallInv, GenerationsTypeOK
        <3> QED BY <3>2, <3>3 DEF CallMove
    <2>4. CASE call[t].rows # <<>> /\ Reindexable(row[1])
        <3>1. Become(t, taken)
            BY <2>4 DEF ReindexRow
        <3>2. clear = TRUE
            BY <2>4 DEF Reindexable
        <3> HIDE DEF clear
        <3>3. /\ taken \in CallRecord /\ taken.pc = "enqueue" /\ taken.id = row[1]
              /\ taken.left = StoreNames /\ taken.clear = clear
            BY <1>1, <2>2, <2>4, <3>2, StoreOrder DEF CallRecord, CallPcs
        <3> HIDE DEF taken
        <3>4. call' \in [Threads -> CallRecord] /\ Others(t) /\ call'[t] = taken
            BY <3>1, <3>3, BecomeCall DEF CallInv, GenerationsTypeOK
        <3>5. row[1] \in Ids
            BY <2>2, <2>4
        <3> QED
            BY <3>2, <3>3, <3>4, <3>5, StoreOrder DEF CallMove
    <2> QED BY <2>1, <2>3, <2>4
<1>3. calls' \in 0..MaxCalls /\ restarts' = restarts
    BY DEF ReindexRow, countVars, CallInv, GenerationsTypeOK
<1> QED
    BY <1>2, <1>3, OnlyCallFacts DEF ReindexRow

LEMMA PromoteFacts ==
    ASSUME CallInv, NEW t \in Threads, Promote(t) PROVE StepFacts
<1> PICK g \in Generations :
        /\ Become(t, [IdleCall EXCEPT !.pc = "switch", !.generation = g])
        /\ table' = Promoted(g)
    BY DEF Promote
<1> DEFINE d == [IdleCall EXCEPT !.pc = "switch", !.generation = g]
<1>1. d \in CallRecord /\ d.pc = "switch"
    BY IdleTyped DEF CallRecord, CallPcs
<1> HIDE DEF d
<1>2. call' \in [Threads -> CallRecord] /\ call'[t] = d /\ Others(t)
    BY <1>1, BecomeCall DEF CallInv, GenerationsTypeOK, d
<1>3. CallMove(t)
    BY <1>1, <1>2 DEF CallMove
<1>4. table' \in [Generations -> {"absent", "shadow", "active", "retired"}]
    BY DEF Promoted, CallInv, GenerationsTypeOK
<1> QED
    BY <1>2, <1>3, <1>4, QuietFacts
    DEF Promote, vectorVars, countVars, historyVars, CallInv, GenerationsTypeOK

(* A call that is over, or of which the whole is one step.                 *)
LEMMA IdleMove ==
    ASSUME CallInv, NEW t \in Threads, Become(t, IdleCall)
    PROVE  call' \in [Threads -> CallRecord] /\ Others(t) /\ CallMove(t)
<1>1. call' \in [Threads -> CallRecord] /\ call'[t].pc = "idle" /\ Others(t)
    BY IdleTyped, BecomeCall DEF CallInv, GenerationsTypeOK, IdleCall
<1> QED BY <1>1 DEF CallMove

LEMMA SwitchFacts ==
    ASSUME CallInv, NEW t \in Threads, Switch(t) PROVE StepFacts
<1>1. call[t].generation \in Generations
    BY DEF CallInv, GenerationsTypeOK, CallRecord
<1> QED
    BY <1>1, IdleMove, QuietFacts
    DEF Switch, vectorVars, countVars, historyVars, CallInv, GenerationsTypeOK

LEMMA PersistFacts ==
    ASSUME CallInv, NEW t \in Threads, Persist(t) PROVE StepFacts
<1>0. "turbovec" \in Stores
    BY DEF Persist
<1>1. files' \in [Generations -> [Ids -> Contents]]
    <2>1. stores["turbovec"] \in TurbovecState
        BY <1>0 DEF CallInv, GenerationsTypeOK, StoreStateOK
    <2>2. \A g \in Generations : stores["turbovec"][g].index \in [Ids -> Contents]
        BY <2>1 DEF TurbovecState
    <2> QED BY <2>2 DEF Persist
<1>2. /\ call' \in [Threads -> CallRecord] /\ Others(t) /\ CallMove(t)
      /\ calls' \in 0..MaxCalls /\ restarts' = restarts
    BY BeginCall, IdleTyped, IdleMove DEF Persist, Begin
<1> QED
    BY <1>1, <1>2, QuietFacts DEF Persist, historyVars, CallInv, GenerationsTypeOK

(* Maintenance of one store puts no record back into it.                   *)
LEMMA MaintainFacts ==
    ASSUME CallInv, NEW t \in Threads, NEW f, NEW s \in Stores, NEW x, StoreStateOK(s, x),
           Maintain(t, f, s, x), files' \in [Generations -> [Ids -> Contents]],
           missed' \in [Stores -> [Generations -> SUBSET Ids]],
           \A r \in Ids : ~ContainsId(s, stores[s], r) => ~ContainsId(s, x, r)
    PROVE  StepFacts
<1>1. /\ call' \in [Threads -> CallRecord] /\ Others(t) /\ CallMove(t)
      /\ calls' \in 0..MaxCalls /\ restarts' = restarts
    BY BeginCall, IdleTyped, IdleMove DEF Maintain, Begin
<1>2. /\ stores' = [q \in Stores |-> stores'[q]]
      /\ \A q \in Stores : StoreStateOK(q, stores'[q])
      /\ stores'[s] = x /\ \A q \in Stores \ {s} : stores'[q] = stores[q]
    BY StoreWritten DEF Maintain, CallInv
<1>3. GenerationsTypeOK'
    BY <1>1, <1>2, SameRows DEF Maintain, CallInv, GenerationsTypeOK, historyVars
<1>4. \A r \in Ids : RecordMove(r)
    <2> SUFFICES ASSUME NEW r \in Ids PROVE RecordMove(r)
        OBVIOUS
    <2>1. tombstones' = tombstones /\ oplog' = oplog /\ readded' = readded
        BY DEF Maintain, storeVars, historyVars
    <2>2. NoUpsert(r) => NoUpsert(r)'
        BY <2>1 DEF NoUpsert
    <2>3. Gone(r) => Gone(r)'
        BY <1>2 DEF Gone
    <2> QED
        BY <2>1, <2>2, <2>3 DEF RecordMove, IsTombstoned
<1> QED
    BY <1>1, <1>3, <1>4, OneCallMoves DEF StepFacts

LEMMA CompactFacts ==
    ASSUME CallInv, NEW t \in Threads, Compact(t) PROVE StepFacts
<1> DEFINE x == Compacted(stores["memory"])
<1>1. "memory" \in Stores /\ Maintain(t, "compact", "memory", x)
    BY DEF Compact, Maintain
<1>2. StoreStateOK("memory", stores["memory"])
    BY <1>1 DEF CallInv, GenerationsTypeOK
<1>3. /\ StoreStateOK("memory", x)
      /\ \A r \in Ids : ~ContainsId("memory", stores["memory"], r) => ~ContainsId("memory", x, r)
    BY <1>2, CompactedOK, MaintainedStaysOut
<1>4. /\ files' \in [Generations -> [Ids -> Contents]]
      /\ missed' \in [Stores -> [Generations -> SUBSET Ids]]
    BY DEF Compact, CallInv, GenerationsTypeOK
<1> HIDE DEF x
<1> QED
    BY <1>1, <1>3, <1>4, MaintainFacts

LEMMA PurgeGenerationFacts ==
    ASSUME CallInv, NEW t \in Threads, PurgeGeneration(t) PROVE StepFacts
<1> PICK g \in Generations :
        /\ Maintain(t, "purge", "turbovec", WithoutGeneration(stores["turbovec"], g))
        /\ files' = [files EXCEPT ![g] = NoVectors[g]]
        /\ missed' = [missed EXCEPT !["turbovec"][g] = Ids]
    BY DEF PurgeGeneration
<1> DEFINE x == WithoutGeneration(stores["turbovec"], g)
<1>1. "turbovec" \in Stores /\ Maintain(t, "purge", "turbovec", x)
    BY DEF Maintain
<1>2. StoreStateOK("turbovec", stores["turbovec"])
    BY <1>1 DEF CallInv, GenerationsTypeOK
<1>3. /\ StoreStateOK("turbovec", x)
      /\ \A r \in Ids : ~ContainsId("turbovec", stores["turbovec"], r) =>
                            ~ContainsId("turbovec", x, r)
    BY <1>2, WithoutGenerationOK, MaintainedStaysOut
<1>4. /\ files' \in [Generations -> [Ids -> Contents]]
      /\ missed' \in [Stores -> [Generations -> SUBSET Ids]]
    BY NothingStored DEF CallInv, GenerationsTypeOK
<1> HIDE DEF x
<1> QED
    BY <1>1, <1>3, <1>4, MaintainFacts

LEMMA RestartFacts ==
    ASSUME CallInv, Restart PROVE StepFacts
<1>1. call' \in [Threads -> CallRecord] /\ \A u \in Threads : call'[u].pc = "idle"
    BY IdleTyped DEF Restart, IdleCall
<1>2. \A u \in Threads : CallMove(u)
    BY <1>1 DEF CallMove
<1>3. /\ stores' = [s \in Stores |-> stores'[s]]
      /\ \A s \in Stores : stores'[s] = Reopened(s, stores[s], files)
    BY DEF Restart
<1>4. \A s \in Stores : StoreStateOK(s, stores'[s])
    <2> SUFFICES ASSUME NEW s \in Stores PROVE StoreStateOK(s, stores'[s])
        OBVIOUS
    <2>1. StoreStateOK(s, stores[s]) /\ files \in [Generations -> [Ids -> Contents]]
        BY DEF CallInv, GenerationsTypeOK
    <2>2. StoreStateOK(s, Reopened(s, stores[s], files))
        BY <2>1, ReopenedOK
    <2> QED BY <1>3, <2>2
<1>5. /\ active' \in Generations
      /\ table' \in [Generations -> {"absent", "shadow", "active", "retired"}]
    BY OpenedTyped DEF Restart, CallInv
<1>6. restarts' \in 0..MaxRestarts /\ calls' \in 0..MaxCalls
    BY GenerationsAssumption DEF Restart, CallInv, GenerationsTypeOK
<1>7. readded \subseteq readded' /\ readded' \subseteq Ids
    BY DEF Restart, CallInv, GenerationsTypeOK
<1>8. GenerationsTypeOK'
    BY <1>1, <1>3, <1>4, <1>5, <1>6, <1>7, SameRows DEF Restart, CallInv, GenerationsTypeOK
<1>9. \A r \in Ids : RecordMove(r)
    <2> SUFFICES ASSUME NEW r \in Ids PROVE RecordMove(r)
        OBVIOUS
    <2>1. tombstones' = tombstones /\ oplog' = oplog
        BY DEF Restart, storeVars
    <2>2. NoUpsert(r) => NoUpsert(r)'
        BY <2>1 DEF NoUpsert
    <2>3. ASSUME IsTombstoned(r), r \notin readded' PROVE Gone(r)'
        <3>1. \A s \in Stores : ~ContainsId(s, Reopened(s, stores[s], files), r)
            BY <2>3 DEF Restart
        <3> QED
            BY <1>3, <3>1 DEF Gone
    <2> QED
        BY <1>7, <2>1, <2>2, <2>3 DEF RecordMove, IsTombstoned
<1> QED
    BY <1>2, <1>8, <1>9 DEF StepFacts

LEMMA Facts == ASSUME CallInv, GenerationsNext PROVE StepFacts
<1>1. ASSUME NEW t \in Threads, HostStep(t) PROVE StepFacts
    BY <1>1, BeginWriteFacts, StoreRowFacts, EnqueueUpsertFacts, DrainReturnsFacts,
       BeginDeleteFacts, TombstoneRecordFacts, EnqueueRemovalFacts, AnswerFacts, VerifyFacts,
       BeginMigrationFacts, ReadRowsFacts, ReindexRowFacts, PromoteFacts, SwitchFacts,
       CompactFacts, PurgeGenerationFacts, PersistFacts DEF HostStep
<1> QED
    BY <1>1, ApplyNextFacts, RestartFacts DEF GenerationsNext

LEMMA CallTypeStep == CallInv /\ [GenerationsNext]_generationsVars => CallInv'
<1> SUFFICES ASSUME CallInv, [GenerationsNext]_generationsVars PROVE CallInv'
    OBVIOUS
<1>1. CASE GenerationsNext
    BY <1>1, Facts, KnownRecords DEF StepFacts, CallInv
<1>2. CASE UNCHANGED generationsVars
    BY <1>2, SameRows DEF CallInv, GenerationsTypeOK, CallsKnowTheirRecord, generationsVars,
        vectorVars, countVars, historyVars
<1> QED BY <1>1, <1>2

(* Whatever is written, deleted, migrated and restarted, the stores hold   *)
(* states they can be in, the archive among them with every live id in its *)
(* index, so that a search is never cut off by ids it cannot find; and the *)
(* log and the calls name records and stores there are.                    *)
THEOREM GenerationsTypeCorrect == GenerationsSpec => []GenerationsTypeOK
<1>1. CallInv => GenerationsTypeOK
    BY DEF CallInv
<1> QED
    BY CallTypeInit, CallTypeStep, <1>1, PTL DEF GenerationsSpec

-----------------------------------------------------------------------------
(* Deletion preservation                                                   *)

(* A deletion past its first step has marked its record; when it verifies, *)
(* and once it has verified, the log has no upsert left that would put the *)
(* record back, but one that readded tells of.                             *)
PreservedInv ==
    /\ CallInv
    /\ \A t \in Threads : call[t].pc \in {"purge", "answer", "verify"} => IsTombstoned(call[t].id)
    /\ \A t \in Threads : At(t, "verify") => call[t].id \in readded \/ NoUpsert(call[t].id)
    /\ \A r \in Ids : tombstones[r].state = "verified" /\ r \notin readded =>
            Gone(r) /\ NoUpsert(r)

LEMMA PreservedInit == GenerationsInit => PreservedInv
<1> SUFFICES ASSUME GenerationsInit PROVE PreservedInv
    OBVIOUS
<1>1. CallInv
    BY CallTypeInit
<1>2. \A t \in Threads : call[t].pc = "idle"
    BY DEF GenerationsInit, IdleCall
<1>3. \A r \in Ids : tombstones[r].state = "none"
    BY DEF GenerationsInit, NoTombstone
<1> QED
    BY <1>1, <1>2, <1>3 DEF PreservedInv, At

LEMMA PreservedStep == PreservedInv /\ [GenerationsNext]_generationsVars => PreservedInv'
<1> SUFFICES ASSUME PreservedInv, [GenerationsNext]_generationsVars PROVE PreservedInv'
    OBVIOUS
<1>0. CallInv'
    BY CallTypeStep DEF PreservedInv
<1>1. CASE GenerationsNext
    <2>1. (\A u \in Threads : CallMove(u)) /\ (\A r \in Ids : RecordMove(r))
        BY <1>1, Facts DEF StepFacts, PreservedInv
    <2>2. \A t \in Threads :
            call[t].pc \in {"tombstone", "purge", "answer", "verify"} => call[t].id \in Ids
        BY DEF PreservedInv, CallInv, CallsKnowTheirRecord
    <2>3. ASSUME NEW t \in Threads, call'[t].pc \in {"purge", "answer", "verify"}
          PROVE  tombstones'[call'[t].id] # NoTombstone
        <3>1. \/ call'[t].id = call[t].id /\ call[t].pc \in {"purge", "answer", "verify"}
              \/ call'[t].id = call[t].id /\ tombstones'[call[t].id] # NoTombstone
            BY <2>1, <2>3 DEF CallMove
        <3>2. CASE call'[t].id = call[t].id /\ call[t].pc \in {"purge", "answer", "verify"}
            <4>1. IsTombstoned(call[t].id) /\ call[t].id \in Ids
                BY <2>2, <3>2 DEF PreservedInv
            <4> QED
                BY <2>1, <3>2, <4>1 DEF RecordMove
        <3> QED BY <3>1, <3>2
    <2>4. ASSUME NEW t \in Threads, NEW r \in Ids, call'[t].pc = "verify", call'[t].id = r
          PROVE  r \in readded' \/ NoUpsert(r)'
        <3>1. call[t].id = r /\ call[t].pc \in {"answer", "verify"}
              /\ (call[t].pc = "verify" \/ oplog = <<>>)
            BY <2>1, <2>4 DEF CallMove
        <3>2. IsTombstoned(r)
            BY <3>1 DEF PreservedInv
        <3>3. r \in readded \/ NoUpsert(r)
            <4>1. CASE call[t].pc = "verify"
                BY <3>1, <4>1 DEF PreservedInv, At
            <4>2. CASE oplog = <<>>
                BY <4>2 DEF NoUpsert
            <4> QED BY <3>1, <4>1, <4>2
        <3> QED
            BY <2>1, <3>2, <3>3 DEF RecordMove
    <2>5. ASSUME NEW r \in Ids, tombstones'[r].state = "verified", r \notin readded'
          PROVE  Gone(r)' /\ NoUpsert(r)'
        <3>1. r \notin readded
            BY <2>1, <2>5 DEF RecordMove
        <3>2. CASE tombstones[r].state = "verified"
            <4>1. Gone(r) /\ NoUpsert(r)
                BY <3>1, <3>2 DEF PreservedInv
            <4>2. IsTombstoned(r)
                BY <3>2 DEF IsTombstoned, NoTombstone
            <4> QED
                BY <2>1, <2>5, <4>1, <4>2 DEF RecordMove
        <3>3. CASE tombstones[r].state # "verified"
            <4>1. PICK t \in Threads : Gone(r) /\ At(t, "verify") /\ call[t].id = r
                BY <2>1, <2>5, <3>3 DEF RecordMove
            <4>2. NoUpsert(r) /\ IsTombstoned(r)
                BY <3>1, <4>1 DEF PreservedInv, At
            <4> QED
                BY <2>1, <2>5, <4>1, <4>2 DEF RecordMove
        <3> QED BY <3>2, <3>3
    <2>6. \A t \in Threads : call'[t].pc = "verify" => call'[t].id \in Ids
        BY <1>0 DEF CallInv, CallsKnowTheirRecord
    <2>7. \A t \in Threads : call'[t].pc = "verify" =>
            call'[t].id \in readded' \/ \A i \in DOMAIN oplog' :
                                            oplog'[i].type = "upsert" => oplog'[i].id # call'[t].id
        BY <2>4, <2>6 DEF NoUpsert
    <2> QED
        BY <1>0, <2>3, <2>5, <2>7 DEF PreservedInv, At, IsTombstoned, NoUpsert
<1>2. CASE UNCHANGED generationsVars
    BY <1>0, <1>2 DEF PreservedInv, At, IsTombstoned, NoUpsert, Gone, generationsVars, storeVars,
        vectorVars, countVars, historyVars
<1> QED BY <1>1, <1>2

(* Deletion preservation across generations: a record whose deletion was   *)
(* verified is contained in no generation of any store, through all writes,*)
(* migrations, compactions and purges, unless readded tells that an index  *)
(* was given its vector again by a call that had looked before the         *)
(* tombstone, or by a restart from an older file of the archive.           *)
THEOREM VerifiedStaysOut == GenerationsSpec => []DeletionPreserved
<1>1. PreservedInv => DeletionPreserved
    BY DEF PreservedInv, DeletionPreserved
<1> QED
    BY PreservedInit, PreservedStep, <1>1, PTL DEF GenerationsSpec

-----------------------------------------------------------------------------
(* The archive is a vector index                                           *)

ArchiveHolds ==
    [g \in Generations |-> [r \in Ids |-> Entry("turbovec", stores["turbovec"], g, r)]]

(* What the archive holds is what its indexes hold, live or not.           *)
LEMMA HeldInIndexes ==
    ASSUME NEW x \in TurbovecState
    PROVE  [g \in Generations |-> [r \in Ids |-> Entry("turbovec", x, g, r)]]
                = [g \in Generations |-> x[g].index]
<1>1. \A g \in Generations : x[g].index \in [Ids -> Contents]
    BY DEF TurbovecState
<1>2. \A g \in Generations, r \in Ids : Entry("turbovec", x, g, r) = x[g].index[r]
    BY DEF Entry
<1> QED
    BY <1>1, <1>2

LEMMA ArchiveTyped ==
    ASSUME CallInv, "turbovec" \in Stores
    PROVE  /\ stores["turbovec"] \in TurbovecState
           /\ files \in [Generations -> [Ids -> Contents]]
           /\ ArchiveHolds = [g \in Generations |-> stores["turbovec"][g].index]
           /\ ArchiveHolds \in [Generations -> [Ids -> Contents]]
<1>1. stores["turbovec"] \in TurbovecState /\ files \in [Generations -> [Ids -> Contents]]
    BY DEF CallInv, GenerationsTypeOK, StoreStateOK
<1>2. ArchiveHolds = [g \in Generations |-> stores["turbovec"][g].index]
    BY <1>1, HeldInIndexes DEF ArchiveHolds
<1> QED
    BY <1>1, <1>2 DEF TurbovecState

(* What an upsert, a removal and a purge make of an archive, as of its     *)
(* indexes.                                                                *)
LEMMA HeldUpserted ==
    ASSUME NEW x \in TurbovecState, NEW g \in Generations, NEW r \in Ids, NEW c \in 0..MaxContent
    PROVE  [h \in Generations |-> Upserted("turbovec", x, g, r, c)[h].index]
                = [[h \in Generations |-> x[h].index] EXCEPT ![g][r] = c]
<1>1. Upserted("turbovec", x, g, r, c) = [x EXCEPT ![g].index[r] = c, ![g].live = @ \cup {r}]
    BY DEF Upserted
<1> DEFINE y == Upserted("turbovec", x, g, r, c)
<1> HIDE DEF y
<1>2. \A h \in Generations :
        y[h].index = IF h = g THEN [x[h].index EXCEPT ![r] = c] ELSE x[h].index
    BY <1>1 DEF TurbovecState, y
<1> QED
    BY <1>2 DEF y

LEMMA HeldRemoved ==
    ASSUME NEW x \in TurbovecState, NEW r \in Ids
    PROVE  [g \in Generations |-> RemovedFrom("turbovec", x, r)[g].index]
                = [g \in Generations |-> [x[g].index EXCEPT ![r] = NoEntry]]
<1>1. ASSUME NEW g \in Generations
      PROVE  Dropped(x[g], r).index = [x[g].index EXCEPT ![r] = NoEntry]
    <2>1. x[g].index \in [Ids -> Contents]
        BY DEF TurbovecState
    <2>2. CASE x[g].index[r] # NoEntry
        BY <2>2 DEF Dropped, Holds
    <2>3. CASE x[g].index[r] = NoEntry
        <3>1. Dropped(x[g], r) = x[g]
            BY <2>3 DEF Dropped, Holds
        <3> QED BY <2>1, <2>3, <3>1
    <2> QED BY <2>2, <2>3
<1> QED
    BY <1>1 DEF RemovedFrom, InNoGeneration

LEMMA HeldWithout ==
    ASSUME NEW x \in TurbovecState, NEW g \in Generations
    PROVE  [h \in Generations |-> WithoutGeneration(x, g)[h].index]
                = [[h \in Generations |-> x[h].index] EXCEPT ![g] = [r \in Ids |-> NoEntry]]
<1>1. \A h \in Generations :
        WithoutGeneration(x, g)[h].index = IF h = g THEN [r \in Ids |-> NoEntry] ELSE x[h].index
    BY DEF WithoutGeneration, Loaded, NoVectors, TurbovecState
<1> QED
    BY <1>1

LEMMA ArchiveInit ==
    ASSUME "turbovec" \in Stores, GenerationsInit
    PROVE  Archive!Init
<1>1. /\ ArchiveHolds \in [Generations -> [Ids -> Contents]] /\ active \in Generations
      /\ files \in [Generations -> [Ids -> Contents]]
    BY CallTypeInit, ArchiveTyped DEF CallInv, GenerationsTypeOK
<1> QED
    BY <1>1 DEF Archive!Init, Archive!Holdings, Archive!Nothing, ArchiveHolds, Contents, NoEntry

LEMMA ArchiveStep ==
    ASSUME "turbovec" \in Stores, CallInv, [GenerationsNext]_generationsVars
    PROVE  [Archive!Next]_<<ArchiveHolds, files, active>>
<1>n. Archive!Nothing = NoEntry
    BY DEF Archive!Nothing, NoEntry
<1>t. stores["turbovec"] \in TurbovecState
      /\ ArchiveHolds = [g \in Generations |-> stores["turbovec"][g].index]
    BY ArchiveTyped
<1>u. CallInv' /\ ArchiveHolds' = [g \in Generations |-> stores'["turbovec"][g].index]
    <2>1. CallInv'
        BY CallTypeStep
    <2>2. stores'["turbovec"] \in TurbovecState
        BY <2>1 DEF CallInv, GenerationsTypeOK, StoreStateOK
    <2> QED
        BY <2>1, <2>2, HeldInIndexes DEF ArchiveHolds
<1>0. ASSUME stores' = stores, files' = files, active' = active
      PROVE  [Archive!Next]_<<ArchiveHolds, files, active>>
    BY <1>0 DEF ArchiveHolds
<1>1. CASE ApplyNext
    <2> DEFINE o == Head(oplog)
    <2>1. o \in LogOp
        BY <1>1, HeadTailProperties DEF CallInv, GenerationsTypeOK, ApplyNext
    <2>2. stores' = [stores EXCEPT ![o.store] = Applied(o)]
          /\ files' = files /\ active' = active
        BY <1>1 DEF ApplyNext
    <2>3. stores = [s \in Stores |-> stores[s]]
        BY DEF CallInv, GenerationsTypeOK
    <2> HIDE DEF o
    <2>4. CASE o.store # "turbovec"
        <3>1. stores'["turbovec"] = stores["turbovec"]
            BY <2>2, <2>3, <2>4
        <3> QED
            BY <2>2, <3>1 DEF ArchiveHolds
    <2>5. CASE o.store = "turbovec" /\ o.type = "upsert"
        <3>1. /\ stores'["turbovec"] = Upserted("turbovec", stores["turbovec"], o.generation,
                                                o.id, o.content)
              /\ o.generation \in Generations /\ o.id \in Ids /\ o.content \in 0..MaxContent
            BY <2>1, <2>2, <2>3, <2>5 DEF Applied, LogOp
        <3>2. ArchiveHolds' = [ArchiveHolds EXCEPT ![o.generation][o.id] = o.content]
            BY <1>t, <1>u, <3>1, HeldUpserted
        <3>3. \E g \in Generations, r \in Ids, c \in 0..MaxContent :
                ArchiveHolds' = [ArchiveHolds EXCEPT ![g][r] = c]
            BY <3>1, <3>2
        <3>4. Archive!Upsert
            BY <2>2, <3>3, Zenon DEF Archive!Upsert, ArchiveHolds
        <3> QED BY <3>4 DEF Archive!Next
    <2>6. CASE o.store = "turbovec" /\ o.type = "remove"
        <3>1. /\ stores'["turbovec"] = RemovedFrom("turbovec", stores["turbovec"], o.id)
              /\ o.id \in Ids
            BY <2>1, <2>2, <2>3, <2>6 DEF Applied, LogOp
        <3>2. ArchiveHolds' = [g \in Generations |->
                                [stores["turbovec"][g].index EXCEPT ![o.id] = NoEntry]]
            BY <1>u, <1>t, <3>1, HeldRemoved
        <3>3. ArchiveHolds' = [g \in Generations |-> [ArchiveHolds[g] EXCEPT ![o.id] = NoEntry]]
            BY <1>t, <3>2
        <3>4. Archive!Remove
            BY <1>n, <2>2, <3>1, <3>3 DEF Archive!Remove, ArchiveHolds
        <3> QED BY <3>4 DEF Archive!Next
    <2> QED
        BY <2>1, <2>4, <2>5, <2>6 DEF LogOp
<1>2. CASE Restart
    <2>1. active' \in Generations
        BY <1>2, Facts DEF GenerationsNext, StepFacts, GenerationsTypeOK
    <2>2. stores'["turbovec"] = Loaded(files) /\ files' = files
        BY <1>2 DEF Restart, Reopened
    <2>3. ArchiveHolds' = files
        <3>1. \A g \in Generations : Loaded(files)[g].index = files[g]
            BY DEF Loaded
        <3> QED BY <1>u, <2>2, <3>1, ArchiveTyped
    <2>4. Archive!Reopen
        BY <2>1, <2>2, <2>3 DEF Archive!Reopen, ArchiveHolds
    <2> QED BY <2>4 DEF Archive!Next
<1>3. ASSUME NEW t \in Threads, HostStep(t)
      PROVE  [Archive!Next]_<<ArchiveHolds, files, active>>
    <2>1. CASE Switch(t)
        <3>1. active' \in Generations /\ stores' = stores /\ files' = files
            BY <2>1 DEF Switch, vectorVars, CallInv, GenerationsTypeOK, CallRecord
        <3>2. Archive!UseGeneration
            BY <3>1 DEF Archive!UseGeneration
        <3> QED BY <3>2 DEF Archive!Next
    <2>2. CASE Compact(t)
        <3>1. stores = [s \in Stores |-> stores[s]]
            BY DEF CallInv, GenerationsTypeOK
        <3>2. stores'["turbovec"] = stores["turbovec"] /\ files' = files /\ active' = active
            BY <2>2, <3>1 DEF Compact, Maintain
        <3> QED BY <3>2 DEF ArchiveHolds
    <2>3. CASE PurgeGeneration(t)
        <3>1. PICK g \in Generations :
                /\ g # active /\ files' = [files EXCEPT ![g] = NoVectors[g]]
                /\ Maintain(t, "purge", "turbovec", WithoutGeneration(stores["turbovec"], g))
            BY <2>3 DEF PurgeGeneration
        <3>2. stores = [s \in Stores |-> stores[s]]
            BY DEF CallInv, GenerationsTypeOK
        <3>3. /\ stores'["turbovec"] = WithoutGeneration(stores["turbovec"], g)
              /\ active' = active
            BY <3>1, <3>2 DEF Maintain
        <3>4. ArchiveHolds' = [ArchiveHolds EXCEPT ![g] = [r \in Ids |-> NoEntry]]
            BY <1>t, <1>u, <3>3, HeldWithout
        <3>5. files' = [files EXCEPT ![g] = [r \in Ids |-> NoEntry]]
            BY <3>1 DEF NoVectors
        <3>6. Archive!DropGeneration
            BY <1>n, <3>1, <3>3, <3>4, <3>5 DEF Archive!DropGeneration, Archive!Empty, ArchiveHolds
        <3> QED BY <3>6 DEF Archive!Next
    <2>4. CASE BeginWrite(t) \/ StoreRow(t) \/ EnqueueUpsert(t) \/ DrainReturns(t)
        BY <1>0, <2>4 DEF BeginWrite, StoreRow, EnqueueUpsert, DrainReturns, OnlyCall, vectorVars
    <2>5. CASE \/ BeginDelete(t) \/ TombstoneRecord(t) \/ EnqueueRemoval(t) \/ Answer(t)
               \/ Verify(t)
        BY <1>0, <2>5 DEF BeginDelete, TombstoneRecord, EnqueueRemoval, Answer, Verify, OnlyCall,
            vectorVars
    <2>6. CASE BeginMigration(t) \/ ReadRows(t) \/ ReindexRow(t) \/ Promote(t)
        BY <1>0, <2>6 DEF BeginMigration, ReadRows, ReindexRow, Promote, OnlyCall, vectorVars
    <2>7. CASE Persist(t)
        <3>1. /\ files' = [g \in Generations |-> stores["turbovec"][g].index]
              /\ stores' = stores /\ active' = active
            BY <2>7 DEF Persist
        <3>2. Archive!Save
            BY <1>t, <3>1 DEF Archive!Save, ArchiveHolds
        <3> QED BY <3>2 DEF Archive!Next
    <2> QED
        BY <1>3, <2>1, <2>2, <2>3, <2>4, <2>5, <2>6, <2>7 DEF HostStep
<1>4. CASE UNCHANGED generationsVars
    BY <1>0, <1>4 DEF generationsVars, vectorVars
<1> QED
    BY <1>1, <1>2, <1>3, <1>4 DEF GenerationsNext

(* Of an engine with an archive: whatever its threads write, delete,       *)
(* migrate, promote, compact, purge, persist and restart, what the         *)
(* generations of the archive hold changes only as VectorIndex says: a     *)
(* shadow under construction changes nothing of the generation in use, a   *)
(* removal takes its record out of all generations, the generation in use  *)
(* is never dropped, and a restart brings back what was last persisted,    *)
(* but no generation purged since.                                         *)
THEOREM ArchiveImplementsIndex ==
    ASSUME "turbovec" \in Stores
    PROVE  GenerationsSpec => ArchiveIsVectorIndex
<1>1. GenerationsInit => Archive!Init
    BY ArchiveInit
<1>2. CallInv /\ [GenerationsNext]_generationsVars => [Archive!Next]_<<ArchiveHolds, files, active>>
    BY ArchiveStep
<1> QED
    BY CallTypeInit, CallTypeStep, <1>1, <1>2, PTL
    DEF GenerationsSpec, ArchiveIsVectorIndex, Archive!Spec, ArchiveHolds

-----------------------------------------------------------------------------
(* The active generation serves                                            *)

(* The host lets one thread write and one migrate.  With two writers of a  *)
(* record, or two migrations into a generation, the order of the log and   *)
(* that of the rows differ, and the property is false.                     *)
OneWriter ==
    \A t, u \in Threads : "write" \in Functions[t] /\ "write" \in Functions[u] => t = u

OneMigrator ==
    \A t, u \in Threads : "migrate" \in Functions[t] /\ "migrate" \in Functions[u] => t = u

(* Which calls are of which kind, and what is over when they wait.         *)
Kind(t) ==
    LET c == call[t]
    IN  /\ c.then = "drain" =>
                "write" \in Functions[t] /\ c.pc \in {"store", "enqueue", "drain"}
        /\ c.then = "reindex" =>
                "migrate" \in Functions[t] /\ c.pc \in {"reindex", "enqueue", "drain"}
        /\ c.pc = "read" => "migrate" \in Functions[t]
        /\ c.pc = "store" => c.then = "drain" /\ c.left = StoreNames
        /\ c.pc = "reindex" => c.then = "reindex"
        /\ c.pc \in {"enqueue", "drain"} => c.then \in {"drain", "reindex"}
        /\ c.then = "reindex" /\ c.pc = "drain" => c.rows = <<>>
        /\ c.pc \in {"purge", "answer"} => IsTombstoned(c.id)
        /\ c.pc = "enqueue" /\ c.then = "drain" => records[c.id].content = c.content

KindInv == \A t \in Threads : Kind(t)

(* Whoever enqueues waits for the log; only what is tombstoned is removed. *)
LogInv ==
    /\ oplog # <<>> =>
            \E t \in Threads : call[t].pc \in {"enqueue", "reindex", "drain", "answer"}
    /\ \A i \in DOMAIN oplog : oplog[i].type = "remove" => IsTombstoned(oplog[i].id)
    /\ "memory" \in Stores => \A r \in stores["memory"].deleted : IsTombstoned(r)

(* Of an archive that was not reopened every id in an index is live.       *)
LiveInv ==
    "turbovec" \in Stores =>
        \A g \in Generations :
            stores["turbovec"][g].live = {r \in Ids : stores["turbovec"][g].index[r] # NoEntry}

(* What operation decides what a generation of a store holds of a record:  *)
(* the only document of a zvec store is that of the last generation.       *)
Overrides(o, s, g, r) ==
    o.type = "upsert" /\ o.store = s /\ o.id = r /\ (s = "zvec" \/ o.generation = g)

(* The last such operation of the log, or if there is none the store, has  *)
(* the content of the row.                                                 *)
WillServe(r, s, g) ==
    \/ \E i \in DOMAIN oplog :
        /\ oplog[i] = Op("upsert", s, g, r, records[r].content)
        /\ \A j \in DOMAIN oplog : j > i => ~Overrides(oplog[j], s, g, r)
    \/ /\ \A j \in DOMAIN oplog : ~Overrides(oplog[j], s, g, r)
       /\ Entry(s, stores[s], g, r) = records[r].content

(* A write that has stored its row has it still to enqueue for the store.  *)
Writing(r, s) ==
    \E t \in Threads :
        call[t].pc = "enqueue" /\ call[t].then = "drain" /\ call[t].id = r
        /\ \E i \in DOMAIN call[t].left : call[t].left[i] = s

(* A reindex into the generation has the row still to take, or to enqueue  *)
(* for the store.                                                          *)
Reindexing(r, s, g) ==
    \E t \in Threads :
        call[t].then = "reindex" /\ call[t].generation = g
        /\ \/ \E i \in DOMAIN call[t].rows : call[t].rows[i][1] = r
           \/ call[t].pc = "enqueue" /\ call[t].id = r
              /\ \E i \in DOMAIN call[t].left : call[t].left[i] = s

(* What such a reindex read of the row is not older than the row.          *)
ReadFresh(r, g) ==
    \A t \in Threads :
        call[t].then = "reindex" /\ call[t].generation = g =>
            /\ \A i \in DOMAIN call[t].rows :
                    call[t].rows[i][1] = r => call[t].rows[i][2] = records[r].content
            /\ call[t].pc = "enqueue" /\ call[t].id = r => call[t].content = records[r].content

Covered(r, s, g) ==
    Writing(r, s) \/ (ReadFresh(r, g) /\ (Reindexing(r, s, g) \/ WillServe(r, s, g)))

CoverInv ==
    \A s \in Stores, g \in Generations : \A r \in Ids \ missed[s][g] :
        InForce(r) => Covered(r, s, g)

ServingInv == CallInv /\ (restarts = 0 => KindInv /\ LogInv /\ LiveInv /\ CoverInv)

-----------------------------------------------------------------------------
(* What steps leave to be served                                           *)

LEMMA Becomes ==
    ASSUME call \in [Threads -> CallRecord], NEW t \in Threads, NEW c, Become(t, c)
    PROVE  call'[t] = c /\ Others(t)
BY DEF Become, Others

LEMMA LogLength ==
    ASSUME CallInv
    PROVE  Len(oplog) \in Nat /\ DOMAIN oplog = 1..Len(oplog)
           /\ \A i \in DOMAIN oplog : oplog[i] \in LogOp
<1>1. oplog \in Seq(LogOp)
    BY DEF CallInv, GenerationsTypeOK
<1> QED
    BY <1>1

(* An operation that is enqueued decides where it overrides.               *)
LEMMA ServeAppend ==
    ASSUME CallInv, NEW o \in LogOp, oplog' = Append(oplog, o), stores' = stores,
           NEW r \in Ids, NEW s \in Stores, NEW g \in Generations,
           records'[r].content = records[r].content
    PROVE  /\ WillServe(r, s, g) /\ ~Overrides(o, s, g, r) => WillServe(r, s, g)'
           /\ o = Op("upsert", s, g, r, records[r].content) => WillServe(r, s, g)'
<1>1. oplog \in Seq(LogOp) /\ Len(oplog) \in Nat
    BY DEF CallInv, GenerationsTypeOK
<1>2. /\ DOMAIN oplog = 1..Len(oplog) /\ DOMAIN oplog' = 1..(Len(oplog) + 1)
      /\ \A i \in 1..Len(oplog) : oplog'[i] = oplog[i]
      /\ oplog'[Len(oplog) + 1] = o
    BY <1>1
<1> DEFINE n == Len(oplog)
           c == records[r].content
<1>3. ASSUME WillServe(r, s, g), ~Overrides(o, s, g, r)
      PROVE  WillServe(r, s, g)'
    <2>1. CASE \E i \in DOMAIN oplog :
                /\ oplog[i] = Op("upsert", s, g, r, c)
                /\ \A j \in DOMAIN oplog : j > i => ~Overrides(oplog[j], s, g, r)
        <3>1. PICK i \in 1..n :
                /\ oplog[i] = Op("upsert", s, g, r, c)
                /\ \A j \in 1..n : j > i => ~Overrides(oplog[j], s, g, r)
            BY <1>2, <2>1
        <3>2. /\ i \in DOMAIN oplog' /\ oplog'[i] = Op("upsert", s, g, r, c)
              /\ \A j \in DOMAIN oplog' : j > i => ~Overrides(oplog'[j], s, g, r)
            <4>1. \A j \in 1..(n + 1) : j \in 1..n \/ j = n + 1
                BY <1>1
            <4> QED BY <1>1, <1>2, <1>3, <3>1, <4>1
        <3> QED
            BY <3>2 DEF WillServe
    <2>2. CASE /\ \A j \in DOMAIN oplog : ~Overrides(oplog[j], s, g, r)
               /\ Entry(s, stores[s], g, r) = c
        <3>1. \A j \in DOMAIN oplog' : ~Overrides(oplog'[j], s, g, r)
            <4>1. \A j \in 1..(n + 1) : j \in 1..n \/ j = n + 1
                BY <1>1
            <4> QED BY <1>2, <1>3, <2>2, <4>1
        <3> QED
            BY <2>2, <3>1 DEF WillServe
    <2> QED
        BY <1>3, <2>1, <2>2 DEF WillServe
<1>4. ASSUME o = Op("upsert", s, g, r, c)
      PROVE  WillServe(r, s, g)'
    <2>1. /\ n + 1 \in DOMAIN oplog' /\ oplog'[n + 1] = Op("upsert", s, g, r, c)
          /\ \A j \in DOMAIN oplog' : ~(j > n + 1)
        BY <1>1, <1>2, <1>4
    <2> QED
        BY <2>1 DEF WillServe
<1> QED
    BY <1>3, <1>4

(* What an operation leaves in a store of a record that is not soft-deleted*)
(* there: its content, or what was held before.                           *)
LEMMA EntryUpserted ==
    ASSUME NEW s \in Stores, NEW x, StoreStateOK(s, x), NEW h \in Generations, NEW q \in Ids,
           NEW d \in 0..MaxContent, NEW g \in Generations, NEW r \in Ids,
           s = "memory" => r \notin x.deleted
    PROVE  Entry(s, Upserted(s, x, h, q, d), g, r) =
                IF q = r /\ h = g THEN d
                ELSE IF q = r /\ s = "zvec" THEN NoEntry
                ELSE Entry(s, x, g, r)
<1>1. CASE s = "memory"
    <2> DEFINE y == Upserted(s, x, h, q, d)
    <2>1. /\ y.deleted = x.deleted \ {q}
          /\ y.vectors[g][r] = IF q = r /\ h = g THEN d ELSE x.vectors[g][r]
        BY <1>1 DEF StoreStateOK, MemoryState, Upserted
    <2> HIDE DEF y
    <2> QED
        BY <1>1, <2>1 DEF Entry, y
<1>2. CASE s = "zvec"
    BY <1>2 DEF StoreStateOK, ZvecState, Entry, Upserted
<1>3. CASE s = "turbovec"
    <2> DEFINE y == Upserted(s, x, h, q, d)
    <2>1. y[g].index[r] = IF q = r /\ h = g THEN d ELSE x[g].index[r]
        BY <1>3 DEF StoreStateOK, TurbovecState, Upserted
    <2> HIDE DEF y
    <2> QED
        BY <1>3, <2>1 DEF Entry, y
<1> QED
    BY <1>1, <1>2, <1>3, VectorAssumption

LEMMA EntryRemoved ==
    ASSUME NEW s \in Stores, NEW x, StoreStateOK(s, x), NEW q \in Ids,
           NEW g \in Generations, NEW r \in Ids, q # r
    PROVE  Entry(s, RemovedFrom(s, x, q), g, r) = Entry(s, x, g, r)
<1>1. CASE s = "memory"
    BY <1>1 DEF StoreStateOK, MemoryState, RemovedFrom, Entry
<1>2. CASE s = "zvec"
    BY <1>2 DEF StoreStateOK, ZvecState, Entry, RemovedFrom
<1>3. CASE s = "turbovec"
    <2>1. Dropped(x[g], q).index[r] = x[g].index[r]
        BY <1>3 DEF StoreStateOK, TurbovecState, Dropped
    <2> QED
        BY <1>3, <2>1 DEF Entry, RemovedFrom, InNoGeneration
<1> QED
    BY <1>1, <1>2, <1>3, VectorAssumption

(* The head of the log decides, or something after it, or neither.         *)
LEMMA ServeApply ==
    ASSUME CallInv, LogInv, ApplyNext, NEW r \in Ids, ~IsTombstoned(r),
           NEW s \in Stores, NEW g \in Generations, WillServe(r, s, g)
    PROVE  WillServe(r, s, g)'
<1> DEFINE o == Head(oplog)
           n == Len(oplog)
           c == records[r].content
<1>1. /\ oplog \in Seq(LogOp) /\ oplog # <<>> /\ records' = records /\ oplog' = Tail(oplog)
      /\ stores' = [stores EXCEPT ![o.store] = Applied(o)]
    BY DEF CallInv, GenerationsTypeOK, ApplyNext, storeVars
<1>2. /\ n \in Nat /\ n >= 1 /\ o = oplog[1] /\ DOMAIN oplog = 1..n /\ DOMAIN oplog' = 1..(n - 1)
      /\ \A i \in 1..(n - 1) : oplog'[i] = oplog[i + 1]
    BY <1>1, LenProperties, HeadTailProperties
<1>3. o \in LogOp
    BY <1>1, HeadTailProperties
<1> HIDE DEF o
<1>4. /\ o.store \in Stores /\ o.generation \in Generations /\ o.id \in Ids
      /\ o.content \in 0..MaxContent /\ o.type \in {"upsert", "remove"}
    BY <1>3 DEF LogOp
<1>5. StoreStateOK(o.store, stores[o.store]) /\ s \in DOMAIN stores
      /\ (o.store = "memory" => r \notin stores["memory"].deleted)
    <2>1. DOMAIN stores = Stores
        BY DEF CallInv, GenerationsTypeOK
    <2> QED
        BY <1>4, <2>1 DEF CallInv, GenerationsTypeOK, LogInv
<1>6. ASSUME ~Overrides(o, s, g, r)
      PROVE  Entry(s, stores'[s], g, r) = Entry(s, stores[s], g, r)
    <2>1. CASE o.store # s
        <3>1. stores'[s] = stores[s]
            BY <1>1, <1>5, <2>1
        <3> QED BY <3>1
    <2>2. CASE o.store = s /\ o.type = "upsert"
        <3>1. stores'[s] = Upserted(s, stores[s], o.generation, o.id, o.content)
            BY <1>1, <1>5, <2>2 DEF Applied
        <3>2. ~(o.id = r /\ o.generation = g) /\ ~(o.id = r /\ s = "zvec")
            BY <1>6, <2>2 DEF Overrides
        <3> QED
            BY <1>4, <1>5, <2>2, <3>1, <3>2, EntryUpserted
    <2>3. CASE o.store = s /\ o.type = "remove"
        <3>1. stores'[s] = RemovedFrom(s, stores[s], o.id)
            BY <1>1, <1>5, <2>3 DEF Applied
        <3>2. o.id # r
            BY <1>2, <2>3 DEF LogInv
        <3> QED
            BY <1>4, <1>5, <2>3, <3>1, <3>2, EntryRemoved
    <2> QED
        BY <1>4, <2>1, <2>2, <2>3
<1>7. ASSUME o = Op("upsert", s, g, r, c)
      PROVE  Entry(s, stores'[s], g, r) = c
    <2>1. /\ o.type = "upsert" /\ o.store = s /\ o.generation = g /\ o.id = r /\ o.content = c
        BY <1>7 DEF Op
    <2>2. stores'[s] = Upserted(s, stores[s], o.generation, o.id, o.content)
        BY <1>1, <1>5, <2>1 DEF Applied
    <2> QED
        BY <1>4, <1>5, <2>1, <2>2, EntryUpserted
<1>8. CASE \E i \in DOMAIN oplog :
                /\ oplog[i] = Op("upsert", s, g, r, c)
                /\ \A j \in DOMAIN oplog : j > i => ~Overrides(oplog[j], s, g, r)
    <2>1. PICK i \in 1..n :
            /\ oplog[i] = Op("upsert", s, g, r, c)
            /\ \A j \in 1..n : j > i => ~Overrides(oplog[j], s, g, r)
        BY <1>2, <1>8
    <2>2. CASE i = 1
        <3>1. Entry(s, stores'[s], g, r) = c
            BY <1>2, <1>7, <2>1, <2>2
        <3>2. \A j \in DOMAIN oplog' : ~Overrides(oplog'[j], s, g, r)
            BY <1>2, <2>1, <2>2
        <3> QED
            BY <1>1, <3>1, <3>2 DEF WillServe
    <2>3. CASE i > 1
        <3>1. /\ i - 1 \in DOMAIN oplog' /\ oplog'[i - 1] = Op("upsert", s, g, r, c)
              /\ \A j \in DOMAIN oplog' : j > i - 1 => ~Overrides(oplog'[j], s, g, r)
            BY <1>2, <2>1, <2>3
        <3> QED
            BY <1>1, <3>1 DEF WillServe
    <2> QED
        BY <2>2, <2>3
<1>9. CASE /\ \A j \in DOMAIN oplog : ~Overrides(oplog[j], s, g, r)
           /\ Entry(s, stores[s], g, r) = c
    <2>1. Entry(s, stores'[s], g, r) = c
        BY <1>2, <1>6, <1>9
    <2>2. \A j \in DOMAIN oplog' : ~Overrides(oplog'[j], s, g, r)
        BY <1>2, <1>9
    <2> QED
        BY <1>1, <2>1, <2>2 DEF WillServe
<1> QED
    BY <1>8, <1>9 DEF WillServe

(* A call that neither enqueues nor migrates has nothing to do with it.    *)
Aside(t) == call[t].pc # "enqueue" /\ call[t].then # "reindex"

LEMMA AsideCalls ==
    ASSUME NEW t \in Threads, Others(t), Aside(t), Aside(t)'
    PROVE  /\ \A r \in Ids, s \in Stores : Writing(r, s) => Writing(r, s)'
           /\ \A r \in Ids, s \in Stores, g \in Generations :
                Reindexing(r, s, g) => Reindexing(r, s, g)'
           /\ \A r \in Ids, g \in Generations : records'[r].content = records[r].content =>
                (ReadFresh(r, g) => ReadFresh(r, g)')
<1>1. \A u \in Threads : u = t \/ call'[u] = call[u]
    BY DEF Others
<1>2. \A r \in Ids, s \in Stores : Writing(r, s) => Writing(r, s)'
    BY <1>1 DEF Writing, Aside
<1>3. \A r \in Ids, s \in Stores, g \in Generations :
        Reindexing(r, s, g) => Reindexing(r, s, g)'
    BY <1>1 DEF Reindexing, Aside
<1>4. \A r \in Ids, g \in Generations : records'[r].content = records[r].content =>
        (ReadFresh(r, g) => ReadFresh(r, g)')
    BY <1>1 DEF ReadFresh, Aside
<1> QED
    BY <1>2, <1>3, <1>4

(* A record that a generation is owed after a step was owed to it before,  *)
(* and what will serve it there still will.                                *)
Kept(r, s, g) ==
    InForce(r)' =>
        /\ r \notin missed[s][g] /\ InForce(r) /\ records'[r].content = records[r].content
        /\ WillServe(r, s, g) => WillServe(r, s, g)'

LEMMA AsideCovers ==
    ASSUME CoverInv, NEW t \in Threads, Others(t), Aside(t), Aside(t)',
           \A s \in Stores, g \in Generations : \A r \in Ids \ missed'[s][g] : Kept(r, s, g)
    PROVE  CoverInv'
<1> SUFFICES ASSUME NEW s \in Stores, NEW g \in Generations, NEW r \in Ids \ missed'[s][g],
                    InForce(r)'
             PROVE  Covered(r, s, g)'
    BY DEF CoverInv
<1>1. /\ r \notin missed[s][g] /\ InForce(r) /\ records'[r].content = records[r].content
      /\ WillServe(r, s, g) => WillServe(r, s, g)'
    BY DEF Kept
<1>2. Covered(r, s, g)
    BY <1>1 DEF CoverInv
<1> QED
    BY <1>1, <1>2, AsideCalls DEF Covered

(* What the steps of a call that stands aside have in common.              *)
Held == CallInv /\ KindInv /\ LogInv /\ LiveInv /\ CoverInv

StillHeld == KindInv' /\ LogInv' /\ LiveInv' /\ CoverInv'

RowsStay ==
    \A r \in Ids :
        /\ IsTombstoned(r) => IsTombstoned(r)'
        /\ records'[r].content = records[r].content
        /\ InForce(r)' => InForce(r)

LEMMA SameRowsStay ==
    ASSUME records' = records, \A r \in Ids : IsTombstoned(r) => IsTombstoned(r)'
    PROVE  RowsStay
BY DEF RowsStay, InForce, Exists, Active

LEMMA KindFrom ==
    ASSUME CallInv, KindInv, NEW t \in Threads, Others(t), Kind(t)',
           \A r \in Ids : IsTombstoned(r) => IsTombstoned(r)',
           \A u \in Threads \ {t} : call[u].pc = "enqueue" /\ call[u].then = "drain" =>
                records'[call[u].id].content = records[call[u].id].content
    PROVE  KindInv'
<1> SUFFICES ASSUME NEW u \in Threads PROVE Kind(u)'
    BY DEF KindInv
<1>1. CASE u = t
    BY <1>1
<1>2. CASE u # t
    <2>1. PICK c : c = call[u]
        OBVIOUS
    <2>2. call'[u] = c /\ call[u] = c
        BY <1>2, <2>1 DEF Others
    <2>3. Kind(u)
        BY DEF KindInv
    <2>4. c.pc \in {"purge", "answer"} => IsTombstoned(c.id)'
        BY <2>2, <2>3 DEF Kind, CallInv, CallsKnowTheirRecord
    <2>5. c.pc = "enqueue" /\ c.then = "drain" => records'[c.id].content = c.content
        BY <1>2, <2>2, <2>3 DEF Kind
    <2> QED
        BY <2>2, <2>3, <2>4, <2>5 DEF Kind
<1> QED
    BY <1>1, <1>2

Waits(t) == call[t].pc \in {"enqueue", "reindex", "drain", "answer"}

LEMMA LogFrom ==
    ASSUME LogInv, NEW t \in Threads, Others(t), oplog' = oplog, CallInv,
           "memory" \in Stores => stores'["memory"].deleted \subseteq stores["memory"].deleted,
           \A r \in Ids : IsTombstoned(r) => IsTombstoned(r)',
           Waits(t) => Waits(t)' \/ oplog = <<>>
    PROVE  LogInv'
<1>1. oplog' # <<>> => \E u \in Threads : Waits(u)'
    BY DEF LogInv, Others, Waits
<1>2. \A i \in DOMAIN oplog' : oplog'[i].type = "remove" =>
            tombstones'[oplog'[i].id] # NoTombstone
    <2>1. \A i \in DOMAIN oplog : oplog[i].type = "remove" =>
            oplog[i].id \in Ids /\ IsTombstoned(oplog[i].id)
        BY LogLength DEF LogInv, LogOp
    <2> QED
        BY <2>1 DEF IsTombstoned
<1>3. "memory" \in Stores => \A r \in stores'["memory"].deleted : IsTombstoned(r)'
    <2>1. "memory" \in Stores => stores["memory"].deleted \subseteq Ids
        BY DEF CallInv, GenerationsTypeOK, StoreStateOK, MemoryState
    <2> QED
        BY <2>1 DEF LogInv
<1> QED
    BY <1>1, <1>2, <1>3 DEF LogInv, Waits, IsTombstoned

LEMMA ServeSame ==
    ASSUME oplog' = oplog, stores' = stores, NEW r \in Ids,
           records'[r].content = records[r].content
    PROVE  \A s \in Stores, g \in Generations : WillServe(r, s, g) => WillServe(r, s, g)'
BY DEF WillServe

LEMMA AsideStep ==
    ASSUME Held, NEW t \in Threads, Others(t), Aside(t), Aside(t)', Kind(t)',
           oplog' = oplog, stores' = stores, missed' = missed, RowsStay,
           Waits(t) => Waits(t)' \/ oplog = <<>>
    PROVE  StillHeld
<1>1. KindInv'
    <2>1. \A u \in Threads \ {t} : call[u].pc = "enqueue" /\ call[u].then = "drain" =>
                records'[call[u].id].content = records[call[u].id].content
        BY DEF Held, CallInv, CallsKnowTheirRecord, RowsStay
    <2> QED
        BY <2>1, KindFrom DEF Held, RowsStay
<1>2. LogInv'
    BY LogFrom DEF Held, RowsStay
<1>3. LiveInv'
    BY DEF Held, LiveInv
<1>4. CoverInv'
    BY AsideCovers, ServeSame DEF Held, RowsStay, Kept
<1> QED
    BY <1>1, <1>2, <1>3, <1>4 DEF StillHeld

(* A call that is over.                                                    *)
LEMMA IdleKind ==
    ASSUME NEW t \in Threads, call'[t] = IdleCall
    PROVE  Kind(t)' /\ Aside(t)'
BY DEF Kind, Aside, IdleCall

LEMMA TypedCall ==
    ASSUME CallInv, NEW t \in Threads
    PROVE  call \in [Threads -> CallRecord] /\ call[t] \in CallRecord
BY DEF CallInv, GenerationsTypeOK

LEMMA BeginWriteServes ==
    ASSUME Held, NEW t \in Threads, BeginWrite(t) PROVE StillHeld
<1> PICK r \in Ids, c \in 0..MaxContent :
        Begin(t, "write", [IdleCall EXCEPT !.pc = "store", !.then = "drain", !.id = r,
                                           !.content = c, !.generation = active,
                                           !.left = StoreNames])
    BY DEF BeginWrite
<1> DEFINE d == [IdleCall EXCEPT !.pc = "store", !.then = "drain", !.id = r,
                                 !.content = c, !.generation = active,
                                 !.left = StoreNames]
<1>1. d.pc = "store" /\ d.then = "drain" /\ d.left = StoreNames
    BY DEF IdleCall
<1> HIDE DEF d
<1>2. call'[t] = d /\ Others(t) /\ At(t, "idle") /\ "write" \in Functions[t]
    BY Becomes, TypedCall DEF Begin, Held, d
<1>3. Aside(t) /\ ~Waits(t)
    BY <1>2 DEF Held, KindInv, Kind, At, Aside, Waits
<1>4. Kind(t)' /\ Aside(t)'
    BY <1>1, <1>2 DEF Kind, Aside
<1>5. RowsStay
    BY SameRowsStay DEF BeginWrite, OnlyCall, storeVars, IsTombstoned
<1> QED
    BY <1>2, <1>3, <1>4, <1>5, AsideStep DEF BeginWrite, OnlyCall, vectorVars, historyVars

LEMMA BeginDeleteServes ==
    ASSUME Held, NEW t \in Threads, BeginDelete(t) PROVE StillHeld
<1> PICK r \in Ids :
        Begin(t, "delete", [IdleCall EXCEPT !.pc = "tombstone", !.id = r, !.left = StoreNames])
    BY DEF BeginDelete
<1> DEFINE d == [IdleCall EXCEPT !.pc = "tombstone", !.id = r, !.left = StoreNames]
<1>1. d.pc = "tombstone" /\ d.then = "idle"
    BY DEF IdleCall
<1> HIDE DEF d
<1>2. call'[t] = d /\ Others(t) /\ At(t, "idle")
    BY Becomes, TypedCall DEF Begin, Held, d
<1>3. Aside(t) /\ ~Waits(t)
    BY <1>2 DEF Held, KindInv, Kind, At, Aside, Waits
<1>4. Kind(t)' /\ Aside(t)'
    BY <1>1, <1>2 DEF Kind, Aside
<1>5. RowsStay
    BY SameRowsStay DEF BeginDelete, OnlyCall, storeVars, IsTombstoned
<1> QED
    BY <1>2, <1>3, <1>4, <1>5, AsideStep DEF BeginDelete, OnlyCall, vectorVars, historyVars

LEMMA BeginMigrationServes ==
    ASSUME Held, NEW t \in Threads, BeginMigration(t) PROVE StillHeld
<1> PICK g \in Generations :
        Begin(t, "migrate", [IdleCall EXCEPT !.pc = "read", !.generation = g])
    BY DEF BeginMigration
<1> DEFINE d == [IdleCall EXCEPT !.pc = "read", !.generation = g]
<1>1. d.pc = "read" /\ d.then = "idle"
    BY DEF IdleCall
<1> HIDE DEF d
<1>2. call'[t] = d /\ Others(t) /\ At(t, "idle") /\ "migrate" \in Functions[t]
    BY Becomes, TypedCall DEF Begin, Held, d
<1>3. Aside(t) /\ ~Waits(t)
    BY <1>2 DEF Held, KindInv, Kind, At, Aside, Waits
<1>4. Kind(t)' /\ Aside(t)'
    BY <1>1, <1>2 DEF Kind, Aside
<1>5. RowsStay
    BY SameRowsStay DEF BeginMigration, storeVars, IsTombstoned
<1> QED
    BY <1>2, <1>3, <1>4, <1>5, AsideStep DEF BeginMigration, vectorVars, historyVars

LEMMA PersistServes ==
    ASSUME Held, NEW t \in Threads, Persist(t) PROVE StillHeld
<1>1. call'[t] = IdleCall /\ Others(t) /\ At(t, "idle")
    BY Becomes, TypedCall DEF Persist, Begin, Held
<1>2. Aside(t) /\ ~Waits(t)
    BY <1>1 DEF Held, KindInv, Kind, At, Aside, Waits
<1>3. RowsStay
    BY SameRowsStay DEF Persist, storeVars, IsTombstoned
<1> QED
    BY <1>1, <1>2, <1>3, IdleKind, AsideStep DEF Persist, historyVars

LEMMA TombstoneRecordServes ==
    ASSUME Held, NEW t \in Threads, TombstoneRecord(t) PROVE StillHeld
<1> PICK c : c = call[t]
    OBVIOUS
<1>1. c \in CallRecord /\ c.pc = "tombstone" /\ c.id \in Ids /\ t \in Jobs
    BY TypedCall, GenerationsAssumption
    DEF Held, CallInv, CallsKnowTheirRecord, TombstoneRecord, At
<1>2. call'[t] = [c EXCEPT !.pc = "purge"] /\ Others(t)
    BY Becomes, TypedCall DEF TombstoneRecord, Goto, Held
<1>3. call'[t].pc = "purge" /\ call'[t].id = c.id /\ call'[t].then = c.then
    BY <1>1, <1>2 DEF CallRecord
<1>4. StoreTypeOK /\ Tombstone(c.id, "logical", t)
    BY DEF Held, CallInv, GenerationsTypeOK, TombstoneRecord
<1>5. IsTombstoned(c.id)' /\ \A r \in Ids \ {c.id} : tombstones'[r] = tombstones[r]
    BY <1>1, <1>4, TombstoneTyped DEF Modes
<1>6. /\ \A r \in Ids : records'[r].content = records[r].content
      /\ \A r \in Ids \ {c.id} : records'[r] = records[r]
    BY <1>1, <1>4 DEF Tombstone, StoreTypeOK, Record, Absent
<1>7. RowsStay
    BY <1>5, <1>6 DEF RowsStay, IsTombstoned, InForce, Exists, Active
<1>8. Aside(t) /\ ~Waits(t) /\ c.then \notin {"drain", "reindex"}
    BY <1>1 DEF Held, KindInv, Kind, Aside, Waits
<1>9. Kind(t)' /\ Aside(t)'
    BY <1>3, <1>5, <1>8 DEF Kind, Aside, IsTombstoned
<1> QED
    BY <1>2, <1>7, <1>8, <1>9, AsideStep DEF TombstoneRecord, vectorVars, historyVars

LEMMA AnswerServes ==
    ASSUME Held, NEW t \in Threads, Answer(t) PROVE StillHeld
<1> PICK c : c = call[t]
    OBVIOUS
<1> PICK gone \in BOOLEAN :
        gone = (c.gone /\ ~ContainsId(Head(c.left), stores[Head(c.left)], c.id))
    OBVIOUS
<1> DEFINE d == [c EXCEPT !.gone = gone, !.left = Tail(@),
                          !.pc = IF Tail(c.left) = <<>> THEN "verify" ELSE "purge"]
<1>1. c \in CallRecord /\ c.pc = "answer" /\ c.id \in Ids /\ oplog = <<>>
    BY TypedCall DEF Held, CallInv, CallsKnowTheirRecord, Answer, At
<1>2. Become(t, d)
    BY DEF Answer
<1>3. d.pc \in {"verify", "purge"} /\ d.id = c.id /\ d.then = c.then
    BY <1>1 DEF CallRecord
<1> HIDE DEF d
<1>4. call'[t] = d /\ Others(t)
    BY <1>2, Becomes, TypedCall DEF Held
<1>5. Aside(t) /\ c.then \notin {"drain", "reindex"} /\ IsTombstoned(c.id)
    BY <1>1 DEF Held, KindInv, Kind, Aside
<1>6. RowsStay
    BY SameRowsStay DEF Answer, OnlyCall, storeVars, IsTombstoned
<1>7. Kind(t)' /\ Aside(t)'
    BY <1>1, <1>3, <1>4, <1>5, <1>6 DEF Kind, Aside, RowsStay, IsTombstoned
<1> QED
    BY <1>1, <1>4, <1>5, <1>6, <1>7, AsideStep DEF Answer, OnlyCall, vectorVars, historyVars

LEMMA VerifyServes ==
    ASSUME Held, NEW t \in Threads, Verify(t) PROVE StillHeld
<1>1. PICK st \in DeletionStates : SetTombstoneState(call[t].id, st)
    BY DEF Verify, DeletionStates
<1>2. StoreTypeOK /\ call[t].id \in Ids /\ call[t].pc = "verify"
    BY DEF Held, CallInv, CallsKnowTheirRecord, GenerationsTypeOK, Verify, At
<1>3. records' = records /\ \A r \in Ids : IsTombstoned(r) => IsTombstoned(r)'
    BY <1>1, <1>2, SetStateTyped DEF SetTombstoneState
<1>4. RowsStay
    BY <1>3, SameRowsStay
<1>5. call'[t] = IdleCall /\ Others(t)
    BY Becomes, TypedCall DEF Verify, Held
<1>6. Aside(t) /\ ~Waits(t)
    BY <1>2 DEF Held, KindInv, Kind, Aside, Waits
<1> QED
    BY <1>4, <1>5, <1>6, IdleKind, AsideStep DEF Verify, vectorVars, historyVars

(* A removal is of a record the property no longer speaks of.              *)
LEMMA EnqueueRemovalServes ==
    ASSUME Held, NEW t \in Threads, EnqueueRemoval(t) PROVE StillHeld
<1> PICK c : c = call[t]
    OBVIOUS
<1> DEFINE o == Op("remove", Head(c.left), FirstGeneration, c.id, 0)
<1>1. c \in CallRecord /\ c.pc = "purge" /\ c.id \in Ids /\ c.left # <<>>
    BY TypedCall DEF Held, CallInv, CallsKnowTheirRecord, EnqueueRemoval, At
<1>2. o \in LogOp /\ o.type = "remove" /\ o.id = c.id
    BY <1>1, NextStore, GenerationsAssumption DEF Op, LogOp, Held
<1>3. oplog' = Append(oplog, o) /\ stores' = stores /\ records' = records
      /\ tombstones' = tombstones /\ missed' = missed
    BY DEF EnqueueRemoval, storeVars, historyVars
<1> HIDE DEF o
<1>4. call'[t] = [c EXCEPT !.pc = "answer"] /\ Others(t)
    BY Becomes, TypedCall DEF EnqueueRemoval, Goto, Held
<1>5. call'[t].pc = "answer" /\ call'[t].id = c.id /\ call'[t].then = c.then
    BY <1>1, <1>4 DEF CallRecord
<1>6. Aside(t) /\ c.then \notin {"drain", "reindex"} /\ IsTombstoned(c.id)
    BY <1>1 DEF Held, KindInv, Kind, Aside
<1>7. RowsStay
    BY <1>3, SameRowsStay DEF IsTombstoned
<1>8. Kind(t)' /\ Aside(t)'
    BY <1>3, <1>5, <1>6 DEF Kind, Aside, IsTombstoned
<1>9. KindInv'
    BY <1>3, <1>4, <1>7, <1>8, KindFrom DEF Held, RowsStay
<1>10. LogInv'
    <2>1. \A i \in DOMAIN oplog' : oplog'[i] = o \/ \E j \in DOMAIN oplog : oplog'[i] = oplog[j]
        <3>1. oplog \in Seq(LogOp) /\ Len(oplog) \in Nat
            BY DEF Held, CallInv, GenerationsTypeOK
        <3> QED BY <1>2, <1>3, <3>1
    <2>2. \A i \in DOMAIN oplog' : oplog'[i].type = "remove" =>
            tombstones'[oplog'[i].id] # NoTombstone
        BY <1>2, <1>3, <1>6, <2>1 DEF Held, LogInv, IsTombstoned
    <2>3. "memory" \in Stores => \A r \in stores'["memory"].deleted : IsTombstoned(r)'
        BY <1>3 DEF Held, LogInv, IsTombstoned
    <2> QED
        BY <1>5, <2>2, <2>3 DEF LogInv, IsTombstoned
<1>11. CoverInv'
    <2>1. \A s \in Stores, g \in Generations, r \in Ids :
            WillServe(r, s, g) => WillServe(r, s, g)'
        BY <1>2, <1>3, ServeAppend DEF Overrides, Held
    <2> QED
        BY <1>3, <1>4, <1>6, <1>7, <1>8, <2>1, AsideCovers DEF Held, RowsStay, Kept
<1>12. LiveInv'
    BY <1>3 DEF Held, LiveInv
<1> QED
    BY <1>9, <1>10, <1>11, <1>12 DEF StillHeld

(* Maintenance changes nothing of what is owed to a generation.            *)
LEMMA MaintainServes ==
    ASSUME Held, NEW t \in Threads, NEW f, NEW s \in Stores, NEW x, Maintain(t, f, s, x),
           s = "memory" => x.deleted \subseteq stores[s].deleted,
           s = "turbovec" => \A g \in Generations :
                x[g].live = {r \in Ids : x[g].index[r] # NoEntry},
           \A q \in Stores, g \in Generations :
                missed[q][g] \subseteq missed'[q][g] /\ missed'[q][g] \subseteq Ids,
           \A g \in Generations : \A r \in Ids \ missed'[s][g] : InForce(r) =>
                Entry(s, x, g, r) = Entry(s, stores[s], g, r)
    PROVE  StillHeld
<1>1. call'[t] = IdleCall /\ Others(t) /\ At(t, "idle")
    BY Becomes, TypedCall DEF Maintain, Begin, Held
<1>2. Aside(t) /\ ~Waits(t)
    BY <1>1 DEF Held, KindInv, Kind, At, Aside, Waits
<1>3. Kind(t)' /\ Aside(t)'
    BY <1>1, IdleKind
<1>4. oplog' = oplog /\ records' = records /\ tombstones' = tombstones
      /\ stores' = [stores EXCEPT ![s] = x]
    BY DEF Maintain, storeVars, historyVars
<1>5. stores'[s] = x /\ \A q \in Stores \ {s} : stores'[q] = stores[q]
    <2>1. DOMAIN stores = Stores
        BY DEF Held, CallInv, GenerationsTypeOK
    <2> QED BY <1>4, <2>1
<1>6. RowsStay
    BY <1>4, SameRowsStay DEF IsTombstoned
<1>7. KindInv'
    BY <1>1, <1>3, <1>4, <1>6, KindFrom DEF Held, RowsStay
<1>8. LogInv'
    <2>1. "memory" \in Stores => stores'["memory"].deleted \subseteq stores["memory"].deleted
        BY <1>5
    <2> QED
        BY <1>1, <1>2, <1>4, <1>6, <2>1, LogFrom DEF Held, RowsStay
<1>9. CoverInv'
    <2>1. ASSUME NEW q \in Stores, NEW g \in Generations, NEW r \in Ids \ missed'[q][g],
                 InForce(r), WillServe(r, q, g)
          PROVE  WillServe(r, q, g)'
        <3>1. Entry(q, stores'[q], g, r) = Entry(q, stores[q], g, r)
            BY <1>5, <2>1
        <3> QED
            BY <1>4, <2>1, <3>1 DEF WillServe
    <2> QED
        BY <1>1, <1>2, <1>3, <1>4, <1>6, <2>1, AsideCovers DEF Held, RowsStay, Kept
<1>10. LiveInv'
    BY <1>5 DEF Held, LiveInv
<1> QED
    BY <1>7, <1>8, <1>9, <1>10 DEF StillHeld

LEMMA CompactServes ==
    ASSUME Held, NEW t \in Threads, Compact(t) PROVE StillHeld
<1> DEFINE y == stores["memory"]
           x == Compacted(y)
<1>1. "memory" \in Stores /\ Maintain(t, "compact", "memory", x)
    BY DEF Compact, Maintain
<1>2. y \in MemoryState /\ \A r \in y.deleted : IsTombstoned(r)
    BY <1>1 DEF Held, LogInv, CallInv, GenerationsTypeOK, StoreStateOK
<1> HIDE DEF y
<1>3. x.deleted \subseteq y.deleted
    BY DEF Compacted
<1>4. \A r \in Ids, g \in Generations : InForce(r) =>
        Entry("memory", x, g, r) = Entry("memory", y, g, r)
    BY <1>2 DEF Compacted, Entry, InForce, MemoryState
<1>5. missed' = missed /\ missed \in [Stores -> [Generations -> SUBSET Ids]]
    BY DEF Compact, Held, CallInv, GenerationsTypeOK
<1> HIDE DEF x
<1> QED
    BY <1>1, <1>3, <1>4, <1>5, MaintainServes DEF y

(* A generation that is purged is owed nothing more.                       *)
LEMMA PurgeGenerationServes ==
    ASSUME Held, NEW t \in Threads, PurgeGeneration(t) PROVE StillHeld
<1> PICK h \in Generations :
        /\ Maintain(t, "purge", "turbovec", WithoutGeneration(stores["turbovec"], h))
        /\ missed' = [missed EXCEPT !["turbovec"][h] = Ids]
    BY DEF PurgeGeneration
<1> DEFINE y == stores["turbovec"]
           x == WithoutGeneration(y, h)
<1>1. "turbovec" \in Stores
    BY DEF Maintain
<1>2. y \in TurbovecState
    BY <1>1 DEF Held, CallInv, GenerationsTypeOK, StoreStateOK
<1>3. missed \in [Stores -> [Generations -> SUBSET Ids]]
    BY DEF Held, CallInv, GenerationsTypeOK
<1>4. \A q \in Stores, g \in Generations :
        /\ missed'[q][g] = IF q = "turbovec" /\ g = h THEN Ids ELSE missed[q][g]
        /\ missed[q][g] \subseteq missed'[q][g] /\ missed'[q][g] \subseteq Ids
    BY <1>1, <1>3
<1>5. \A g \in Generations : y[g].live = {r \in Ids : y[g].index[r] # NoEntry}
    BY <1>1 DEF Held, LiveInv
<1> HIDE DEF y
<1>6. /\ \A g \in Generations \ {h} : x[g] = y[g]
      /\ x[h].live = {} /\ \A r \in Ids : x[h].index[r] = NoEntry
    BY <1>2 DEF WithoutGeneration, TurbovecState, Loaded, NoVectors
<1> HIDE DEF x
<1>7. \A g \in Generations : x[g].live = {r \in Ids : x[g].index[r] # NoEntry}
    BY <1>5, <1>6
<1>8. \A g \in Generations : \A r \in Ids \ missed'["turbovec"][g] :
        Entry("turbovec", x, g, r) = Entry("turbovec", y, g, r)
    BY <1>1, <1>4, <1>6 DEF Entry
<1> QED
    BY <1>1, <1>4, <1>7, <1>8, MaintainServes DEF x, y

LEMMA LiveUpserted ==
    ASSUME NEW y \in TurbovecState, NEW g \in Generations,
           y[g].live = {r \in Ids : y[g].index[r] # NoEntry},
           NEW h \in Generations, NEW q \in Ids, NEW d \in 0..MaxContent, d # NoEntry,
           NEW x, x = Upserted("turbovec", y, h, q, d)
    PROVE  x[g].live = {r \in Ids : x[g].index[r] # NoEntry}
<1>1. x = [y EXCEPT ![h].index[q] = d, ![h].live = @ \cup {q}]
    BY DEF Upserted
<1>2. y[g].index \in [Ids -> Contents]
    BY DEF TurbovecState
<1>3. CASE g = h
    <2>1. x[g].index = [y[g].index EXCEPT ![q] = d] /\ x[g].live = y[g].live \cup {q}
        BY <1>1, <1>3 DEF TurbovecState
    <2>2. \A r \in Ids : x[g].index[r] = IF r = q THEN d ELSE y[g].index[r]
        BY <1>2, <2>1
    <2> QED
        BY <2>1, <2>2
<1>4. CASE g # h
    <2>1. x[g] = y[g]
        BY <1>1, <1>4 DEF TurbovecState
    <2> QED
        BY <2>1
<1> QED
    BY <1>3, <1>4

LEMMA LiveRemoved ==
    ASSUME NEW y \in TurbovecState, NEW g \in Generations,
           y[g].live = {r \in Ids : y[g].index[r] # NoEntry},
           NEW q \in Ids, NEW x, x = RemovedFrom("turbovec", y, q)
    PROVE  x[g].live = {r \in Ids : x[g].index[r] # NoEntry}
<1>1. x[g] = Dropped(y[g], q)
    BY DEF RemovedFrom, InNoGeneration
<1>2. y[g].index \in [Ids -> Contents]
    BY DEF TurbovecState
<1>3. CASE y[g].index[q] = NoEntry
    BY <1>1, <1>3 DEF Dropped, Holds
<1>4. CASE y[g].index[q] # NoEntry
    <2>0. x[g] = [index |-> [y[g].index EXCEPT ![q] = NoEntry], live |-> y[g].live \ {q}]
        BY <1>1, <1>4, Zenon DEF Dropped, Holds
    <2>1. x[g].index = [y[g].index EXCEPT ![q] = NoEntry] /\ x[g].live = y[g].live \ {q}
        BY <2>0
    <2>2. \A r \in Ids : x[g].index[r] = IF r = q THEN NoEntry ELSE y[g].index[r]
        BY <1>2, <2>1
    <2> QED
        BY <2>1, <2>2
<1> QED
    BY <1>3, <1>4

LEMMA ApplyNextServes ==
    ASSUME Held, ApplyNext PROVE StillHeld
<1> DEFINE o == Head(oplog)
<1>1. /\ oplog \in Seq(LogOp) /\ oplog # <<>> /\ oplog' = Tail(oplog) /\ call' = call
      /\ records' = records /\ tombstones' = tombstones /\ missed' = missed
      /\ stores' = [stores EXCEPT ![o.store] = Applied(o)]
    BY DEF Held, CallInv, GenerationsTypeOK, ApplyNext, storeVars, historyVars
<1>2. o \in LogOp /\ 1 \in DOMAIN oplog /\ o = oplog[1]
    BY <1>1, HeadTailProperties
<1>3. \A i \in DOMAIN oplog' : \E j \in DOMAIN oplog : oplog'[i] = oplog[j]
    <2>1. Len(oplog) \in Nat /\ Len(oplog) >= 1 /\ DOMAIN oplog = 1..Len(oplog)
          /\ DOMAIN oplog' = 1..(Len(oplog) - 1)
          /\ \A i \in 1..(Len(oplog) - 1) : oplog'[i] = oplog[i + 1]
        BY <1>1, LenProperties, HeadTailProperties
    <2> QED BY <2>1
<1> HIDE DEF o
<1>4. KindInv'
    BY <1>1 DEF Held, KindInv, Kind, IsTombstoned
<1>5. LogInv'
    <2>1. \E t \in Threads : Draining(t)
        BY DEF ApplyNext
    <2>2. \E t \in Threads : call'[t].pc \in {"enqueue", "reindex", "drain", "answer"}
        BY <1>1, <2>1 DEF Draining, At
    <2>3. \A i \in DOMAIN oplog' : oplog'[i].type = "remove" =>
            tombstones'[oplog'[i].id] # NoTombstone
        BY <1>1, <1>3 DEF Held, LogInv, IsTombstoned
    <2>4. "memory" \in Stores => \A r \in stores'["memory"].deleted : IsTombstoned(r)'
        <3> SUFFICES ASSUME "memory" \in Stores, NEW r \in stores'["memory"].deleted
                     PROVE  IsTombstoned(r)
            BY <1>1 DEF IsTombstoned
        <3> DEFINE y == stores["memory"]
        <3>1. DOMAIN stores = Stores /\ y \in MemoryState /\ \A q \in y.deleted : IsTombstoned(q)
            BY DEF Held, CallInv, GenerationsTypeOK, StoreStateOK, LogInv
        <3>2. CASE o.store # "memory"
            <4>1. stores'["memory"] = y
                BY <1>1, <3>1, <3>2
            <4> QED BY <3>1, <4>1
        <3>3. CASE o.store = "memory" /\ o.type = "upsert"
            <4>1. stores'["memory"] = Upserted("memory", y, o.generation, o.id, o.content)
                BY <1>1, <3>1, <3>3 DEF Applied
            <4> HIDE DEF y
            <4>2. stores'["memory"].deleted = y.deleted \ {o.id}
                BY <3>1, <4>1 DEF Upserted, MemoryState
            <4> QED BY <3>1, <4>2
        <3>4. CASE o.store = "memory" /\ o.type = "remove"
            <4>1. stores'["memory"] = RemovedFrom("memory", y, o.id)
                BY <1>1, <3>1, <3>4 DEF Applied
            <4> HIDE DEF y
            <4>2. stores'["memory"].deleted = y.deleted \cup {o.id}
                BY <3>1, <4>1 DEF RemovedFrom, MemoryState
            <4>3. IsTombstoned(o.id)
                BY <1>2, <3>4 DEF Held, LogInv
            <4> QED BY <3>1, <4>2, <4>3
        <3> QED
            BY <1>2, <3>2, <3>3, <3>4 DEF LogOp
    <2> QED
        BY <2>2, <2>3, <2>4 DEF LogInv, IsTombstoned
<1>6. CoverInv'
    <2> SUFFICES ASSUME NEW s \in Stores, NEW g \in Generations, NEW r \in Ids \ missed[s][g],
                        InForce(r)
                 PROVE  Covered(r, s, g)'
        BY <1>1 DEF CoverInv, InForce, Exists, Active, IsTombstoned
    <2>1. Covered(r, s, g) /\ ~IsTombstoned(r)
        BY DEF Held, CoverInv, InForce
    <2>2. WillServe(r, s, g) => WillServe(r, s, g)'
        BY <2>1, ServeApply DEF Held
    <2>3. /\ ReadFresh(r, g) => ReadFresh(r, g)'
          /\ Writing(r, s) => Writing(r, s)'
          /\ Reindexing(r, s, g) => Reindexing(r, s, g)'
        BY <1>1 DEF ReadFresh, Writing, Reindexing
    <2> QED
        BY <2>1, <2>2, <2>3 DEF Covered
<1>7. LiveInv'
    <2> SUFFICES ASSUME "turbovec" \in Stores, NEW g \in Generations
                 PROVE  stores'["turbovec"][g].live
                            = {r \in Ids : stores'["turbovec"][g].index[r] # NoEntry}
        BY DEF LiveInv
    <2> DEFINE y == stores["turbovec"]
    <2>1. /\ DOMAIN stores = Stores /\ y \in TurbovecState
          /\ y[g].live = {r \in Ids : y[g].index[r] # NoEntry}
        BY DEF Held, CallInv, GenerationsTypeOK, StoreStateOK, LiveInv
    <2>2. /\ o.generation \in Generations /\ o.id \in Ids /\ o.content \in 0..MaxContent
          /\ o.type \in {"upsert", "remove"}
        BY <1>2 DEF LogOp
    <2>3. CASE o.store # "turbovec"
        BY <1>1, <2>1, <2>3
    <2>4. CASE o.store = "turbovec" /\ o.type = "upsert"
        <3>1. stores'["turbovec"] = Upserted("turbovec", y, o.generation, o.id, o.content)
            BY <1>1, <2>1, <2>4 DEF Applied
        <3>2. o.content # NoEntry
            BY <2>2, GenerationsAssumption DEF NoEntry
        <3> QED
            BY <2>1, <2>2, <3>1, <3>2, LiveUpserted
    <2>5. CASE o.store = "turbovec" /\ o.type = "remove"
        <3>1. stores'["turbovec"] = RemovedFrom("turbovec", y, o.id)
            BY <1>1, <2>1, <2>5 DEF Applied
        <3> QED
            BY <2>1, <2>2, <3>1, LiveRemoved
    <2> QED
        BY <2>2, <2>3, <2>4, <2>5
<1> QED
    BY <1>4, <1>5, <1>6, <1>7 DEF StillHeld

-----------------------------------------------------------------------------
(* Writes                                                                  *)

(* What a write stores it has still to enqueue everywhere.                 *)
LEMMA StoreRowServes ==
    ASSUME Held, OneWriter, NEW t \in Threads, StoreRow(t) PROVE StillHeld
<1> PICK c : c = call[t]
    OBVIOUS
<1>1. /\ c \in CallRecord /\ c.pc = "store" /\ c.id \in Ids /\ c.content \in 0..MaxContent
      /\ c.then = "drain" /\ c.left = StoreNames /\ "write" \in Functions[t]
    BY TypedCall DEF Held, CallInv, CallsKnowTheirRecord, StoreRow, At, CallRecord, KindInv, Kind
<1>2. call'[t] = [c EXCEPT !.pc = "enqueue"] /\ Others(t)
    BY Becomes, TypedCall DEF StoreRow, Goto, Held
<1>3. /\ call'[t].pc = "enqueue" /\ call'[t].id = c.id /\ call'[t].then = "drain"
      /\ call'[t].left = StoreNames /\ call'[t].content = c.content
    BY <1>1, <1>2 DEF CallRecord
<1>4. /\ tombstones' = tombstones /\ records'[c.id].content = c.content
      /\ \A r \in Ids \ {c.id} : records'[r] = records[r]
    <2>1. StoreTypeOK /\ Write(c.id, "active", c.content) /\ "active" \in Statuses
        BY DEF StoreRow, Held, CallInv, GenerationsTypeOK, Statuses
    <2>2. records'[c.id] = [status |-> "active", content |-> c.content]
        BY <1>1, <2>1, WriteTyped
    <2> QED
        BY <1>1, <2>1, <2>2, WriteTyped
<1>5. stores' = stores /\ oplog' = oplog /\ missed' = missed
    BY DEF StoreRow, vectorVars, historyVars
<1>6. KindInv'
    <2>1. Kind(t)'
        BY <1>1, <1>3, <1>4 DEF Kind
    <2>2. \A u \in Threads \ {t} : ~(call[u].pc = "enqueue" /\ call[u].then = "drain")
        BY <1>1 DEF Held, KindInv, Kind, OneWriter
    <2> QED
        BY <1>2, <1>4, <2>1, <2>2, KindFrom DEF Held, IsTombstoned
<1>7. LogInv'
    BY <1>1, <1>2, <1>4, <1>5, LogFrom DEF Held, IsTombstoned, Waits
<1>8. CoverInv'
    <2>0. \A u \in Threads : u = t \/ call'[u] = call[u]
        BY <1>2 DEF Others
    <2>1. \A r \in Ids, s \in Stores : Writing(r, s) => Writing(r, s)'
        BY <1>1, <2>0 DEF Writing
    <2>2. \A r \in Ids, s \in Stores, g \in Generations :
            Reindexing(r, s, g) => Reindexing(r, s, g)'
        BY <1>1, <2>0 DEF Reindexing
    <2>3. \A s \in Stores : Writing(c.id, s)'
        BY <1>3, StoreOrder DEF Writing
    <2> SUFFICES ASSUME NEW s \in Stores, NEW g \in Generations, NEW r \in Ids \ missed[s][g],
                        InForce(r)'
                 PROVE  Covered(r, s, g)'
        BY <1>5 DEF CoverInv
    <2>4. CASE r = c.id
        BY <2>3, <2>4 DEF Covered
    <2>5. CASE r # c.id
        <3>1. InForce(r) /\ Covered(r, s, g) /\ records'[r].content = records[r].content
            BY <1>4, <2>5 DEF Held, CoverInv, InForce, Exists, Active, IsTombstoned
        <3>2. ReadFresh(r, g) => ReadFresh(r, g)'
            BY <1>1, <1>3, <2>0, <3>1 DEF ReadFresh
        <3>3. WillServe(r, s, g) => WillServe(r, s, g)'
            BY <1>5, <3>1, ServeSame
        <3> QED
            BY <2>1, <2>2, <3>1, <3>2, <3>3 DEF Covered
    <2> QED
        BY <2>4, <2>5
<1>9. LiveInv'
    BY <1>5 DEF Held, LiveInv
<1> QED
    BY <1>6, <1>7, <1>8, <1>9 DEF StillHeld

-----------------------------------------------------------------------------
(* Migrations                                                              *)

LEMMA ReadRowsServes ==
    ASSUME Held, OneMigrator, NEW t \in Threads, ReadRows(t) PROVE StillHeld
<1> DEFINE R == {<<r, records[r].content>> : r \in {x \in Ids : Exists(x)}}
           q == SetToSeq(R)
<1> PICK c : c = call[t]
    OBVIOUS
<1> DEFINE d == [c EXCEPT !.pc = "reindex", !.then = "reindex", !.rows = q]
<1>1. c \in CallRecord /\ c.pc = "read" /\ "migrate" \in Functions[t]
      /\ c.then \notin {"drain", "reindex"}
    BY TypedCall DEF Held, KindInv, Kind, ReadRows, At
<1>2. IsFiniteSet(R)
    <2>1. IsFiniteSet(Ids \X (0..MaxContent))
        <3>1. MaxContent \in Int /\ 0 \in Int /\ IsFiniteSet(Ids)
            BY GenerationsAssumption
        <3>2. IsFiniteSet(0..MaxContent)
            BY <3>1, FS_Interval
        <3> QED
            BY <3>1, <3>2, FS_Product, Zenon
    <2>2. R \subseteq Ids \X (0..MaxContent)
        BY DEF Held, CallInv, GenerationsTypeOK, StoreTypeOK, Exists, Record
    <2> QED
        BY <2>1, <2>2, FS_Subset
<1>3. \A r \in Ids : Exists(r) => <<r, records[r].content>> \in R
    OBVIOUS
<1>4. \A e \in R : e[2] = records[e[1]].content
    OBVIOUS
<1> HIDE DEF R
<1>5. q \in Seq(R) /\ \A e \in R : \E i \in DOMAIN q : q[i] = e
    BY <1>2, SetAsSequence, SequenceOfAll
<1>6. Become(t, d)
    BY DEF ReadRows, R
<1> HIDE DEF q
<1>7. d.pc = "reindex" /\ d.then = "reindex" /\ d.rows = q /\ d.generation = c.generation
    BY <1>1 DEF CallRecord
<1> HIDE DEF d
<1>8. call'[t] = d /\ Others(t)
    BY <1>6, Becomes, TypedCall DEF Held
<1>9. /\ records' = records /\ tombstones' = tombstones
      /\ stores' = stores /\ oplog' = oplog
    BY DEF ReadRows, storeVars, vectorVars
<1>m. \A s \in Stores, g \in Generations : g # c.generation => missed'[s][g] = missed[s][g]
    <2>1. missed \in [Stores -> [Generations -> SUBSET Ids]]
        BY DEF Held, CallInv, GenerationsTypeOK
    <2> QED
        BY <2>1 DEF ReadRows
<1>10. KindInv'
    <2>1. Kind(t)'
        BY <1>1, <1>7, <1>8 DEF Kind
    <2> QED
        BY <1>8, <1>9, <2>1, KindFrom DEF Held, IsTombstoned
<1>11. LogInv'
    BY <1>1, <1>8, <1>9, LogFrom DEF Held, IsTombstoned, Waits
<1>12. CoverInv'
    <2>0. \A u \in Threads : u = t \/ call'[u] = call[u]
        BY <1>8 DEF Others
    <2> SUFFICES ASSUME NEW s \in Stores, NEW g \in Generations, NEW r \in Ids \ missed'[s][g],
                        InForce(r)
                 PROVE  Covered(r, s, g)'
        BY <1>9 DEF CoverInv, InForce, Exists, Active, IsTombstoned
    <2>1. CASE g = c.generation
        <3>1. PICK i \in DOMAIN q : q[i] = <<r, records[r].content>>
            BY <1>3, <1>5 DEF InForce
        <3>2. Reindexing(r, s, g)'
            BY <1>7, <1>8, <2>1, <3>1 DEF Reindexing
        <3>3. \A u \in Threads : u = t \/ call'[u].then # "reindex"
            BY <1>1, <2>0 DEF Held, KindInv, Kind, OneMigrator
        <3>4. \A k \in DOMAIN q : q[k][2] = records[q[k][1]].content
            BY <1>4, <1>5
        <3>5. ReadFresh(r, g)'
            BY <1>7, <1>8, <1>9, <3>3, <3>4 DEF ReadFresh
        <3> QED
            BY <3>2, <3>5 DEF Covered
    <2>2. CASE g # c.generation
        <3>1. Covered(r, s, g)
            BY <1>m, <2>2 DEF Held, CoverInv
        <3>2. /\ Writing(r, s) => Writing(r, s)'
              /\ Reindexing(r, s, g) => Reindexing(r, s, g)'
              /\ ReadFresh(r, g) => ReadFresh(r, g)'
            BY <1>1, <1>7, <1>8, <1>9, <2>0, <2>2 DEF Writing, Reindexing, ReadFresh
        <3>3. WillServe(r, s, g) => WillServe(r, s, g)'
            BY <1>9, ServeSame
        <3> QED
            BY <3>1, <3>2, <3>3 DEF Covered
    <2> QED
        BY <2>1, <2>2
<1>13. LiveInv'
    BY <1>9 DEF Held, LiveInv
<1> QED
    BY <1>10, <1>11, <1>12, <1>13 DEF StillHeld

(* What a migration has still to do of a record, when it takes a step that *)
(* enqueues nothing: what it had, or the row it has just taken.            *)
TasksKept(t, r) ==
    /\ \A i \in DOMAIN call'[t].rows : \E j \in DOMAIN call[t].rows :
            call'[t].rows[i] = call[t].rows[j]
    /\ call'[t].pc = "enqueue" /\ call'[t].id = r =>
            \E j \in DOMAIN call[t].rows :
                call[t].rows[j][1] = r /\ call[t].rows[j][2] = call'[t].content
    /\ \A j \in DOMAIN call[t].rows : call[t].rows[j][1] = r =>
            \/ \E i \in DOMAIN call'[t].rows : call'[t].rows[i][1] = r
            \/ call'[t].pc = "enqueue" /\ call'[t].id = r /\ call'[t].left = StoreNames

LEMMA MigrationStep ==
    ASSUME Held, NEW t \in Threads, Others(t), call[t].then = "reindex",
           call'[t].then = "reindex", call'[t].generation = call[t].generation,
           call[t].pc # "enqueue", Kind(t)',
           UNCHANGED <<storeVars, stores, oplog, missed>>,
           Waits(t) => Waits(t)' \/ oplog = <<>>,
           \A r \in Ids : InForce(r) => TasksKept(t, r)
    PROVE  StillHeld
<1>1. /\ records' = records /\ tombstones' = tombstones /\ stores' = stores
      /\ oplog' = oplog /\ missed' = missed
    BY DEF storeVars
<1>2. KindInv'
    BY <1>1, KindFrom DEF Held, IsTombstoned
<1>3. LogInv'
    BY <1>1, LogFrom DEF Held, IsTombstoned
<1>4. CoverInv'
    <2> SUFFICES ASSUME NEW s \in Stores, NEW g \in Generations, NEW r \in Ids \ missed[s][g],
                        InForce(r)
                 PROVE  Covered(r, s, g)'
        BY <1>1 DEF CoverInv, InForce, Exists, Active, IsTombstoned
    <2>1. Covered(r, s, g) /\ TasksKept(t, r)
        BY DEF Held, CoverInv
    <2>2. \A u \in Threads : u = t \/ call'[u] = call[u]
        BY DEF Others
    <2>3. ReadFresh(r, g) => ReadFresh(r, g)'
        <3> SUFFICES ASSUME ReadFresh(r, g), NEW u \in Threads, call'[u].then = "reindex",
                            call'[u].generation = g
                     PROVE  /\ \A i \in DOMAIN call'[u].rows :
                                call'[u].rows[i][1] = r =>
                                    call'[u].rows[i][2] = records[r].content
                            /\ call'[u].pc = "enqueue" /\ call'[u].id = r =>
                                    call'[u].content = records[r].content
            BY <1>1 DEF ReadFresh
        <3>1. CASE u = t
            BY <2>1, <3>1 DEF ReadFresh, TasksKept
        <3>2. CASE u # t
            BY <2>2, <3>2 DEF ReadFresh
        <3> QED
            BY <3>1, <3>2
    <2>4. ASSUME Reindexing(r, s, g)
          PROVE  Reindexing(r, s, g)'
        <3>1. PICK u \in Threads :
                call[u].then = "reindex" /\ call[u].generation = g
                /\ \/ \E i \in DOMAIN call[u].rows : call[u].rows[i][1] = r
                   \/ call[u].pc = "enqueue" /\ call[u].id = r
                      /\ \E i \in DOMAIN call[u].left : call[u].left[i] = s
            BY <2>4 DEF Reindexing
        <3>2. CASE u # t
            BY <2>2, <3>1, <3>2 DEF Reindexing
        <3>3. CASE u = t
            <4>1. PICK j \in DOMAIN call[t].rows : call[t].rows[j][1] = r
                BY <3>1, <3>3
            <4>2. CASE \E i \in DOMAIN call'[t].rows : call'[t].rows[i][1] = r
                BY <3>1, <3>3, <4>2 DEF Reindexing
            <4>3. CASE call'[t].pc = "enqueue" /\ call'[t].id = r /\ call'[t].left = StoreNames
                BY <3>1, <3>3, <4>3, StoreOrder DEF Reindexing
            <4> QED
                BY <2>1, <4>1, <4>2, <4>3 DEF TasksKept
        <3> QED
            BY <3>2, <3>3
    <2>5. Writing(r, s) => Writing(r, s)'
        BY <2>2 DEF Writing
    <2>6. WillServe(r, s, g) => WillServe(r, s, g)'
        BY <1>1, ServeSame
    <2> QED
        BY <2>1, <2>3, <2>4, <2>5, <2>6 DEF Covered
<1>5. LiveInv'
    BY <1>1 DEF Held, LiveInv
<1> QED
    BY <1>2, <1>3, <1>4, <1>5 DEF StillHeld

LEMMA ReindexRowServes ==
    ASSUME Held, NEW t \in Threads, ReindexRow(t) PROVE StillHeld
<1> PICK c : c = call[t]
    OBVIOUS
<1> DEFINE row == Head(c.rows)
<1> PICK clear : clear = ~IsTombstoned(row[1])
    OBVIOUS
<1> DEFINE over == [c EXCEPT !.pc = "drain"]
           skipped == [c EXCEPT !.rows = Tail(@)]
           taken == [c EXCEPT !.pc = "enqueue", !.rows = Tail(@), !.id = row[1],
                              !.clear = clear, !.content = row[2], !.left = StoreNames]
<1>1. c \in CallRecord /\ c.pc = "reindex" /\ c.then = "reindex" /\ "migrate" \in Functions[t]
      /\ c.rows \in Seq(Ids \X (0..MaxContent))
    BY TypedCall DEF Held, KindInv, Kind, ReindexRow, At, CallRecord
<1>2. c.rows # <<>> =>
        /\ \A i \in DOMAIN Tail(c.rows) : \E j \in DOMAIN c.rows : Tail(c.rows)[i] = c.rows[j]
        /\ \A j \in DOMAIN c.rows :
            c.rows[j] = row \/ \E i \in DOMAIN Tail(c.rows) : Tail(c.rows)[i] = c.rows[j]
        /\ 1 \in DOMAIN c.rows /\ c.rows[1] = row
    <2> SUFFICES ASSUME c.rows # <<>>
                 PROVE  /\ \A i \in DOMAIN Tail(c.rows) : \E j \in DOMAIN c.rows :
                                Tail(c.rows)[i] = c.rows[j]
                        /\ \A j \in DOMAIN c.rows :
                            c.rows[j] = row
                            \/ \E i \in DOMAIN Tail(c.rows) : Tail(c.rows)[i] = c.rows[j]
                        /\ 1 \in DOMAIN c.rows /\ c.rows[1] = row
        OBVIOUS
    <2> DEFINE s == c.rows
               n == Len(s)
    <2>1. /\ n \in Nat /\ n >= 1 /\ DOMAIN s = 1..n /\ DOMAIN Tail(s) = 1..(n - 1)
          /\ row = s[1] /\ \A i \in 1..(n - 1) : Tail(s)[i] = s[i + 1]
        BY <1>1, LenProperties, HeadTailProperties
    <2> HIDE DEF s, n
    <2>2. \A i \in DOMAIN Tail(s) : i + 1 \in DOMAIN s /\ Tail(s)[i] = s[i + 1]
        BY <2>1
    <2>3. \A j \in DOMAIN s : s[j] = row \/ (j - 1 \in DOMAIN Tail(s) /\ Tail(s)[j - 1] = s[j])
        BY <2>1
    <2>4. 1 \in DOMAIN s
        BY <2>1
    <2> QED
        BY <2>1, <2>2, <2>3, <2>4 DEF s
<1>3. /\ UNCHANGED <<storeVars, stores, oplog, missed>>
      /\ Waits(t)
    BY <1>1 DEF ReindexRow, OnlyCall, vectorVars, historyVars, Waits
<1>4. CASE c.rows = <<>>
    <2>1. call'[t] = over /\ Others(t)
        BY <1>4, Becomes, TypedCall DEF ReindexRow, Held
    <2>2. /\ over.pc = "drain" /\ over.then = "reindex" /\ over.rows = c.rows
          /\ over.generation = c.generation
        BY <1>1 DEF CallRecord
    <2> HIDE DEF over
    <2>3. Kind(t)' /\ Waits(t)'
        BY <1>1, <1>4, <2>1, <2>2 DEF Kind, Waits
    <2>4. \A r \in Ids : TasksKept(t, r)
        BY <1>4, <2>1, <2>2 DEF TasksKept
    <2> QED
        BY <1>1, <1>3, <2>1, <2>2, <2>3, <2>4, MigrationStep
<1>5. CASE c.rows # <<>> /\ ~Reindexable(row[1])
    <2>1. call'[t] = skipped /\ Others(t)
        BY <1>5, Becomes, TypedCall DEF ReindexRow, Held
    <2>2. /\ skipped.pc = "reindex" /\ skipped.then = "reindex" /\ skipped.rows = Tail(c.rows)
          /\ skipped.generation = c.generation
        BY <1>1 DEF CallRecord
    <2> HIDE DEF skipped
    <2>3. Kind(t)' /\ Waits(t)'
        BY <1>1, <2>1, <2>2 DEF Kind, Waits
    <2>4. \A r \in Ids : InForce(r) => TasksKept(t, r)
        <3> SUFFICES ASSUME NEW r \in Ids, InForce(r) PROVE TasksKept(t, r)
            OBVIOUS
        <3>1. row[1] # r
            BY <1>5 DEF Reindexable, InForce
        <3> HIDE DEF row
        <3> QED
            BY <1>2, <1>5, <2>1, <2>2, <3>1 DEF TasksKept
    <2> QED
        BY <1>1, <1>3, <2>1, <2>2, <2>3, <2>4, MigrationStep
<1>6. CASE c.rows # <<>> /\ Reindexable(row[1])
    <2>1. call'[t] = taken /\ Others(t)
        BY <1>6, Becomes, TypedCall DEF ReindexRow, Held
    <2>2. /\ taken.pc = "enqueue" /\ taken.then = "reindex" /\ taken.rows = Tail(c.rows)
          /\ taken.generation = c.generation /\ taken.id = row[1] /\ taken.content = row[2]
          /\ taken.left = StoreNames
        BY <1>1 DEF CallRecord
    <2> HIDE DEF taken
    <2>3. Kind(t)' /\ Waits(t)'
        BY <1>1, <2>1, <2>2 DEF Kind, Waits
    <2>4. \A r \in Ids : TasksKept(t, r)
        <3> HIDE DEF row
        <3> QED
            BY <1>2, <1>6, <2>1, <2>2 DEF TasksKept
    <2> QED
        BY <1>1, <1>3, <2>1, <2>2, <2>3, <2>4, MigrationStep
<1> QED
    BY <1>4, <1>5, <1>6

(* A reindex that is over leaves nothing in the log.                       *)
LEMMA DrainReturnsServes ==
    ASSUME Held, NEW t \in Threads, DrainReturns(t) PROVE StillHeld
<1>1. /\ call[t].pc = "drain" /\ call[t].then \in {"drain", "reindex"} /\ oplog = <<>>
      /\ call[t].then = "reindex" => call[t].rows = <<>>
    BY DEF Held, KindInv, Kind, DrainReturns, Drained, At
<1>2. /\ records' = records /\ tombstones' = tombstones /\ stores' = stores
      /\ oplog' = oplog /\ missed' = missed
    BY DEF DrainReturns, OnlyCall, storeVars, vectorVars, historyVars
<1>3. call'[t] = IdleCall /\ Others(t) /\ \A u \in Threads : u = t \/ call'[u] = call[u]
    BY Becomes, TypedCall DEF DrainReturns, Held, Others
<1>4. call'[t].pc = "idle" /\ call'[t].then = "idle"
    BY <1>3 DEF IdleCall
<1>5. KindInv'
    BY <1>2, <1>3, IdleKind, KindFrom DEF Held, IsTombstoned
<1>6. LogInv'
    BY <1>1, <1>2, <1>3, LogFrom DEF Held, IsTombstoned
<1>7. LiveInv'
    BY <1>2 DEF Held, LiveInv
<1>8. CoverInv'
    <2> SUFFICES ASSUME NEW s \in Stores, NEW g \in Generations, NEW r \in Ids \ missed[s][g],
                        InForce(r)
                 PROVE  Covered(r, s, g)'
        BY <1>2 DEF CoverInv, InForce, Exists, Active, IsTombstoned
    <2>1. Covered(r, s, g)
        BY DEF Held, CoverInv
    <2>2. /\ Writing(r, s) => Writing(r, s)'
          /\ Reindexing(r, s, g) => Reindexing(r, s, g)'
          /\ ReadFresh(r, g) => ReadFresh(r, g)'
        BY <1>1, <1>2, <1>3, <1>4 DEF Writing, Reindexing, ReadFresh
    <2>3. WillServe(r, s, g) => WillServe(r, s, g)'
        BY <1>2, ServeSame
    <2> QED
        BY <2>1, <2>2, <2>3 DEF Covered
<1> QED
    BY <1>5, <1>6, <1>7, <1>8 DEF StillHeld

(* A promotion changes which generation is asked, and none of what they    *)
(* are owed.                                                               *)
LEMMA PromoteServes ==
    ASSUME Held, NEW t \in Threads, Promote(t) PROVE StillHeld
<1> PICK g \in Generations : Become(t, [IdleCall EXCEPT !.pc = "switch", !.generation = g])
    BY DEF Promote
<1> DEFINE d == [IdleCall EXCEPT !.pc = "switch", !.generation = g]
<1>1. d.pc = "switch" /\ d.then = "idle"
    BY DEF IdleCall
<1> HIDE DEF d
<1>2. call'[t] = d /\ Others(t) /\ At(t, "idle")
    BY Becomes, TypedCall DEF Promote, Held, d
<1>3. Aside(t) /\ ~Waits(t)
    BY <1>2 DEF Held, KindInv, Kind, At, Aside, Waits
<1>4. Kind(t)' /\ Aside(t)'
    BY <1>1, <1>2 DEF Kind, Aside
<1>5. RowsStay
    BY SameRowsStay DEF Promote, storeVars, IsTombstoned
<1> QED
    BY <1>2, <1>3, <1>4, <1>5, AsideStep DEF Promote, vectorVars, historyVars

LEMMA SwitchServes ==
    ASSUME Held, NEW t \in Threads, Switch(t) PROVE StillHeld
<1>1. call'[t] = IdleCall /\ Others(t) /\ At(t, "switch")
    BY Becomes, TypedCall DEF Switch, Held
<1>2. Aside(t) /\ ~Waits(t)
    BY <1>1 DEF Held, KindInv, Kind, At, Aside, Waits
<1>3. RowsStay
    BY SameRowsStay DEF Switch, storeVars, IsTombstoned
<1> QED
    BY <1>1, <1>2, <1>3, IdleKind, AsideStep DEF Switch, vectorVars, historyVars

LEMMA RestOfLeft ==
    ASSUME NEW left \in Seq(Stores), NEW s \in Stores, s # Head(left),
           \E i \in DOMAIN left : left[i] = s
    PROVE  Tail(left) # <<>> /\ \E i \in DOMAIN Tail(left) : Tail(left)[i] = s
<1>1. PICK i \in DOMAIN left : left[i] = s
    OBVIOUS
<1>2. left # <<>> /\ Len(left) \in Nat /\ DOMAIN left = 1..Len(left)
    BY <1>1, LenProperties
<1>3. /\ Tail(left) \in Seq(Stores) /\ DOMAIN Tail(left) = 1..(Len(left) - 1)
      /\ Head(left) = left[1] /\ \A k \in 1..(Len(left) - 1) : Tail(left)[k] = left[k + 1]
    BY <1>2, HeadTailProperties, LenProperties
<1>4. i - 1 \in DOMAIN Tail(left) /\ Tail(left)[i - 1] = s
    BY <1>1, <1>2, <1>3
<1> QED
    BY <1>4

(* An upsert that is enqueued is of the row as it is, or the generation is *)
(* not owed it any more, or the writer of the record is about to enqueue   *)
(* what overrides it.                                                      *)
LEMMA EnqueueUpsertServes ==
    ASSUME Held, NEW t \in Threads, EnqueueUpsert(t) PROVE StillHeld
<1> PICK c : c = call[t]
    OBVIOUS
<1> DEFINE h == Head(c.left)
           o == Op("upsert", h, c.generation, c.id, c.content)
           d == [c EXCEPT !.left = Tail(@), !.pc = IF Tail(c.left) = <<>> THEN c.then ELSE @]
<1>1. /\ c \in CallRecord /\ c.pc = "enqueue" /\ c.id \in Ids /\ c.left # <<>>
      /\ c.left \in Seq(Stores) /\ c.then \in {"drain", "reindex"}
    BY TypedCall
    DEF Held, CallInv, CallsKnowTheirRecord, EnqueueUpsert, At, KindInv, Kind, CallRecord
<1>2. h \in Stores /\ Tail(c.left) \in Seq(Stores)
    BY <1>1, HeadTailProperties
<1>3. o \in LogOp /\ o.type = "upsert" /\ o.store = h /\ o.id = c.id
      /\ o.generation = c.generation
    BY <1>1, <1>2 DEF Op, LogOp, CallRecord
<1>4. /\ d.id = c.id /\ d.left = Tail(c.left) /\ d.then = c.then /\ d.rows = c.rows
      /\ d.generation = c.generation /\ d.content = c.content
      /\ d.pc = IF Tail(c.left) = <<>> THEN c.then ELSE "enqueue"
    BY <1>1, <1>2 DEF CallRecord
<1>5. oplog' = Append(oplog, o) /\ Become(t, d)
    BY DEF EnqueueUpsert
<1>6. /\ records' = records /\ tombstones' = tombstones /\ stores' = stores
    BY DEF EnqueueUpsert, storeVars
<1>7. \A s \in Stores, g \in Generations :
        missed'[s][g] = IF s = h THEN MissedNow(c, s, g) ELSE missed[s][g]
    <2>1. missed \in [Stores -> [Generations -> SUBSET Ids]]
        BY DEF Held, CallInv, GenerationsTypeOK
    <2>2. missed' = [missed EXCEPT ![h] = [g \in Generations |-> MissedNow(c, h, g)]]
        BY DEF EnqueueUpsert, Missed
    <2> HIDE DEF h
    <2> QED
        BY <2>1, <2>2
<1> HIDE DEF d
<1>8. call'[t] = d /\ Others(t) /\ \A u \in Threads : u = t \/ call'[u] = call[u]
    BY <1>5, Becomes, TypedCall DEF Held, Others
<1>9. /\ c.then = "drain" => "write" \in Functions[t] /\ records[c.id].content = c.content
      /\ c.then = "reindex" => "migrate" \in Functions[t]
    BY <1>1 DEF Held, KindInv, Kind
<1>10. KindInv'
    <2>1. Kind(t)'
        BY <1>1, <1>4, <1>6, <1>8, <1>9 DEF Kind
    <2> QED
        BY <1>6, <1>8, <2>1, KindFrom DEF Held, IsTombstoned
<1>11. LogInv'
    <2>1. \A i \in DOMAIN oplog' : oplog'[i] = o \/ \E j \in DOMAIN oplog : oplog'[i] = oplog[j]
        <3> HIDE DEF o
        <3>1. oplog \in Seq(LogOp) /\ Len(oplog) \in Nat
            BY DEF Held, CallInv, GenerationsTypeOK
        <3> QED BY <1>3, <1>5, <3>1
    <2>2. \A i \in DOMAIN oplog' : oplog'[i].type = "remove" =>
            tombstones'[oplog'[i].id] # NoTombstone
        BY <1>3, <1>6, <2>1 DEF Held, LogInv, IsTombstoned
    <2>3. "memory" \in Stores => \A r \in stores'["memory"].deleted : IsTombstoned(r)'
        BY <1>6 DEF Held, LogInv, IsTombstoned
    <2>4. call'[t].pc \in {"enqueue", "reindex", "drain", "answer"}
        BY <1>1, <1>4, <1>8
    <2> QED
        BY <2>2, <2>3, <2>4 DEF LogInv, IsTombstoned
<1>12. CoverInv'
    <2> SUFFICES ASSUME NEW s \in Stores, NEW g \in Generations, NEW r \in Ids \ missed'[s][g],
                        InForce(r)
                 PROVE  Covered(r, s, g)'
        BY <1>6 DEF CoverInv, InForce, Exists, Active, IsTombstoned
    <2>1. ~Overrides(o, s, g, r) => (WillServe(r, s, g) => WillServe(r, s, g)')
        <3> HIDE DEF o
        <3> QED
            BY <1>3, <1>5, <1>6, ServeAppend DEF Held
    <2>2. ReadFresh(r, g) => ReadFresh(r, g)'
        <3> SUFFICES ASSUME ReadFresh(r, g), NEW u \in Threads, call'[u].then = "reindex",
                            call'[u].generation = g
                     PROVE  /\ \A i \in DOMAIN call'[u].rows :
                                call'[u].rows[i][1] = r =>
                                    call'[u].rows[i][2] = records[r].content
                            /\ call'[u].pc = "enqueue" /\ call'[u].id = r =>
                                    call'[u].content = records[r].content
            BY <1>6 DEF ReadFresh
        <3>1. CASE u # t
            BY <1>8, <3>1 DEF ReadFresh
        <3>2. CASE u = t
            <4>1. /\ \A i \in DOMAIN c.rows : c.rows[i][1] = r => c.rows[i][2] = records[r].content
                  /\ c.id = r => c.content = records[r].content
                BY <1>1, <1>4, <1>8, <3>2 DEF ReadFresh
            <4> QED
                BY <1>4, <1>8, <3>2, <4>1
        <3> QED
            BY <3>1, <3>2
    <2>3. ASSUME \E i \in DOMAIN c.left : c.left[i] = s, s # h
          PROVE  d.pc = "enqueue" /\ \E i \in DOMAIN d.left : d.left[i] = s
        <3>1. Tail(c.left) # <<>> /\ \E i \in DOMAIN Tail(c.left) : Tail(c.left)[i] = s
            BY <1>1, <2>3, RestOfLeft
        <3> QED
            BY <1>4, <3>1
    <2>4. ASSUME Writing(r, s), c.then # "drain" \/ r # c.id \/ s # h
          PROVE  Writing(r, s)'
        <3>1. PICK u \in Threads :
                call[u].pc = "enqueue" /\ call[u].then = "drain" /\ call[u].id = r
                /\ \E i \in DOMAIN call[u].left : call[u].left[i] = s
            BY <2>4 DEF Writing
        <3>2. CASE u # t
            BY <1>8, <3>1, <3>2 DEF Writing
        <3>3. CASE u = t
            BY <1>4, <1>8, <2>3, <2>4, <3>1, <3>3 DEF Writing
        <3> QED
            BY <3>2, <3>3
    <2>5. ASSUME Reindexing(r, s, g),
                 c.then # "reindex" \/ c.generation # g \/ r # c.id \/ s # h
          PROVE  Reindexing(r, s, g)'
        <3>1. PICK u \in Threads :
                call[u].then = "reindex" /\ call[u].generation = g
                /\ \/ \E i \in DOMAIN call[u].rows : call[u].rows[i][1] = r
                   \/ call[u].pc = "enqueue" /\ call[u].id = r
                      /\ \E i \in DOMAIN call[u].left : call[u].left[i] = s
            BY <2>5 DEF Reindexing
        <3>2. CASE u # t
            BY <1>8, <3>1, <3>2 DEF Reindexing
        <3>3. CASE u = t /\ \E i \in DOMAIN c.rows : c.rows[i][1] = r
            BY <1>4, <1>8, <3>1, <3>3 DEF Reindexing
        <3>4. CASE u = t /\ c.id = r /\ \E i \in DOMAIN c.left : c.left[i] = s
            BY <1>4, <1>8, <2>3, <2>5, <3>1, <3>4 DEF Reindexing
        <3> QED
            BY <3>1, <3>2, <3>3, <3>4
    <2>6. CASE r # c.id \/ s # h
        <3>1. r \notin missed[s][g]
            BY <1>7, <2>6 DEF MissedNow
        <3>2. Covered(r, s, g) /\ ~Overrides(o, s, g, r)
            BY <1>3, <2>6, <3>1 DEF Held, CoverInv, Overrides
        <3> QED
            BY <2>1, <2>2, <2>4, <2>5, <2>6, <3>2 DEF Covered
    <2>7. CASE r = c.id /\ s = h /\ c.generation # g
        <3>1. c.then # "drain" /\ s # "zvec" /\ r \notin missed[s][g]
            BY <1>7, <2>7 DEF MissedNow
        <3>2. Covered(r, s, g) /\ ~Overrides(o, s, g, r)
            BY <1>3, <2>7, <3>1 DEF Held, CoverInv, Overrides
        <3> QED
            BY <2>1, <2>2, <2>4, <2>5, <2>7, <3>1, <3>2 DEF Covered
    <2>8. CASE r = c.id /\ s = h /\ c.generation = g
        <3>1. c.content = records[r].content => WillServe(r, s, g)'
            <4>1. c.content = records[r].content => o = Op("upsert", s, g, r, records[r].content)
                BY <2>8
            <4> HIDE DEF o
            <4> QED
                BY <1>3, <1>5, <1>6, <4>1, ServeAppend DEF Held
        <3>2. CASE c.then = "drain"
            <4>1. ~ReindexedInto(g)
                <5>1. r \notin MissedNow(c, s, g)
                    BY <1>7, <2>8
                <5>2. ReindexedInto(g) => MissedNow(c, s, g) = missed[s][g] \cup {r}
                    BY <2>8, <3>2 DEF MissedNow
                <5> QED
                    BY <5>1, <5>2
            <4>2. ReadFresh(r, g)
                BY <4>1 DEF ReadFresh, ReindexedInto
            <4> QED
                BY <1>9, <2>2, <2>8, <3>1, <3>2, <4>2 DEF Covered
        <3>3. CASE c.then = "reindex"
            <4>1. Covered(r, s, g)
                BY <1>7, <2>8, <3>3 DEF MissedNow, Held, CoverInv
            <4>2. CASE Writing(r, s)
                BY <2>4, <3>3, <4>2 DEF Covered
            <4>3. CASE ReadFresh(r, g)
                <5>1. c.content = records[r].content
                    BY <1>1, <2>8, <3>3, <4>3 DEF ReadFresh
                <5> QED
                    BY <2>2, <3>1, <4>3, <5>1 DEF Covered
            <4> QED
                BY <4>1, <4>2, <4>3 DEF Covered
        <3> QED
            BY <1>1, <3>2, <3>3
    <2> QED
        BY <2>6, <2>7, <2>8
<1>13. LiveInv'
    BY <1>6 DEF Held, LiveInv
<1> QED
    BY <1>10, <1>11, <1>12, <1>13 DEF StillHeld

-----------------------------------------------------------------------------

LEMMA ServingInit == GenerationsInit => ServingInv
<1> SUFFICES ASSUME GenerationsInit PROVE ServingInv
    OBVIOUS
<1>1. CallInv
    BY CallTypeInit
<1>2. /\ \A t \in Threads : call[t] = IdleCall
      /\ oplog = <<>> /\ FirstGeneration \in Generations
      /\ tombstones = [r \in Ids |-> NoTombstone] /\ Existing \subseteq Ids
      /\ \A s \in Stores : stores[s] = Indexed(s)
    BY GenerationsAssumption DEF GenerationsInit
<1>3. KindInv
    BY <1>2 DEF KindInv, Kind, IdleCall
<1>4. LogInv
    <2>1. ASSUME "memory" \in Stores
          PROVE  stores["memory"].deleted = {}
        <3>1. stores["memory"] = Indexed("memory")
            BY <1>2, <2>1
        <3>2. Indexed("memory").deleted = {}
            BY DEF Indexed
        <3> QED
            BY <3>1, <3>2
    <2> QED
        BY <1>2, <2>1 DEF LogInv
<1>5. CoverInv
    <2> SUFFICES ASSUME NEW s \in Stores, NEW g \in Generations, NEW r \in Ids \ missed[s][g],
                        InForce(r)
                 PROVE  Covered(r, s, g)
        BY DEF CoverInv
    <2>1. r \in Existing /\ records[r].content = 0 /\ g = FirstGeneration
        BY DEF GenerationsInit, InForce, Exists
    <2>2. \A t \in Threads : call[t].then = "idle"
        BY <1>2 DEF IdleCall
    <2>3. ReadFresh(r, g)
        BY <2>2 DEF ReadFresh
    <2>4. Entry(s, stores[s], g, r) = 0
        <3> DEFINE vectors == [q \in Ids |-> IF q \in Existing THEN 0 ELSE NoEntry]
        <3>1. vectors[r] = 0
            BY <2>1
        <3>2. ASSUME "memory" \in Stores
              PROVE  Entry("memory", stores["memory"], FirstGeneration, r) = 0
            <4>1. stores["memory"] =
                    [vectors |-> [NoVectors EXCEPT ![FirstGeneration] = vectors], deleted |-> {}]
                BY <1>2, <3>2 DEF Indexed
            <4> HIDE DEF vectors
            <4>2. stores["memory"].vectors[FirstGeneration] = vectors
                BY <1>2, <4>1 DEF NoVectors
            <4> QED
                BY <3>1, <4>1, <4>2 DEF Entry
        <3>3. ASSUME "zvec" \in Stores
              PROVE  Entry("zvec", stores["zvec"], FirstGeneration, r) = 0
            <4>1. stores["zvec"] = [q \in Ids |-> IF q \in Existing
                                        THEN [generation |-> FirstGeneration, content |-> 0]
                                        ELSE NoDocument]
                BY <1>2, <3>3 DEF Indexed
            <4>2. stores["zvec"][r] = [generation |-> FirstGeneration, content |-> 0]
                BY <2>1, <4>1
            <4> QED
                BY <4>2 DEF Entry
        <3>4. ASSUME "turbovec" \in Stores
              PROVE  Entry("turbovec", stores["turbovec"], FirstGeneration, r) = 0
            <4>1. stores["turbovec"] =
                    [Loaded(NoVectors) EXCEPT ![FirstGeneration] =
                        [index |-> vectors, live |-> Existing]]
                BY <1>2, <3>4 DEF Indexed
            <4> HIDE DEF vectors
            <4>2. stores["turbovec"][FirstGeneration] = [index |-> vectors, live |-> Existing]
                BY <1>2, <4>1 DEF Loaded
            <4> QED
                BY <2>1, <3>1, <4>2 DEF Entry
        <3> QED
            BY <2>1, <3>2, <3>3, <3>4, VectorAssumption
    <2>5. WillServe(r, s, g)
        BY <1>2, <2>1, <2>4 DEF WillServe
    <2> QED
        BY <2>3, <2>5 DEF Covered
<1>6. LiveInv
    <2> SUFFICES ASSUME "turbovec" \in Stores, NEW g \in Generations
                 PROVE  stores["turbovec"][g].live
                            = {r \in Ids : stores["turbovec"][g].index[r] # NoEntry}
        BY DEF LiveInv
    <2> DEFINE vectors == [q \in Ids |-> IF q \in Existing THEN 0 ELSE NoEntry]
    <2>1. Existing = {r \in Ids : vectors[r] # NoEntry}
        BY <1>2 DEF NoEntry
    <2>2. stores["turbovec"] = [Loaded(NoVectors) EXCEPT ![FirstGeneration] =
                                    [index |-> vectors, live |-> Existing]]
        BY <1>2 DEF Indexed
    <2> HIDE DEF vectors
    <2>3. CASE g = FirstGeneration
        <3>1. stores["turbovec"][g] = [index |-> vectors, live |-> Existing]
            BY <1>2, <2>2, <2>3 DEF Loaded
        <3> QED
            BY <2>1, <3>1
    <2>4. CASE g # FirstGeneration
        <3>1. stores["turbovec"][g] = Loaded(NoVectors)[g]
            BY <2>2, <2>4 DEF Loaded
        <3> QED
            BY <3>1 DEF Loaded, NoVectors
    <2> QED
        BY <2>3, <2>4
<1> QED
    BY <1>1, <1>3, <1>4, <1>5, <1>6 DEF ServingInv

LEMMA ServingStep ==
    ASSUME OneWriter, OneMigrator
    PROVE  ServingInv /\ [GenerationsNext]_generationsVars => ServingInv'
<1> SUFFICES ASSUME ServingInv, [GenerationsNext]_generationsVars PROVE ServingInv'
    OBVIOUS
<1>1. CallInv'
    BY CallTypeStep DEF ServingInv
<1>2. CASE UNCHANGED generationsVars
    <2>1. UNCHANGED <<records, tombstones, stores, oplog, call, restarts, missed>>
        BY <1>2 DEF generationsVars, storeVars, vectorVars, countVars, historyVars
    <2>2. restarts' = 0 => KindInv /\ LogInv /\ LiveInv /\ CoverInv
        BY <2>1 DEF ServingInv
    <2>3. KindInv => KindInv'
        BY <2>1 DEF KindInv, Kind, IsTombstoned
    <2>4. LogInv => LogInv'
        BY <2>1 DEF LogInv, IsTombstoned
    <2>5. CoverInv => CoverInv'
        BY <2>1 DEF CoverInv, InForce, Exists, Active, IsTombstoned, Covered, Writing, ReadFresh,
                    Reindexing, WillServe
    <2>6. LiveInv => LiveInv'
        BY <2>1 DEF LiveInv
    <2> QED
        BY <1>1, <2>2, <2>3, <2>4, <2>5, <2>6 DEF ServingInv
<1>3. CASE Restart
    <2>1. restarts' # 0
        BY <1>3 DEF Restart, ServingInv, CallInv, GenerationsTypeOK
    <2> QED
        BY <1>1, <2>1 DEF ServingInv
<1>4. ASSUME restarts' = 0, restarts = 0, (\E t \in Threads : HostStep(t)) \/ ApplyNext
      PROVE  StillHeld
    <2>1. Held
        BY <1>4 DEF ServingInv, Held
    <2>2. CASE ApplyNext
        BY <2>1, <2>2, ApplyNextServes
    <2>3. ASSUME NEW t \in Threads, HostStep(t)
          PROVE  StillHeld
        <3>1. CASE BeginWrite(t) \/ StoreRow(t) \/ EnqueueUpsert(t) \/ DrainReturns(t)
            BY <2>1, <3>1, BeginWriteServes, StoreRowServes, EnqueueUpsertServes,
               DrainReturnsServes
        <3>2. CASE \/ BeginDelete(t) \/ TombstoneRecord(t) \/ EnqueueRemoval(t)
                   \/ Answer(t) \/ Verify(t)
            BY <2>1, <3>2, BeginDeleteServes, TombstoneRecordServes, EnqueueRemovalServes,
               AnswerServes, VerifyServes
        <3>3. CASE \/ BeginMigration(t) \/ ReadRows(t) \/ ReindexRow(t) \/ Promote(t)
                   \/ Switch(t)
            BY <2>1, <3>3, BeginMigrationServes, ReadRowsServes, ReindexRowServes,
               PromoteServes, SwitchServes
        <3>4. CASE Compact(t) \/ PurgeGeneration(t) \/ Persist(t)
            BY <2>1, <3>4, CompactServes, PurgeGenerationServes, PersistServes
        <3> QED
            BY <2>3, <3>1, <3>2, <3>3, <3>4 DEF HostStep
    <2> QED
        BY <1>4, <2>2, <2>3
<1>5. CASE (\E t \in Threads : HostStep(t)) \/ ApplyNext
    <2>1. restarts' = restarts
        BY <1>5 DEF HostStep, ApplyNext, BeginWrite, StoreRow, EnqueueUpsert, DrainReturns,
            BeginDelete, TombstoneRecord, EnqueueRemoval, Answer, Verify, BeginMigration,
            ReadRows, ReindexRow, Promote, Switch, Compact, PurgeGeneration, Persist, Begin,
            Maintain, countVars
    <2> QED
        BY <1>1, <1>4, <1>5, <2>1 DEF ServingInv, StillHeld
<1> QED
    BY <1>2, <1>3, <1>5 DEF GenerationsNext

(* A search of a store that was not reopened answers with all entries: of  *)
(* the archive it asks for as many as there are.                           *)
LEMMA AllAreFound ==
    ASSUME CallInv, LiveInv, NEW s \in Stores, NEW g \in Generations,
           NEW answer \in Found(s, stores[s], g)
    PROVE  answer = Entries(s, stores[s], g)
<1>1. CASE s # "turbovec"
    BY <1>1 DEF Found
<1>2. CASE s = "turbovec"
    <2> DEFINE E == Entries(s, stores[s], g)
    <2>1. stores[s][g].live = E
        BY <1>2 DEF LiveInv, Entries, Entry
    <2>2. answer \in SUBSET E /\ Cardinality(answer) = Cardinality(E)
        BY <1>2, <2>1 DEF Found, kSubset
    <2>3. IsFiniteSet(E)
        BY GenerationsAssumption, FS_Subset DEF Entries
    <2> QED
        BY <2>2, <2>3, FS_Subset
<1> QED
    BY <1>1, <1>2

LEMMA ServesAtRest == ServingInv => ActiveGenerationServes
<1> SUFFICES ASSUME ServingInv, AtRest, restarts = 0,
                    NEW s \in Stores, NEW r \in Ids \ missed[s][active], InForce(r)
             PROVE  /\ Entry(s, stores[s], active, r) = records[r].content
                    /\ \A answer \in Found(s, stores[s], active) : r \in answer
    BY DEF ActiveGenerationServes
<1>1. \A t \in Threads : call[t].pc = "idle" /\ call[t].then # "reindex"
    BY DEF ServingInv, KindInv, Kind, AtRest, At
<1>2. oplog = <<>> /\ active \in Generations /\ CallInv /\ LiveInv
    BY <1>1 DEF ServingInv, LogInv, CallInv, GenerationsTypeOK
<1>3. ~Writing(r, s) /\ ~Reindexing(r, s, active)
    BY <1>1 DEF Writing, Reindexing
<1>4. WillServe(r, s, active)
    BY <1>2, <1>3 DEF ServingInv, CoverInv, Covered
<1>5. Entry(s, stores[s], active, r) = records[r].content
    BY <1>2, <1>4 DEF WillServe
<1>6. records[r].content # NoEntry
    <2>1. records[r].content \in 0..MaxContent
        BY <1>2 DEF InForce, Exists, CallInv, GenerationsTypeOK, StoreTypeOK, Record
    <2> QED
        BY <2>1, GenerationsAssumption DEF NoEntry
<1>7. r \in Entries(s, stores[s], active)
    BY <1>5, <1>6 DEF Entries
<1> QED
    BY <1>2, <1>5, <1>7, AllAreFound

(* Of a host that lets one thread write and one migrate: whatever was      *)
(* written, deleted, migrated, promoted or not, compacted and purged       *)
(* before, at rest every search of every store finds the current content   *)
(* of every record in force that the generation recall asks for is owed:   *)
(* reindex_into reads the rows before it writes them, and every call waits *)
(* for the log, so no older operation is left to undo it.                  *)
THEOREM ActiveServes ==
    ASSUME OneWriter, OneMigrator
    PROVE  GenerationsSpec => []ActiveGenerationServes
<1>1. GenerationsInit => ServingInv
    BY ServingInit
<1>2. ServingInv /\ [GenerationsNext]_generationsVars => ServingInv'
    BY ServingStep
<1>3. ServingInv => ActiveGenerationServes
    BY ServesAtRest
<1> QED
    BY <1>1, <1>2, <1>3, PTL DEF GenerationsSpec
=============================================================================
