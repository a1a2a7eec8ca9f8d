---------------------------- MODULE VectorStores ----------------------------
(***************************************************************************)
(* The three vector stores (strata/vector) as data: what their methods make*)
(* of the state of a store, and what a search can find in it.              *)
(*                                                                         *)
(*   memory    vectors by id and generation, and one set of soft-deleted   *)
(*             ids for all generations; lost with the process.             *)
(*   zvec      one document per id, with the generation as a field of it;  *)
(*             flushed by every call.                                      *)
(*   turbovec  an index per generation, and beside it the set of live ids  *)
(*             by whose number a search is cut off; on disk only as last   *)
(*             persisted.                                                  *)
(*                                                                         *)
(* A vector is the content version it was embedded from.  The libraries    *)
(* zvec and turbovec are taken to do what the adapters ask of them.        *)
(***************************************************************************)
EXTENDS CanonicalStore, FiniteSetsExt

CONSTANTS
    Generations,    \* embedding generations
    Stores          \* names of the stores of the engine

ASSUME VectorAssumption == Stores \subseteq {"memory", "zvec", "turbovec"}

NoEntry == -1

Contents == 0..MaxContent \cup {NoEntry}

NoVectors == [g \in Generations |-> [r \in Ids |-> NoEntry]]

NoDocument == [generation |-> NoEntry, content |-> NoEntry]

MemoryState == [vectors : [Generations -> [Ids -> Contents]], deleted : SUBSET Ids]

ZvecState == [Ids -> [generation : Generations, content : 0..MaxContent] \cup {NoDocument}]

TurbovecState == [Generations -> [index : [Ids -> Contents], live : SUBSET Ids]]

(* Live ids are indexed: a search asks for as many results as there are.   *)
StoreStateOK(s, x) ==
    CASE s = "memory" -> x \in MemoryState
      [] s = "zvec" -> x \in ZvecState
      [] s = "turbovec" ->
            x \in TurbovecState
            /\ \A g \in Generations : \A r \in x[g].live : x[g].index[r] # NoEntry

-----------------------------------------------------------------------------
(* The stores as they are opened: the second one on what it left on disk   *)

(* _load_existing starts with no live ids, whatever the files hold.        *)
Loaded(files) == [g \in Generations |-> [index |-> files[g], live |-> {}]]

EmptyStore(s) ==
    CASE s = "memory" -> [vectors |-> NoVectors, deleted |-> {}]
      [] s = "zvec" -> [r \in Ids |-> NoDocument]
      [] s = "turbovec" -> Loaded(NoVectors)

Reopened(s, x, files) ==
    CASE s = "memory" -> EmptyStore(s)
      [] s = "zvec" -> x
      [] s = "turbovec" -> Loaded(files)

-----------------------------------------------------------------------------
(* upsert, for one record, and remove                                      *)

(* An upsert into the memory store clears the soft delete of the id, that  *)
(* of its vectors of other generations too.                                *)
Upserted(s, x, g, r, c) ==
    CASE s = "memory" -> [x EXCEPT !.vectors[g][r] = c, !.deleted = @ \ {r}]
      [] s = "zvec" -> [x EXCEPT ![r] = [generation |-> g, content |-> c]]
      [] s = "turbovec" -> [x EXCEPT ![g].index[r] = c, ![g].live = @ \cup {r}]

Holds(y, r) == y.index[r] # NoEntry

(* Mutated form of Dropped: the id stays live.                             *)
DroppedFromIndex(y, r) == [y EXCEPT !.index[r] = NoEntry]

Dropped(y, r) == IF Holds(y, r) THEN [index |-> [y.index EXCEPT ![r] = NoEntry],
                                      live |-> y.live \ {r}]
                 ELSE y

(* Mutated form of InNoGeneration: the loop ends at the first generation   *)
(* that holds the id.                                                      *)
NotInFirst(x, r) ==
    [g \in Generations |-> IF \E h \in Generations : h < g /\ Holds(x[h], r) THEN x[g]
                           ELSE Dropped(x[g], r)]

InNoGeneration(x, r) == [g \in Generations |-> Dropped(x[g], r)]

RemovedFrom(s, x, r) ==
    CASE s = "memory" -> [x EXCEPT !.deleted = @ \cup {r}]
      [] s = "zvec" -> [x EXCEPT ![r] = NoDocument]
      [] s = "turbovec" -> InNoGeneration(x, r)

-----------------------------------------------------------------------------
(* contains, and what a search of a generation may find                    *)

ContainsId(s, x, r) ==
    CASE s = "memory" -> r \notin x.deleted /\ \E g \in Generations : x.vectors[g][r] # NoEntry
      [] s = "zvec" -> x[r] # NoDocument
      [] s = "turbovec" -> \E g \in Generations : Holds(x[g], r)

(* The content a generation of a store can answer with for a record.       *)
Entry(s, x, g, r) ==
    CASE s = "memory" -> IF r \in x.deleted THEN NoEntry ELSE x.vectors[g][r]
      [] s = "zvec" -> IF x[r].generation = g THEN x[r].content ELSE NoEntry
      [] s = "turbovec" -> x[g].index[r]

Entries(s, x, g) == {r \in Ids : Entry(s, x, g, r) # NoEntry}

(* What a search that asks for as many as there are may answer: all        *)
(* entries, or of the archive as many as are live, whichever are nearest.  *)
Found(s, x, g) ==
    IF s = "turbovec" THEN kSubset(Cardinality(x[g].live), Entries(s, x, g))
    ELSE {Entries(s, x, g)}

-----------------------------------------------------------------------------
(* Maintenance                                                             *)

(* purge_deleted of the memory store.  An id soft-deleted without a vector *)
(* stays in the set.                                                       *)
Compacted(x) ==
    LET gone == {r \in x.deleted : \E g \in Generations : x.vectors[g][r] # NoEntry}
    IN [vectors |-> [g \in Generations |->
                        [r \in Ids |-> IF r \in x.deleted THEN NoEntry ELSE x.vectors[g][r]]],
        deleted |-> x.deleted \ gone]

(* purge_generation of the archive; its file goes with it.                 *)
WithoutGeneration(x, g) == [x EXCEPT ![g] = Loaded(NoVectors)[g]]

=============================================================================
