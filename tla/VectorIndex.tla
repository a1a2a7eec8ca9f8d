---------------------------- MODULE VectorIndex ----------------------------
(***************************************************************************)
(* What a vector store on disk promises (strata/vector/base.py), said      *)
(* without how it keeps its vectors: embedding generations live side by    *)
(* side, an upsert changes what one of them holds of one record, a removal *)
(* takes a record out of all of them, the generation in use is never       *)
(* dropped, and a store that is opened again holds what it last saved.     *)
(* Of what is held a search may leave something out.                       *)
(***************************************************************************)
EXTENDS Integers

CONSTANTS
    Ids,            \* record ids
    Generations,    \* embedding generations
    MaxContent      \* bound: versions of a record's content

VARIABLES
    held,           \* per generation and id: the content, or Nothing
    saved,          \* what of it is on disk
    inUse           \* the generation searches ask for

Nothing == -1

Empty == [r \in Ids |-> Nothing]

Holdings == [Generations -> [Ids -> 0..MaxContent \cup {Nothing}]]

(* A store may be opened on what it held before.                           *)
Init ==
    /\ held \in Holdings /\ saved \in Holdings
    /\ inUse \in Generations

Upsert ==
    /\ \E g \in Generations, r \in Ids, c \in 0..MaxContent :
        held' = [held EXCEPT ![g][r] = c]
    /\ UNCHANGED <<saved, inUse>>

Remove ==
    /\ \E r \in Ids : held' = [g \in Generations |-> [held[g] EXCEPT ![r] = Nothing]]
    /\ UNCHANGED <<saved, inUse>>

(* Dropped on disk as well: it does not come back.                         *)
DropGeneration ==
    /\ \E g \in Generations \ {inUse} :
        held' = [held EXCEPT ![g] = Empty] /\ saved' = [saved EXCEPT ![g] = Empty]
    /\ UNCHANGED inUse

UseGeneration == inUse' \in Generations /\ UNCHANGED <<held, saved>>

Save == saved' = held /\ UNCHANGED <<held, inUse>>

Reopen ==
    /\ held' = saved
    /\ inUse' \in Generations
    /\ UNCHANGED saved

Next == Upsert \/ Remove \/ DropGeneration \/ UseGeneration \/ Save \/ Reopen

Spec == Init /\ [][Next]_<<held, saved, inUse>>

=============================================================================
