---------------------------- MODULE MCReflection ----------------------------
(* Instances of Reflection for TLC.                                        *)
EXTENDS Reflection

CONSTANTS t1, t2

FactKind == [type |-> "fact", tier |-> "L1", subtype |-> "none"]

(* Records 1 to 3 are facts; the fourth, if any, is a reflection.          *)
Kinds == [r \in Ids |-> IF r <= 3 THEN FactKind ELSE [FactKind EXCEPT !.type = "reflection"]]

Normal == [r \in Ids |-> 0]
Always == [r \in Ids |-> 0]

(* The reflection is valid until the second of the two instants.           *)
Expiring == [r \in Ids |-> IF r <= 3 THEN 2 ELSE 1]

(* All texts are near-duplicates of one another and equally long; only     *)
(* equal ones are so alike that diversity drops one.                       *)
AllSimilar == (0..MaxContent) \X (0..MaxContent)
SameText == {<<c, c>> : c \in 0..MaxContent}
OneLength == [c \in 0..MaxContent |-> 1]

SmallBudget == [c \in Categories \ {"policy_flags"} |-> 1]

NoEdges == {}
Chain == {<<2, 1>>, <<3, 2>>, <<4, 3>>} \cap (Ids \X Ids)
Contradiction == {<<1, 3, "contradicts">>}

ThreadSymmetry == Permutations({t1, t2})
=============================================================================
