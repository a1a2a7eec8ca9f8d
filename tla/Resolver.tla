------------------------------ MODULE Resolver ------------------------------
(***************************************************************************)
(* The resolver (strata/resolver) and the policy that filters for it: from *)
(* the hits of a recall to its belief bundle, as operators over the        *)
(* canonical store.                                                        *)
(*                                                                         *)
(* A hit is an id with the content version the index believes, or NoHash   *)
(* from an index that stores no hash.  Of the ranking only the weight of   *)
(* the status is kept: confidence, recency, score and evidence may order   *)
(* records of one weight in any way, so a recall has one possible bundle   *)
(* for every such order.                                                   *)
(***************************************************************************)
EXTENDS CanonicalStore, SequencesExt

CONSTANTS
    Kind,           \* per id: record type, tier and subtype
    Sensitivity,    \* per id: 0 (normal) to 3 (secret)
    RecallMax,      \* recall_max of the policy
    ValidFrom,      \* per id: start of the validity window
    ValidUntil,     \* per id: its end, itself outside
    Alike,          \* pairs of contents diversity takes for the same
    Budget          \* per category that has one: how many entries it may have

Categories ==
    {"current_beliefs", "recent_context", "interaction_guidance", "open_conflicts",
     "hypotheses", "policy_flags"}

ASSUME ResolverAssumption ==
    /\ \A r \in Ids :
        /\ DOMAIN Kind[r] = {"type", "tier", "subtype"}
        /\ Sensitivity[r] \in 0..3
        /\ ValidFrom[r] \in Nat /\ ValidUntil[r] \in Nat
    /\ RecallMax \in 0..3
    /\ Alike \subseteq (0..MaxContent) \X (0..MaxContent)
    /\ DOMAIN Budget \subseteq Categories
    /\ \A c \in DOMAIN Budget : Budget[c] \in Nat

NoHash == -1

(* The elements of a sequence that are in the set S, in their order.       *)
(* SelectSeq would do, but is built into the prover without its meaning.   *)
Only(s, S) == FoldLeft(LAMBDA kept, x : IF x \in S THEN Append(kept, x) ELSE kept, <<>>, s)

-----------------------------------------------------------------------------
(* Merging and hydration                                                   *)

(* The hashes the hits of a record carry; duplicates of a hit merge.       *)
Hashes(hits, r) == {h[2] : h \in {x \in hits : x[1] = r /\ x[2] # NoHash}}

CanRecall(r) == Sensitivity[r] <= RecallMax

TimeValid(r, now) == ValidFrom[r] <= now /\ now < ValidUntil[r]

(* A hit is dropped without a row, tombstoned, when every hash it carries  *)
(* has drifted, outside its window, or by the policy.                      *)
Hydrated(hits, r, now) ==
    /\ \E h \in hits : h[1] = r
    /\ Exists(r)
    /\ ~IsTombstoned(r)
    /\ Hashes(hits, r) # {} => records[r].content \in Hashes(hits, r)
    /\ TimeValid(r, now)
    /\ CanRecall(r)

Survivors(hits, now) == {r \in Ids : Hydrated(hits, r, now)}

-----------------------------------------------------------------------------
(* Ranking and routing                                                     *)

StatusWeight(r) ==
    IF records[r].status = "reinforced" THEN 2 ELSE IF records[r].status = "active" THEN 1 ELSE 0

(* The orders the sort may give: never a lighter status before a heavier.  *)
Rankings(S) ==
    {q \in SetToSeqs(S) :
        \A i, j \in DOMAIN q : i < j => StatusWeight(q[i]) >= StatusWeight(q[j])}

AlikeRecords(r, s) == <<records[r].content, records[s].content>> \in Alike

(* diversify: drops a record that is like one kept before it.              *)
Diversified(q) ==
    FoldLeft(LAMBDA kept, r : IF \E i \in DOMAIN kept : AlikeRecords(kept[i], r) THEN kept
                              ELSE Append(kept, r),
             <<>>, q)

CurrentTruth(r) == Active(r) /\ ~SupersededByActive(r)

Disputed(r) == \E x \in ContradictorIds(r) : InForce(x)

(* _category_for, for a record that is current truth.                      *)
CategoryFor(r) ==
    IF \/ Kind[r].subtype = "interaction_guidance"
       \/ Kind[r].tier = "L3" /\ Kind[r].subtype = "guidance"
    THEN "interaction_guidance"
    ELSE IF Kind[r].tier \in {"L0", "L2"} \/ Kind[r].type = "episode"
    THEN "recent_context"
    ELSE "current_beliefs"

(* Where the loop of _build_bundle puts a record.  Reflections, guardrails *)
(* and L4 records are placed whatever their status.                        *)
Placement(r) ==
    IF Kind[r].type = "reflection" THEN "hypotheses"
    ELSE IF Kind[r].type = "guardrail" \/ Kind[r].tier = "L4" THEN "policy_flags"
    ELSE IF ~CurrentTruth(r) THEN "dropped"
    ELSE IF Disputed(r) THEN "open_conflicts"
    ELSE CategoryFor(r)

Trimmed(c, q) ==
    IF c \in DOMAIN Budget /\ Len(q) > Budget[c] THEN SubSeq(q, 1, Budget[c]) ELSE q

BundleOf(ranked, diversity) ==
    LET kept == IF diversity THEN Diversified(ranked) ELSE ranked
    IN [c \in Categories |->
            Trimmed(c, Only(kept, {r \in Range(kept) : Placement(r) = c}))]

(* resolve: the bundles a recall with these hits may return.               *)
Bundles(hits, now, diversity) ==
    {BundleOf(q, diversity) : q \in Rankings(Survivors(hits, now))}

Entries(bundle, c) == Range(bundle[c])

AllEntries(bundle) == UNION {Entries(bundle, c) : c \in Categories}

-----------------------------------------------------------------------------
(* What a bundle must be, said without the pipeline                        *)

(* Hydration sufficiency and resolver supremacy: everything in a bundle    *)
(* has a live row some index agrees with; no two beliefs contradict each   *)
(* other, no entry of a truth category has a superseder in force or is a   *)
(* reflection, and no belief is contradicted by a record in force, whether *)
(* that record was retrieved or not.                                       *)
SoundBundle(bundle, hits) ==
    LET truth == UNION {Entries(bundle, c) : c \in Categories \ {"hypotheses", "policy_flags"}}
    IN /\ \A r \in AllEntries(bundle) :
            /\ Exists(r) /\ tombstones[r] = NoTombstone
            /\ \E h \in hits : h[1] = r /\ h[2] \in {NoHash, records[r].content}
       /\ \A r \in truth :
            /\ Kind[r].type # "reflection"
            /\ \A s \in Ids : <<s, r, "supersedes">> \in dependencies => ~InForce(s)
       /\ \A r \in Entries(bundle, "current_beliefs"), s \in Ids :
            InForce(s) => {<<r, s, "contradicts">>, <<s, r, "contradicts">>} \cap dependencies = {}

(* Completeness: without diversity a retrieved record that is in force,    *)
(* permitted, valid and not superseded by one in force is in the bundle if *)
(* some hit has its content or no hit of it has a hash, or its category is *)
(* full of records of no lighter status.                                   *)
CompleteBundle(bundle, hits, now) ==
    \A r \in {h[1] : h \in hits} :
        /\ InForce(r) /\ CanRecall(r) /\ TimeValid(r, now)
        /\ \/ <<r, records[r].content>> \in hits
           \/ \A h \in hits : h[1] = r => h[2] = NoHash
        /\ \A s \in Ids : <<s, r, "supersedes">> \in dependencies => ~InForce(s)
        => \/ r \in AllEntries(bundle)
           \/ \E c \in DOMAIN Budget \cap {Placement(r)} :
                /\ Len(bundle[c]) = Budget[c]
                /\ \A s \in Entries(bundle, c) : StatusWeight(s) >= StatusWeight(r)

=============================================================================
