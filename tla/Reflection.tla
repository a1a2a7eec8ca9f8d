----------------------------- MODULE Reflection -----------------------------
(***************************************************************************)
(* Background reflection (strata/reflection): consolidation of duplicate   *)
(* facts and the contradiction audit, whose proposals are applied at once  *)
(* or wait for a review, beside hosts that write, patch and delete the     *)
(* records they name.                                                      *)
(*                                                                         *)
(* A proposal keeps the ids it was made for; a call keeps the rows it has  *)
(* read.  Every commit of a merge and of a deletion is a step of its own.  *)
(* The managed surfaces appear as one index with the content each id was   *)
(* last indexed with (DeletionService and MemoryEngine model what lies     *)
(* between a surface and its purge).  Proposals are in memory and no       *)
(* managed surface: MemoryEngine registers none.                           *)
(***************************************************************************)
EXTENDS Resolver

CONSTANTS
    Threads,            \* threads of the host and of the reflection job
    Existing,           \* records written before the initial state
    InitialEdges,       \* dependency edges between them
    Functions,          \* what the threads call
    PatchStatuses,      \* statuses a host sets
    DeletionModes,      \* modes a host deletes in
    Similar,            \* pairs of contents that cluster_l1 takes for related
    Length,             \* per content: the length of its text
    ReflectionMax,      \* reflection_max of the policy
    Links,              \* bound: pairs of records a host links
    MaxCalls            \* bound: calls

ASSUME ReflectionAssumption ==
    /\ IsFiniteSet(Ids) /\ MaxContent \in Nat
    /\ Existing \subseteq Ids
    /\ InitialEdges \subseteq Existing \X Existing \X Relations
    /\ Functions \subseteq {"consolidate", "audit", "apply", "reject", "patch", "update",
                            "write", "link", "delete"}
    /\ PatchStatuses \subseteq Statuses /\ DeletionModes \subseteq Modes
    /\ Similar \subseteq (0..MaxContent) \X (0..MaxContent)
    /\ \A c \in 0..MaxContent : Length[c] \in Nat
    /\ ReflectionMax \in 0..3
    /\ Links \subseteq Ids \X Ids
    /\ Threads \subseteq Jobs /\ MaxCalls \in Nat

VARIABLES
    index,          \* per id: the content the surfaces answer with
    recent,         \* ids with a row, by updated_at, the latest first
    proposals,      \* the proposals, in the order they were added
    call,           \* per thread: the call it is in
    calls,          \* bound counter
    late            \* history: edges added beside a deletion or to a deleted record

reflectionVars == <<storeVars, index, recent, proposals, call, calls, late>>

NoEntry == -1

ProposalStates == {"proposed", "user_review_required", "rejected", "applied"}

(* records: the primary and its duplicates, or two records in conflict.    *)
(* auto: whether the confidence reached the auto-accept threshold.         *)
Proposal ==
    [kind : {"merge", "clarify_conflict"}, records : Seq(Ids), auto : BOOLEAN,
     state : ProposalStates]

(* pc: what the thread does next.  order, rows: the facts a consolidation  *)
(* read.  clusters: those without a proposal yet.  proposal: the one being *)
(* applied.  todo: its duplicates, or the records of a deletion, still to  *)
(* handle; done: those handled.  deleted: history, the tombstones there    *)
(* were when the thread began to apply the proposal.                       *)
IdleCall ==
    [pc |-> "idle", order |-> <<>>, rows |-> [r \in Ids |-> Absent], clusters |-> <<>>,
     proposal |-> 0, todo |-> <<>>, done |-> {}, mode |-> "logical", deleted |-> {}]

CallPcs ==
    {"idle", "cluster", "propose", "load", "guard", "status", "link", "purge", "close", "flag",
     "tombstone", "remove", "erase"}

ReflectionTypeOK ==
    /\ StoreTypeOK
    /\ index \in [Ids -> 0..MaxContent \cup {NoEntry}]
    /\ Range(recent) = {r \in Ids : Exists(r)} /\ Len(recent) = Cardinality(Range(recent))
    /\ proposals \in Seq(Proposal)
    /\ \A t \in Threads : call[t].pc \in CallPcs /\ call[t].proposal \in 0..Len(proposals)
    /\ calls \in 0..MaxCalls
    /\ late \subseteq Ids \X Ids \X Relations

-----------------------------------------------------------------------------
(* Clusters and proposals                                                  *)

At(t, pc) == call[t].pc = pc

Idle(t) == At(t, "idle")

(* Thread t begins a call of function f in the state c.                    *)
Begin(t, f, c) ==
    /\ f \in Functions /\ Idle(t) /\ calls < MaxCalls
    /\ calls' = calls + 1
    /\ call' = [call EXCEPT ![t] = c]

Become(t, c) == call' = [call EXCEPT ![t] = c] /\ UNCHANGED calls

(* Mutated form of Touched: a row that was erased comes back.              *)
TouchedUnseen(r) == <<r>> \o Only(recent, Ids \ {r})

(* updated_at of a row is set to now.                                      *)
Touched(r) == IF Exists(r) THEN <<r>> \o Only(recent, Ids \ {r}) ELSE recent

(* Facts of L1 the policy lets reflection see.                             *)
CanReflectOn(r) ==
    Kind[r].type = "fact" /\ Kind[r].tier = "L1" /\ Sensitivity[r] <= ReflectionMax

(* cluster_l1: a record joins the first cluster whose representative, its  *)
(* first member, it resembles, or seeds one.                               *)
Place(rows, clusters, r) ==
    LET fits == {i \in DOMAIN clusters :
                    <<rows[r].content, rows[Head(clusters[i])].content>> \in Similar}
    IN IF fits = {} THEN Append(clusters, <<r>>)
       ELSE [clusters EXCEPT ![Min(fits)] = Append(@, r)]

ReviewWorthy(rows, order) ==
    LET clusters == FoldLeft(LAMBDA cs, r : Place(rows, cs, r), <<>>, order)
    IN Only(clusters, {c \in Range(clusters) : Len(c) >= 2})

(* The longest content, the first in the order of the query among equals;  *)
(* salience, which comes before the length, is the same for all.           *)
Primary(rows, cluster) ==
    cluster[Min({i \in DOMAIN cluster :
                    \A j \in DOMAIN cluster :
                        Length[rows[cluster[j]].content] <= Length[rows[cluster[i]].content]})]

(* Two members with one content hash lift the confidence over the          *)
(* threshold, whatever the others contain.                                 *)
HasExactDuplicate(rows, cluster) ==
    \E i, j \in DOMAIN cluster : i # j /\ rows[cluster[i]].content = rows[cluster[j]].content

MergeProposal(rows, cluster) ==
    [kind |-> "merge",
     records |-> <<Primary(rows, cluster)>>
                    \o Only(cluster, Ids \ {Primary(rows, cluster)}),
     auto |-> HasExactDuplicate(rows, cluster),
     state |-> IF HasExactDuplicate(rows, cluster) THEN "proposed" ELSE "user_review_required"]

PrimaryOf(p) == Head(proposals[p].records)

DuplicatesOf(p) == Range(Tail(proposals[p].records))

SetState(p, s) == proposals' = [proposals EXCEPT ![p].state = s]

-----------------------------------------------------------------------------
(* consolidate                                                             *)

BeginConsolidate(t) ==
    LET facts == Only(recent, {r \in Ids : CanReflectOn(r) /\ InForce(r)})
    IN /\ Begin(t, "consolidate",
                [IdleCall EXCEPT !.pc = "cluster", !.order = facts,
                                 !.rows = [r \in Ids |-> IF r \in Range(facts) THEN records[r]
                                                         ELSE Absent]])
       /\ UNCHANGED <<storeVars, late, index, recent, proposals>>

(* The next cluster, or the end of the job; an apply by hand has none.     *)
Continue(t, clusters) ==
    Become(t, IF clusters = <<>> THEN IdleCall
              ELSE [IdleCall EXCEPT !.pc = "propose", !.rows = call[t].rows,
                                    !.clusters = clusters])

(* Tombstones are looked up after the query; then the rows are clustered.  *)
ClusterFacts(t) ==
    /\ At(t, "cluster")
    /\ Continue(t, ReviewWorthy(call[t].rows,
                                Only(call[t].order, {r \in Ids : ~IsTombstoned(r)})))
    /\ UNCHANGED <<storeVars, late, index, recent, proposals>>

(* A proposal for the next cluster, applied at once or left for review.    *)
Propose(t) ==
    LET p == MergeProposal(call[t].rows, Head(call[t].clusters))
    IN /\ At(t, "propose")
       /\ proposals' = Append(proposals, p)
       /\ IF p.auto
          THEN Become(t, [call[t] EXCEPT !.pc = "load", !.clusters = Tail(@),
                                         !.proposal = Len(proposals) + 1])
          ELSE Continue(t, Tail(call[t].clusters))
       /\ UNCHANGED <<storeVars, late, index, recent>>

-----------------------------------------------------------------------------
(* apply, with merge_records, and reject                                   *)

BeginApply(t) ==
    /\ \E p \in DOMAIN proposals :
        Begin(t, "apply", [IdleCall EXCEPT !.pc = "load", !.proposal = p])
    /\ UNCHANGED <<storeVars, late, index, recent, proposals>>

Decided(p) == proposals[p].state \in {"applied", "rejected"}

LoadProposal(t) ==
    LET p == call[t].proposal
    IN /\ At(t, "load")
       /\ IF Decided(p) \/ proposals[p].kind = "clarify_conflict"
          THEN Continue(t, call[t].clusters)
          ELSE Become(t, [call[t] EXCEPT !.pc = "guard", !.todo = Tail(proposals[p].records),
                                         !.deleted = {r \in Ids : IsTombstoned(r)}])
       /\ proposals' = IF Decided(p) \/ proposals[p].kind = "merge" THEN proposals
                       ELSE [proposals EXCEPT ![p].state = "user_review_required"]
       /\ UNCHANGED <<storeVars, late, index, recent>>

Duplicate(t) == Head(call[t].todo)

(* Mutated form of Skipped: tombstoned duplicates are merged too.          *)
SkippedIfPrimary(t) == Duplicate(t) = PrimaryOf(call[t].proposal)

(* Mutated form of Skipped: so are duplicates that are superseded already. *)
SkippedIfInactive(t) ==
    Duplicate(t) = PrimaryOf(call[t].proposal) \/ ~InForce(Duplicate(t))

Skipped(t) == Duplicate(t) = PrimaryOf(call[t].proposal) \/ IsTombstoned(Duplicate(t))

Guard(t) ==
    /\ At(t, "guard")
    /\ Become(t, IF call[t].todo = <<>> THEN [call[t] EXCEPT !.pc = "purge"]
                 ELSE IF Skipped(t) THEN [call[t] EXCEPT !.todo = Tail(@)]
                 ELSE [call[t] EXCEPT !.pc = "status"])
    /\ UNCHANGED <<storeVars, late, index, recent, proposals>>

MarkDuplicate(t) ==
    /\ At(t, "status")
    /\ SetStatus(Duplicate(t), "superseded")
    /\ recent' = Touched(Duplicate(t))
    /\ Become(t, [call[t] EXCEPT !.pc = "link"])
    /\ UNCHANGED <<index, proposals, late>>

Deleting == \E t \in Threads : At(t, "tombstone")

AddEdge(p, c, rel) ==
    /\ AddDependency(p, c, rel)
    /\ late' = IF Deleting \/ IsTombstoned(p) \/ IsTombstoned(c)
               THEN late \cup {<<p, c, rel>>} ELSE late

LinkDuplicate(t) ==
    /\ At(t, "link")
    /\ AddEdge(PrimaryOf(call[t].proposal), Duplicate(t), "supersedes")
    /\ Become(t, [call[t] EXCEPT !.pc = "guard", !.todo = Tail(@), !.done = @ \cup {Duplicate(t)}])
    /\ UNCHANGED <<index, recent, proposals>>

(* A row of the edge was erased: the insert raises, the job or the call is *)
(* over, the duplicates linked so far stay in the index.                   *)
LinkRefused(t) ==
    /\ At(t, "link")
    /\ ~Exists(PrimaryOf(call[t].proposal)) \/ ~Exists(Duplicate(t))
    /\ Become(t, IdleCall)
    /\ UNCHANGED <<storeVars, late, index, recent, proposals>>

Removed(ids) == [r \in Ids |-> IF r \in ids THEN NoEntry ELSE index[r]]

PurgeDuplicates(t) ==
    /\ At(t, "purge")
    /\ index' = Removed(call[t].done)
    /\ Become(t, [call[t] EXCEPT !.pc = "close"])
    /\ UNCHANGED <<storeVars, late, recent, proposals>>

CloseProposal(t) ==
    /\ At(t, "close")
    /\ SetState(call[t].proposal, "applied")
    /\ Continue(t, call[t].clusters)
    /\ UNCHANGED <<storeVars, late, index, recent>>

(* Nothing asks whether the proposal was decided before.                   *)
Reject(t) ==
    /\ Begin(t, "reject", IdleCall)
    /\ \E p \in DOMAIN proposals : SetState(p, "rejected")
    /\ UNCHANGED <<storeVars, late, index, recent>>

-----------------------------------------------------------------------------
(* contradiction_audit                                                     *)

BeginAudit(t) ==
    /\ Begin(t, "audit",
             [IdleCall EXCEPT !.pc = "flag", !.order = Only(recent, {r \in Ids : InForce(r)})])
    /\ UNCHANGED <<storeVars, late, index, recent, proposals>>

(* Each pair of a record that was active when the job queried, with a      *)
(* contradictor in force, is flagged once; the reads of the loop are taken *)
(* as one.                                                                 *)
Flagged(t) ==
    {{e[1], e[2]} : e \in {x \in Range(call[t].order) \X Ids :
                ~IsTombstoned(x[1]) /\ x[2] \in ContradictorIds(x[1]) /\ InForce(x[2])}}

FlagConflicts(t) ==
    /\ At(t, "flag")
    /\ proposals' = proposals \o
         [i \in 1..Cardinality(Flagged(t)) |->
            [kind |-> "clarify_conflict", records |-> SetToSeq(SetToSeq(Flagged(t))[i]),
             auto |-> FALSE, state |-> "user_review_required"]]
    /\ Become(t, IdleCall)
    /\ UNCHANGED <<storeVars, late, index, recent>>

-----------------------------------------------------------------------------
(* The host: writes, patches, deletions                                    *)

(* update_memory without content.                                          *)
PatchStatus(t) ==
    /\ Begin(t, "patch", IdleCall)
    /\ \E r \in Range(recent), s \in PatchStatuses : SetStatus(r, s) /\ recent' = Touched(r)
    /\ UNCHANGED <<index, proposals, late>>

(* update_memory with content, and write_memory with a fresh id, in one    *)
(* step; MemoryEngine models what may come in between.                     *)
StoreContent(r, s, c) ==
    /\ Write(r, s, c)
    /\ recent' = <<r>> \o Only(recent, Ids \ {r})
    /\ index' = [index EXCEPT ![r] = c]
    /\ UNCHANGED <<proposals, late>>

UpdateContent(t) ==
    /\ Begin(t, "update", IdleCall)
    /\ \E r \in Range(recent), c \in 0..MaxContent : StoreContent(r, records[r].status, c)

WriteNew(t) ==
    /\ Begin(t, "write", IdleCall)
    /\ \E r \in Ids, c \in 0..MaxContent :
        ~Exists(r) /\ ~IsTombstoned(r) /\ StoreContent(r, "active", c)

(* link_source: by the host, between two rows, whatever their state.       *)
LinkSource(t) ==
    /\ Begin(t, "link", IdleCall)
    /\ \E e \in Links :
        {e[1], e[2]} \subseteq Range(recent) /\ AddEdge(e[1], e[2], "derived_from")
    /\ UNCHANGED <<index, recent, proposals>>

(* delete_memory: the record and all linked to it, as linked when it began.*)
BeginDelete(t) ==
    /\ \E r \in Range(recent), m \in DeletionModes :
        Begin(t, "delete", [IdleCall EXCEPT !.pc = "tombstone", !.mode = m,
                                            !.todo = SetToSeq({r} \cup DependencyGraph(r))])
    /\ UNCHANGED <<storeVars, late, index, recent, proposals>>

(* One turn of the loop over the records to tombstone.                     *)
Turned(c) ==
    [c EXCEPT !.pc = IF Tail(c.todo) = <<>> THEN "remove" ELSE c.pc,
              !.todo = Tail(@), !.done = @ \cup {Head(c.todo)}]

TombstoneOne(t) ==
    /\ At(t, "tombstone")
    /\ Tombstone(Head(call[t].todo), call[t].mode, t)
    /\ recent' = Touched(Head(call[t].todo))
    /\ Become(t, Turned(call[t]))
    /\ UNCHANGED <<index, proposals, late>>

RemoveDeleted(t) ==
    /\ At(t, "remove")
    /\ index' = Removed(call[t].done)
    /\ Become(t, IF call[t].mode = "hard"
                 THEN [call[t] EXCEPT !.pc = "erase", !.todo = SetToSeq(call[t].done)]
                 ELSE IdleCall)
    /\ UNCHANGED <<storeVars, late, recent, proposals>>

EraseOne(t) ==
    /\ At(t, "erase")
    /\ HardDelete(Head(call[t].todo))
    /\ recent' = Only(recent, Ids \ {Head(call[t].todo)})
    /\ Become(t, IF Tail(call[t].todo) = <<>> THEN IdleCall
                 ELSE [call[t] EXCEPT !.todo = Tail(@)])
    /\ UNCHANGED <<index, proposals, late>>

-----------------------------------------------------------------------------
ReflectionStep(t) ==
    \/ BeginConsolidate(t) \/ ClusterFacts(t) \/ Propose(t)
    \/ BeginApply(t) \/ LoadProposal(t) \/ Guard(t) \/ MarkDuplicate(t)
    \/ LinkDuplicate(t) \/ LinkRefused(t) \/ PurgeDuplicates(t) \/ CloseProposal(t)
    \/ Reject(t) \/ BeginAudit(t) \/ FlagConflicts(t)

HostStep(t) ==
    \/ PatchStatus(t) \/ UpdateContent(t) \/ WriteNew(t) \/ LinkSource(t)
    \/ BeginDelete(t) \/ TombstoneOne(t) \/ RemoveDeleted(t) \/ EraseOne(t)

ReflectionInit ==
    /\ records = [r \in Ids |-> IF r \in Existing THEN [status |-> "active", content |-> 0]
                                ELSE Absent]
    /\ tombstones = [r \in Ids |-> NoTombstone]
    /\ dependencies = InitialEdges
    /\ index = [r \in Ids |-> IF r \in Existing THEN 0 ELSE NoEntry]
    /\ recent = SetToSeq(Existing)
    /\ proposals = <<>>
    /\ call = [t \in Threads |-> IdleCall]
    /\ calls = 0
    /\ late = {}

ReflectionNext == \E t \in Threads : ReflectionStep(t) \/ HostStep(t)

ReflectionSpec == ReflectionInit /\ [][ReflectionNext]_reflectionVars

-----------------------------------------------------------------------------
(* Properties                                                              *)

(* The hits of a recall that finds the records of S in the index, for      *)
(* every S it may find.                                                    *)
HitsOf(S) == {<<r, index[r]>> : r \in S}

Retrievable == SUBSET {r \in Ids : index[r] # NoEntry}

Instants == 0..1

(* Whatever reflection, hosts and deletions are in the middle of, every    *)
(* bundle a recall may build then is sound: live rows only, no belief      *)
(* beside its correction or its contradictor, no reflection as a fact.     *)
BundlesSound ==
    \A S \in Retrievable, now \in Instants :
        \A b \in Bundles(HitsOf(S), now, TRUE) : SoundBundle(b, HitsOf(S))

(* And without diversity nothing that is in force and retrieved is missing *)
(* from it but for a full category: no stale superseder, conflict or       *)
(* drifted entry of another record pushes a true belief out.               *)
BundlesComplete ==
    \A S \in Retrievable, now \in Instants :
        \A b \in Bundles(HitsOf(S), now, FALSE) : CompleteBundle(b, HitsOf(S), now)

(* What a proposal says was applied was done: its duplicates are linked to *)
(* the primary, or were deleted - also when the primary or a duplicate is  *)
(* deleted while the merge is under way, or two threads apply it at once.  *)
AppliedMeansMerged ==
    \A p \in DOMAIN proposals :
        proposals[p].kind = "merge" /\ proposals[p].state = "applied" =>
            \A d \in DuplicatesOf(p) :
                \/ <<PrimaryOf(p), d, "supersedes">> \in dependencies
                \/ IsTombstoned(d) \/ IsTombstoned(PrimaryOf(p))

(* A merge does not touch the status of a record whose deletion had begun  *)
(* before the proposal was applied, however old the proposal is.           *)
DeletionsStand ==
    [][\A t \in Threads :
        At(t, "status") /\ At(t, "link")' => Duplicate(t) \notin call[t].deleted]_reflectionVars

(* A deletion takes all that is derived from the record or linked to it    *)
(* along, over any number of edges, in either direction and whoever drew   *)
(* them, the host or a merge: when none is tombstoning, of two linked      *)
(* records both are deleted or neither is, unless the edge was added while *)
(* a deletion was tombstoning or to a record deleted before.               *)
DeletionCascades ==
    ~Deleting =>
        \A e \in dependencies \ late : IsTombstoned(e[1]) <=> IsTombstoned(e[2])

AtRest == \A t \in Threads : Idle(t)

(* Mentioned in some bundle's beliefs or conflicts when all is retrieved.  *)
Shown(r) == index[r] # NoEntry /\ InForce(r) /\ ~SupersededByActive(r)

(* After consolidation recall surfaces a belief for the cluster: of the    *)
(* records of an applied merge none of which the host deleted or archived, *)
(* or of those that supersede them, one is still shown.                    *)
ClusterStaysKnown ==
    AtRest =>
        \A p \in DOMAIN proposals :
            proposals[p].kind = "merge" /\ proposals[p].state = "applied" =>
                \E r \in Range(proposals[p].records) \cup {x \in Ids : Linked(x, PrimaryOf(p))} :
                    Shown(r) \/ IsTombstoned(r) \/ records[r].status = "archived"

=============================================================================
