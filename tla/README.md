# Strata Memory in TLA+

Strata Memory stores the memories of an agent: canonical rows in SQLite, a lexical (FTS5) and a
vector index beside them, and flows that write, update, correct, merge, delete and recall.  The
indexes may lag behind the rows; the system's promises are about what may be seen meanwhile.  This
directory models the parts that keep those promises, checks them with TLC on small instances, and
proves with TLAPS, for every instance, the safety and refinement properties of the runs that pass.

Run a check with `tlc -config <file>.cfg <module>` (the module is the part of the file's name before
the underscore), a proof with `tlapm <module>Proofs.tla`.  `PROJECT.json` lists the runs, the source lines behind
every definition, a mutation of the code that each property detects, the hazards and the theorems.

## 1. The system

| Part | Source under `src/strata/` | State | Operations | Module |
|---|---|---|---|---|
| Write coordinator | `coordinator/coordinator.py`, `ops.py`, `schema.sql` | table `op_log`, `write_lock`, handlers | `enqueue`, `apply_next`, `run_until_idle`, `retry`, `recover` | `Operations`, `WriteCoordinator`, `SerialIndex` |
| Writer worker | `coordinator/worker.py` | one thread, stop flag, wake event | `start`, `_loop`, `stop` | `WriterWorker`; in `WriteCoordinator` a driver that keeps calling |
| Canonical store | `canonical/store.py`, `schema.sql` | tables `records`, `tombstones`, `dependencies`, versions, acks | one committed transaction per method | `CanonicalStore` |
| Deletion | `deletion/flows.py`, `verify.py` | state, mode and job of each tombstone | `request_deletion`, `retry`, `deletion_status`, `correct` | `DeletionService`; `correct` in `MemoryEngine` |
| Managed surfaces | `deletion/managed_surfaces.py` | lexical, coordinated vector, artifacts | `purge`, `verify` | `DeletionService` |
| Lexical store | `lexical/fts.py` | FTS5 table with a copy of the text | `index`, `remove`, `rebuild`, `search` | `DeletionService`, `MemoryEngine` |
| Vector stores | `vector/*.py` | entries per id and generation, soft deletes, live ids | `upsert`, `remove`, `search`, `contains`, `purge_*`, `persist` | `VectorStores`, with `VectorIndex` as their promise; one index of one generation elsewhere |
| Engine and gateway | `engine.py`, `gateway/api.py` | active generation | write, update, correct, merge, recall, link | `MemoryEngine`; merges of several and `link_source` in `Reflection` |
| Resolver | `resolver/*.py` | none | merge, hydrate, filter, rank, diversify, bundle | `Resolver`; its reads beside writers in `MemoryEngine` |
| Reflection | `reflection/*.py` | proposals, in memory | `consolidate`, `contradiction_audit`, `apply`, `reject` | `Reflection` |
| Generations | `engine.py:181-229` | table `embedding_generations` | open shadow, reindex, promote | `Generations` |
| Sensitivity policy | `policy/sensitivity.py` | none | `can_recall`, `can_reflect_on` | `Resolver`, `Reflection` |
| Ids | `ids.py` | ids given out | `new_record_id` | `MemoryEngine` (`FreshId`) |
| Embedder, HTTP, CLI, migrations | | none of their own | pure functions, dispatch, set-up | not modelled |

**How they interact.**  Every flow runs in the thread of its caller; there is no global lock.  All
threads share the SQLite file (each method of the store commits), the vector store (mutated only by
coordinator handlers, under `write_lock`) and the operation log, which any thread may drain.  A
deletion and a correction enqueue a `remove_index` operation and drain the log in their own thread.
Recall reads the two indexes, then the rows, then tombstones and edges, each by itself.

**What is hard here.**  Two threads between the commits of one operation; an operation in backoff
that holds its place in the order; a restart between the index mutation and its record; deletion
jobs that overlap; what is still queued when an index is asked whether it contains a record; a row
read before a deletion and written back after it; a call that ends half way; a proposal applied long
after it was made; a migration of the index beside writes and deletions; a wake-up event shared by
loops.  `hazards` in
`PROJECT.json` names the line of each.

**What makes each part correct.**

* Coordinator: conflicting operations run in log order, the index shows the newest completed one,
  acks agree with outcomes, nothing stays in the log for ever.
* Deletion: canonical first; verified means gone from every surface; every job ends.
* Recall: nothing deleted and nothing corrected away is in a bundle.
* Engine: at rest the indexes agree with the rows.
* Resolver: in every state of the store a bundle is sound (live rows, no belief beside its correction
  or contradictor) and, but for full categories, complete.
* Reflection: an applied proposal was carried out; a merge respects deletions; what is linked is
  deleted together.
* Generations: a verified deletion holds in every generation; the active one answers with the current
  content; a shadow under construction changes no answer.
* Worker: no announced work is slept through, one loop at a time, a stop ends it.

## 2. The modules

**`Operations`** - operation types, the conflict relation of `_blocked`, what the vector handler
does with an operation.  The content of an index is abstracted to the sequence number of the upsert
that wrote the entry, so "which operation does the index show" is the question asked.

**`WriteCoordinator`** - the log (`len`, `op`, `state`, `attempts`, `backoff`), the acks, the
indexes, and per thread the place in `apply_next`.  Actions follow the commits: `Select` takes the
lock and chooses a row; `Mark` commits `in_progress`; `Handle` runs the handler (for any part of the
records; it returns and acknowledges any part of those, or raises and acknowledges none); `RecordAck`
commits one ack; `Finish` or, after an exception always, `FailOrRetry` closes the attempt.  `Retry` is any caller, without the lock.  `Abort` is a storage error outside the
`try` of `_run`: the lock is freed, the row stays as it is, a worker thread dies.  `Crash` is the
death of the process and the construction of the next coordinator, whose `recover()` runs before
any of its threads.  `backoff[i]` stands for "`next_attempt_at` lies in the future".  `touched` and
`revived` are history variables: rows ever handed to a handler, rows retried after they had failed.

**`SerialIndex`** - the abstract specification: no threads, locks, backoff or restarts; an operation
is open until it is done or failed, is attempted only when the earlier ones it conflicts with are
closed, and completes only while all its records show its effect.  `WriteCoordinator` implements it
under `outcome = open` for `pending`, `in_progress` and `partial_failure`.

**`CanonicalStore`** - one operator per method of the store, each a committed transaction.  A record
is its status and a content version, which stands for text and hash together.  `DependencyGraph` is
said as the least closed set the code's loop over a frontier computes.

**`WriterWorker`** - `worker.py` around that: `wake` and `stop` are the two events, `pc` the place of
every loop ever started, `thread` the one that `start` remembers.  An operation is only whether the
loop may run it now (`eligible` since a call that sets the event, `due` since a backoff ended).  The
host starts and stops in one thread: each assignment and each event is a step of its own, and `Join`
returns at any time, as its timeout allows.  `timedOut` is a history variable: some join gave up.

**`DeletionService`** extends `CanonicalStore` with the surfaces, the open operations of the log and the jobs.  A
job is one thread's call of `request_deletion` or `retry`; each loop over ids takes one id per step,
in any order, as the code iterates sets.  The log appears as what `SerialIndex` promises: operations
are applied one at a time, conflicting ones in order, to all their records or failing after some.
`Drained` is the return of `run_until_idle`: nothing is eligible, the job's own removal may still be
waiting.  `AnswerVector` is the query of the index after it, another thread's work in between.  `Interrupt` ends a job anywhere.

**`MemoryEngine`** extends `DeletionService` with the calls of a host.  A call is the list of steps still to do
(`WriteSteps`, `UpdateSteps`, `CorrectSteps`, `MergeSteps`, `RecallSteps` transcribe the bodies of the
functions); what it has read is kept in its record.  `LinkRefused` is the foreign key that rejects the
edge of a correction whose old record has no row.  Recall takes every hit, not the best ten, and
drops entries only for what it has read.  The kind of a record is not kept: any of the survivors may
be the reflections, guardrails and L4 records that the code places in `hypotheses` and `policy_flags`
before it looks at status or supersession (`standing`; `resolver.py:183-188`).  What a bundle of the
code holds, some bundle of the model holds in the same place.  A deletion counts as one of the
`MaxCalls`.

**`Resolver`** - the pipeline from the hits of a recall to its bundle, as operators over the store:
merging of hits, hydration (tombstone, hash, validity window, policy), ranking, diversity, routing by
record type, supersession and conflicts, budgets.  Of the ranking only the weight of the status is
kept; confidence, recency and scores may order records of one weight in any way, so `Bundles` is a
set, one bundle per order.  `SoundBundle` and `CompleteBundle` say what a bundle must be without the
pipeline.  `Only` is the filtering of a sequence, said as a fold: the prover knows nothing of
`SelectSeq`.

**`Reflection`** extends it with proposals and the calls that make, apply and reject them, beside
hosts that write, update, patch, link and delete.  `recent` is the order of `updated_at`, in which
`consolidate` reads (two updates never have the same time); the rows there are at first are in any
one order.  Texts are content versions: `Similar`
says which cluster, `Alike` which diversity takes for the same, `Length` which is longer.  The
indexes are one map from ids to the content they were last given; a deletion is its commits
(tombstones, one removal from the indexes, erasures).  History: `deleted`, in a call, the
tombstones there were when it began to apply; `late`, the edges drawn beside a deletion or to a
deleted record.  The audit takes the reads of its loop as one.

**`VectorStores`** - the three stores as data: in memory (vectors per generation, one set of soft
deletes), zvec (one document per id, its generation a field), TurboVec (an index and a set of live
ids per generation, files as last persisted).  A vector is the content it was embedded from.  `Entry` is
what a generation can answer with; `Found` is the set of answers a search may give: all entries, or in
the archive as many of them as there are live ids, whichever are nearest to the query
(`turbovec_adapter.py:125-129` uses the live ids only as a count).  The two agree until the archive is
reopened, which makes the live set empty.  The libraries behind the adapters are taken to do what they
are asked.

**`VectorIndex`** - the abstract specification of a store on disk (`vector/base.py`): generations side
by side, an upsert changes what one of them holds of one record, a removal takes a record out of all,
a store opened again holds what it saved, and what was dropped is off the disk too.  The archive
implements it under `held = Entry("turbovec", ...)`, `saved = files`.  That is a statement about what is
held and not about what a search finds of it: no store promises that, and after a reload the archive's
search leaves things out.  zvec does not implement it: an upsert into the shadow takes the entry of
the active generation away.

**`Generations`** extends `VectorStores` with `open_shadow_generation` and `reindex_into`, which a host
calls together, and `promote_generation`, a call of its own that may come early, late or never, beside
`write_memory` and `delete_memory`, the maintenance of the stores and a restart of the process.  The
log is applied in order without failures, as other modules model those.  History: `readded`, ids given
back to an index after their tombstone (by a call that had looked before it, or by a restart);
`missed`, per store and generation the ids it is not owed, because they were written into another
generation or beside its reindex, because nothing was reindexed into it or it was purged since, or,
in zvec, because they were last indexed in another one; `clear`, in a call, that the record had no
tombstone when it looked.

The `MC*` modules only give values to constants.

## 3. The runs

All bounds are constants: `MaxOps` rows, `MaxCrashes`, `MaxRetries`, `MaxAborts`,
`MaxVectorFailures`, `MaxInterrupts`, `MaxJobRetries`, `MaxCalls`, `MaxContent`, `MaxRestarts`,
`MaxStarts`, and `Links`, the pairs of records a host links.  `MaxSteps`, `MaxAttempts`,
`MaxOpAttempts`, `MaxPurgeRetries` and `Budget` are parameters of the code, made small so that they
run out.  Deadlock is not checked: every instance stops when its bounds are used up and its callers
want nothing more.

| Run | Shows |
|---|---|
| `order` | `AppliedInOrder`, `NewestDoneInIndex`.  Three operations over two records (single, double, removal), two symmetric threads, one crash, one retry.  Three are the fewest with an operation blocked by one that is itself blocked. |
| `settles` | `TypeOK`, `AcksMatchOutcome`, `ImplementsSerialIndex`, `EveryOpSettles`.  Two operations of all kinds (unregistered target with a record and with none, rejected type, missing payload), a worker and another thread, a crash, a retry, a storage error. |
| `worker` | `WorkerTypeOK`, `NoLostWake`, `NoStrayLoop`, `StopEndsLoops`.  Two starts, so that a loop can outlive its stop beside its successor; two callers that enqueue and retry, so that a loop may never be out of work; a storage error that ends a loop. |
| `purge` | `DeletionTypeOK`, `VerifiedMeansGone`, `CanonicalFirst` for two hard jobs over two linked records, an upsert waiting in backoff, one failed attempt of the vector handler, one interrupted job, one `retry`.  Two attempts per operation and two rounds per job let both run out. |
| `settle` | `VerifiedMeansGone` and `JobsSettle` for two logical jobs in the same setting, without interruptions. |
| `recall` | `EngineTypeOK`, `DeletionIntegrity`, `CorrectionRespected`: three calls in two threads (recall, update, patch, correction, merge, hard deletion, of which a logical one is the first half), one of which may be cut short.  Once a correction or a merge has returned, a later recall does not show the old record as a belief, even when an update begun before it, or `update_memory(status="active")` after it, wrote an active status back, and whichever of the records are of the kinds that bundles hold whatever their status; excepted is the old record that a deletion erases, with the edge, beside that recall. |
| `sync` | `ActiveMeansIndexed`: one writing thread, a logical deletion job, an upsert or removal that fails once and is retried. |
| `reflection` | `ReflectionTypeOK`, `BundlesSound`, `BundlesComplete`, `AppliedMeansMerged`, `DeletionsStand`, `DeletionCascades`.  Three facts, two of them in contradiction, and a reflection still to be written; three calls of any kind in two threads.  The two bundle invariants speak of every subset of the hits, every order of equal weights and both sides of a validity window. |
| `generations` | `GenerationsTypeOK`, `DeletionPreserved`, `ActiveGenerationServes`, `ArchiveIsVectorIndex`.  One thread writes and deletes, the other migrates, promotes and maintains; two records and a third still to be written, two generations, all three stores, one restart.  Three calls, of which a restart is one and promotions are none, are enough for a migration there and back beside a write, for two writes after a reindex that is never promoted, for a migration, a purge of the retired generation and a deletion, or for what the archive does after persist and restart when one record is written again. |

Three runs show a disagreement between the code and what the repository says of it:

| Run | Shows |
|---|---|
| `rebuild` | The `lexical.rebuild` of a hard deletion re-inserts rows that were logically deleted and verified. |
| `resurrected` | `update_memory` reads a row, a hard deletion erases it, `write` inserts it again. |
| `lost` | A proposal waits for review; a later consolidation merges the same two facts the other way round; the first one is applied after it.  Each supersedes the other and recall shows neither. |

### What came up without a run

Behaviour the model has, and that a property excepts or an assumption of a run avoids:

* `retry` of a `failed` operation puts it back at its old place, after newer ones on the same record
  are done; so `AppliedInOrder` and `NewestDoneInIndex` speak of `revived` rows.
* A storage error in `_record_acks` or `_finish` (`coordinator.py:176`) leaves a row `in_progress`.  It
  is never chosen, it blocks what conflicts with it, and only the constructor calls `recover()`;
  `EveryOpSettles` excepts it.
* After a join that timed out, `start` clears the stop flag before the old loop has looked at it, and
  two loops drain the log, against `worker.py:3`; `NoStrayLoop` excepts it.  A loop that died leaves
  `_thread` set, so `start` raises until somebody calls `stop`.
* A recall drops tombstoned records first and looks at supersession later (`resolver.py:118` and
  `:194`).  A hard deletion of a corrected record that falls in between erases its row and, by
  cascade, the edge, so that recall believes the old record once more.  The attempt to prove
  `CorrectionRespected` found this; the property excepts it (`ErasedDuring`).
* Deleting a record again keeps its first `job_id` (`store.py:231`), so the returned one is unknown to
  `deletion_status`; `JobsSettle` speaks of jobs that have rows.
* A logical and a hard job over one record may leave it reported as verified and hard with its row
  still there; `VerifiedMeansGone` is checked for jobs of one mode at a time.
* A deletion is verified while an upsert of a record the index does not hold yet is queued behind a
  backoff; it reaches the index afterwards.  `NeverIndexed` is empty in the runs.
* A call that ends between the row's commit and the enqueue leaves an index behind for ever;
  two writers of one record may index it in the other order; a status patch puts a record in force
  again whose postings a merge or a correction purged; a correction of an erased record has stored
  its new record when the foreign key ends it, before the indexing; and an operation that is given
  up is lost to the index.  `ActiveMeansIndexed` is checked and proved where none of these happens.
* An edge drawn while a deletion is tombstoning, or to a record deleted before, takes nothing along;
  `DeletionCascades` excepts `late` edges.
* `reindex_into` looks at the tombstone and then enqueues (`engine.py:197` and `:198`): a deletion
  verified in between is undone in the index for good, though hydration keeps the record out of
  recall; `DeletionPreserved` excepts `readded` ids.
* Records written while a migration is under way are missing from the promoted generation, and all
  are if nothing was reindexed into it; `ActiveGenerationServes` excepts `missed` ids.  Superseded
  records, which a merge had purged, come back into the index by a reindex.
* zvec keeps one document per id, so a reindex takes records away from the active generation while
  it runs, and for good if the shadow is never promoted (`tests/adapters/test_zvec_adapter.py:72` pins
  it, against `vector/base.py:4-5`); `ActiveGenerationServes` excepts them, for this store alone.
* After a restart the archive holds what was persisted, but its search finds nothing of a generation
  until something is upserted into it, and then as many ids as were upserted, the nearest ones of all
  (`turbovec_adapter.py:57` and `:125-129`); `ActiveGenerationServes` speaks of runs without a restart.
* `resolver.py:183-188` places reflections, guardrails and L4 records whatever their status is.  Such a
  record, corrected and then indexed again by `update_memory` with new content, is back in
  `hypotheses` or `policy_flags` beside its correction; `CorrectionRespected` speaks of beliefs and
  open conflicts.
* In the in-memory store an upsert into one generation makes the soft-deleted vectors of others
  visible again (`vector/fake.py`).
* `Strata.open` works in the generation of the embedder it is given, whatever the table calls active
  (`gateway/api.py:62`), and `promote_generation` does not change the embedder.
* Diversity is applied before statuses and supersession are looked at, so a belief may give way to a
  similar record that is then dropped; `BundlesComplete` is checked without diversity.
* `write` inserts `ON CONFLICT DO UPDATE` (`store.py:126`): an id drawn twice would overwrite, where
  `ids.py:38-39` speaks of a retry.  Ids are fresh in the model.
* `reflection/proposals.py:65` says that a deletion purges proposals; nothing calls `remove`, and the
  store is no registered surface.

**Why the bounds are enough.**  The properties relate at most two operations, two jobs or two calls
and one record; each run has one more actor or operation than that, or the fault that could come
between them.  A second crash or retry meets a state a first one can produce: the counters are not
read by any other action.  Two contents tell an old vector, text or hash from a new one; two
generations are all a migration knows.

**Fairness.**  `FairSpec`: a thread inside `apply_next` goes on; a worker keeps calling it (its loop
polls every `idle_wait_s`, so a lost wake-up only delays it); time passes the backoff.  Threads that
are not workers need never call.  `DeletionFairSpec`: the thread of a job goes on, which inside
`run_until_idle` means applying what is eligible.  It does *not* assume that a backoff expires:
`JobsSettle` holds because the rounds of a job are bounded.  `WorkerFairSpec`: a loop goes on, and its
wait ends with `idle_wait_s`; no caller and no host need ever call again, and nothing is assumed of
how long the join waits.  `StopEndsLoops` holds because `max_steps` ends a drain that finds new work
for ever.  Three temporal statements are qualified: `EveryOpSettles` excepts a storage error that
ended an attempt, `JobsSettle` is checked without interruptions, as nothing in the code resumes a
stopped job, and `StopEndsLoops` excepts a start that clears the flag.

## 4. The proofs

Every theorem holds for any sets of records, threads, jobs, targets and submissions and any bounds,
from the named assumptions on the constants alone; further hypotheses are named below.  Each rests on
an inductive invariant that TLC checked on the configuration of the component first.

| Module | Theorems (the property proved) |
|---|---|
| `WriteCoordinatorProofs` | `TypeCorrect` (`TypeOK`), `Ordered` (`AppliedInOrder`) |
| `SerialIndexProofs` | `AcksAgree` (`AcksMatchOutcome`), `NewestShown` (`NewestDoneInIndex`), `CoordinatorIsSerialIndex` (`ImplementsSerialIndex`) |
| `WriterWorkerProofs` | `WorkerTypeCorrect` (`WorkerTypeOK`), `OneLoop` (`NoStrayLoop`), `WakeUpsReachTheLoop` (`NoLostWake`) |
| `DeletionServiceProofs` | `DeletionTypeCorrect` (`DeletionTypeOK`), `TombstonedFirst` (`CanonicalFirst`), `VerifiedOutOfVector`, `VerifiedAreGone` (`VerifiedMeansGone`) |
| `GenerationsProofs` | `GenerationsTypeCorrect` (`GenerationsTypeOK`), `VerifiedStaysOut` (`DeletionPreserved`), `ActiveServes` (`ActiveGenerationServes`), `ArchiveImplementsIndex` (`ArchiveIsVectorIndex`) |
| `MemoryEngineProofs` | `EngineTypeCorrect` (`EngineTypeOK`), `RecallForgets` (`DeletionIntegrity`), `CorrectionsHold` (`CorrectionRespected`), `ActiveIndexed` (`ActiveMeansIndexed`) |
| `ReflectionProofs` | `BundleIsSound`, `BundleIsComplete`, `ReflectionTypeCorrect` (`ReflectionTypeOK`), `BundlesAreSound`, `BundlesAreComplete`, `AppliedIsMerged` (`AppliedMeansMerged`), `DeletionsRemain` (`DeletionsStand`), `DeletionsCascade` (`DeletionCascades`) |

`CanonicalStoreProofs` holds what they share: what each method of the store makes of its tables, and
lemmas about sequences and folds.

**Coordinator.**  `AppliedInOrder` is not inductive.  A row becomes touched in `Handle`, two steps after
`Select` found it unblocked, so the invariant must remember that the row a thread holds is still
unblocked: every earlier conflicting row is closed or was revived (`OrderInv`).  It stays so because
the log only grows at its end (`LogGrowsStep`), a closed row is reopened by `Retry` only, which makes
it revived, and conflicts are between rows that never change.  For the acks and the index the
invariant says what a thread knows in the middle of an attempt (`AttemptInv`): its row is touched, the
ids its handler acknowledged show its effect, and the acks recorded so far are those of this attempt.
The lock keeps other handlers from undoing that before `Finish`.  The refinement maps each step to a
step of `SerialIndex` or a stutter: `Handle` is the attempt, `FailOrRetry` at the limit and `Finish` the
outcome.

**Worker.**  `start` clears the flag and creates the thread in two steps, and the second is right only
because the first found no thread; `StartPending` remembers that.  No step of a loop or a caller
touches what `start` and `stop` own (`LoopKeepsStart`).  A wake-up is not lost because a loop that
sleeps has seen nothing to run, and what arrives since comes with a caller that will set the event.

**Deletion.**  Canonical first needs `FirstInv`: the ids a job purges, the ids of a queued removal and
the records without a row that still have postings are tombstoned.  `VerifiedMeansGone` is proved in
two parts.  For the vector index (`VectorInv`, any mixture of modes): an upsert in the log is of a
record the index holds already and comes before every removal of it, so once the index has answered
that it does not contain the record, nothing in the log can bring it back.  For the rows and the
postings (`GoneInv`): where all tombstones have one mode, a job that rebuilds the postings has only
erased records to hide, and what a job saw gone when it verified stays gone.  Two hypotheses, both of which the runs satisfy and without which the property is
false: `NeverIndexed = {}` (section 3: such an upsert is applied after the verification) and
`RequestModes = {m}` (a logical job may verify a tombstone that a hard job has just turned to hard).

**Generations.**  `PreservedInv`: a call that purges has tombstoned its record; when it verifies, the log
held no upsert of it or `readded` tells of one; a verified record is in no store and in no queued
upsert.  Every step is summarised once by what it may do to a call and to a tombstoned record
(`CallMove`, `RecordMove`), and the invariant is proved from the summaries.  The archive implements
`VectorIndex` for engines that have one (`"turbovec" \in Stores`): what is held and what is on disk are
contents or nothing (`ArchiveHolds`), and each step of the engine is one of the abstract index or
changes neither.

`ActiveGenerationServes` is about an engine at rest, and says nothing while operations are queued.  The
invariant (`ServingInv`) replaces the replay of the log by its last word, for every store and every
generation, since any may be promoted next.  Of each record in force that is not `missed` there
(`Covered`), the last operation of the log that overrides what the store holds of the record carries
the content of the row, or there is none and the store holds that content (`WillServe`); or a reindex
of the generation has it still to enqueue, and what it has read is as new as the row; or the writer
has it still to enqueue.  In zvec every upsert of a record overrides, whatever its generation.  From
what is held to what is found it is one step: while no archive was reopened the live ids are those in
the index (`LiveInv`), so a search for as many as are live finds them all.  Two hypotheses: `OneWriter`
(the functions of at most one thread include `write`) and `OneMigrator` (of at most one `migrate`);
promotions, purges and all else may come from any thread.  The run satisfies both; with two writers of
a record, or two reindexes of a generation, operations are enqueued in another order than their rows
were written or read.

**Engine.**  `DeletionIntegrity` needs that what was tombstoned when a recall began still is
(`RecallInv`), so the filter drops it, whatever rows and hits it had read; that the filter precedes
the bundle in every list of steps is part of the type invariant.  `CorrectionRespected` needs the
history: the edge of a correction that returned is there, or one of its records is tombstoned
(`CorrectionInv`).

`ActiveMeansIndexed` is about an engine at rest, so `IndexInv` says of every record in force what its
index is on the way to: its posting has the content of the row, or the writer has it still to index
(`Posted`); and the last operation of the log on it is an upsert with that content, or there is none
and the vector index has it, or the writer has it still to enqueue (`Embedded`).  The last operation
stays the last because an operation is applied only when no conflicting one is before it, and a
failed one stays where it was (`WillIndexStays`).  What a writer has still to do is in the order that
makes this true (`InOrder`): after a store come the reread, the posting and the upsert, and an old
record is out of force before it is purged.  Deletions, their failures and retries leave a record in
force undisturbed (`DeletionLeaves`), beside any number of them.  Three hypotheses name what section 3
says breaks it: `OneThread` calls the engine; `NothingComesBack`: no status patch to an active status,
and no corrections beside hard deletions; `CallsSucceed`: no interruptions, and fewer failures of the
vector index than attempts, so no operation is given up.  The run satisfies all three, and dropping
any part of one of them gives TLC a counterexample.

**Resolver and reflection.**  `BundleIsSound` and `BundleIsComplete` are about the operators alone: any
store, any hits, any ranking the weights allow; they go through what filtering, diversity and budgets
do to a sequence.  `ReflectionInv` has five parts.  `TablesInv`: `recent` lists each row once.
`ProposalsInv`: no record is its own duplicate, which rests on how a cluster and its primary are
computed.  `MergeInv`: a merge has handled each duplicate it has passed, and stands at none that was
deleted before it.  `DeleteInv`: the records of a deletion in progress are closed under all edges that
are not late, as the graph was when it began and no such edge was added since.  `CascadeInv`: beside a
tombstoned record each linked one is tombstoned or some deletion has it still to do.
`DeletionCascades` is that without deletions in progress.

**Induction over data.**  The library's induction theorems take a predicate, which the provers cannot
instantiate.  `SetInduction` states induction for a *set* of numbers, from the well-foundedness of
`<` as a relation; with it `FoldExists` shows that the recursive function behind `FoldLeft` exists, and
`StaysIn` what a fold preserves.  So the resolver's and the clustering's loops are proved for sequences of
any length.

Only model-checked:

* `EveryOpSettles`, `JobsSettle`, `StopEndsLoops`: liveness under fairness.
* The three disagreements of section 3, which are counterexamples.

## 5. Plan

Proofs: that the log of `DeletionService` and `MemoryEngine` is the one `SerialIndex` promises.

Models: the SQLite write lock that a refused link leaves taken, which lets every other thread's
write run into the busy timeout; two writers of one record, with the property their order allows.

## 6. Not modelled

* A second process on one database file: excluded by design (`coordinator.py:5-7`), enforced by
  nothing; its constructor would reset the operation the first one is applying.
* Version rows, source spans, confidence, salience and timestamps of the store; `explain_memory`,
  `op_status`, `audit_log` and the other reads that no operation depends on.
* The text of memories, tokenising, BM25, embeddings, similarity, `top_k`: whatever they choose, the
  properties speak of every choice.  The embedder is pure arithmetic.
* Sensitivity is modelled, but every record of the runs is normal: the policy only drops entries.
* HTTP dispatch, CLI and migrations: no state of their own.
* The reads of one `verify_not_retrievable`, of one filter pass of a recall, of one bundle and of one
  audit are one step each.
