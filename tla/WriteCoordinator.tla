-------------------------- MODULE WriteCoordinator --------------------------
(***************************************************************************)
(* The write coordinator (strata/coordinator): a durable operation log in  *)
(* SQLite, drained by threads that call apply_next under one lock, and the *)
(* vector indexes its handlers mutate.                                     *)
(*                                                                         *)
(* One action is one commit or one call that leaves the process: choosing  *)
(* an operation, marking it in_progress, running the handler, recording    *)
(* the ack of one record, and closing the attempt are separate steps, so   *)
(* a crash or another thread may come between any two of them.             *)
(*                                                                         *)
(* A log row is named by its sequence number.  The content of an index is  *)
(* abstracted to the sequence number of the upsert that wrote the entry.   *)
(* enqueue is idempotent on op_id (INSERT OR IGNORE): enqueueing an        *)
(* operation again changes nothing and is not an action here.              *)
(***************************************************************************)
EXTENDS Operations

CONSTANTS
    Drivers,        \* threads that call run_until_idle
    Workers,        \* the drivers that are WriterWorker threads
    Submissions,    \* the operations callers may enqueue
    MaxAttempts,    \* max_attempts
    IndexSurvives,  \* whether the indexes keep their entries over a restart
    Free,           \* the value of write_lock when no thread holds it
    MaxOps,         \* bound: rows in the log
    MaxCrashes,     \* bound: restarts
    MaxRetries,     \* bound: calls of retry
    MaxAborts       \* bound: storage errors inside apply_next

Seqs == 1..MaxOps

ASSUME ConstantsAssumption ==
    /\ Registered \subseteq Targets
    /\ Workers \subseteq Drivers
    /\ Submissions \subseteq Operation
    /\ MaxAttempts \in Nat \ {0}
    /\ IndexSurvives \in BOOLEAN
    /\ Free \notin Drivers
    /\ MaxOps \in Nat /\ MaxCrashes \in Nat /\ MaxRetries \in Nat /\ MaxAborts \in Nat

OpStates == {"pending", "in_progress", "partial_failure", "done", "failed"}

VARIABLES
    len,            \* rows in op_log
    op,             \* op_log: the operation of each row
    state,          \* op_log.state, "none" for a row not yet written
    attempts,       \* op_log.attempts
    backoff,        \* op_log.next_attempt_at lies in the future
    acks,           \* index_acknowledgements, per row and record
    index,          \* per target and record: the upsert stored there, 0 if none
    write_lock,     \* the thread that holds write_lock, or Free
    pc, cur,        \* per thread: where it is in apply_next, with which row
    acked,          \* per thread: the ids its handler acknowledged
    unrecorded,     \* per thread: the ids whose ack is still to be recorded
    touched,        \* history: the rows ever handed to a handler
    revived,        \* history: the rows retried after they had failed
    crashes, retries, aborts        \* bound counters

logVars == <<len, op, state, attempts, backoff>>
threadVars == <<write_lock, pc, cur, acked, unrecorded>>
boundVars == <<crashes, retries, aborts>>
vars == <<logVars, acks, index, threadVars, touched, revived, boundVars>>

PcValues == {"idle", "selected", "marked", "acking", "raised", "dead"}

TypeOK ==
    /\ len \in 0..MaxOps
    /\ op \in [Seqs -> Operation \cup {NoOp}]
    /\ state \in [Seqs -> OpStates \cup {"none"}]
    /\ attempts \in [Seqs -> Nat]
    /\ backoff \in [Seqs -> BOOLEAN]
    /\ acks \in [Seqs -> [RecordIds -> {"none", "success", "failure"}]]
    /\ index \in [Targets -> [RecordIds -> 0..MaxOps]]
    /\ write_lock \in Drivers \cup {Free}
    /\ pc \in [Drivers -> PcValues]
    /\ cur \in [Drivers -> 0..MaxOps]
    /\ acked \in [Drivers -> SUBSET RecordIds]
    /\ unrecorded \in [Drivers -> SUBSET RecordIds]
    /\ touched \subseteq Seqs
    /\ revived \subseteq Seqs
    /\ crashes \in Nat /\ retries \in Nat /\ aborts \in Nat

-----------------------------------------------------------------------------
(* Scheduling                                                              *)

Logged == 1..len

Closed(i) == state[i] \in {"done", "failed"}

Open(i) == i \in Logged /\ ~Closed(i)

(* Mutated form of Blocked: an operation in backoff holds up nothing. *)
BlockedByRunnable(i) ==
    \E e \in Logged : e < i /\ Open(e) /\ ~backoff[e] /\ Conflicts(op[e], op[i])

(* Mutated form of Blocked: a removal is no barrier. *)
BlockedBySharedId(i) ==
    \E e \in Logged : e < i /\ Open(e) /\ op[e].target_ids \cap op[i].target_ids # {}

(* _blocked: an earlier row that is neither done nor failed conflicts.     *)
Blocked(i) == \E e \in Logged : e < i /\ Open(e) /\ Conflicts(op[e], op[i])

Eligible(i) ==
    /\ i \in Logged
    /\ state[i] \in {"pending", "partial_failure"}
    /\ ~backoff[i]
    /\ ~Blocked(i)

Effect(i) == EffectOf(op[i], i)

(* Mutated form of LockAvailable: the lock of apply_next is left out. *)
NoLock == TRUE

LockAvailable == write_lock = Free

-----------------------------------------------------------------------------
Init ==
    /\ len = 0
    /\ op = [i \in Seqs |-> NoOp]
    /\ state = [i \in Seqs |-> "none"]
    /\ attempts = [i \in Seqs |-> 0]
    /\ backoff = [i \in Seqs |-> FALSE]
    /\ acks = [i \in Seqs |-> [r \in RecordIds |-> "none"]]
    /\ index = EmptyIndex
    /\ write_lock = Free
    /\ pc = [d \in Drivers |-> "idle"]
    /\ cur = [d \in Drivers |-> 0]
    /\ acked = [d \in Drivers |-> {}]
    /\ unrecorded = [d \in Drivers |-> {}]
    /\ touched = {}
    /\ revived = {}
    /\ crashes = 0 /\ retries = 0 /\ aborts = 0

(* enqueue: append a pending row.                                          *)
Enqueue(o) ==
    /\ len < MaxOps
    /\ len' = len + 1
    /\ op' = [op EXCEPT ![len + 1] = o]
    /\ state' = [state EXCEPT ![len + 1] = "pending"]
    /\ UNCHANGED <<attempts, backoff, acks, index, threadVars, touched, revived, boundVars>>

(* apply_next, first part: take the lock and choose the first eligible     *)
(* row.  When there is none the call returns and nothing changes.          *)
Select(d) ==
    /\ pc[d] = "idle"
    /\ LockAvailable
    /\ \E i \in Logged :
        /\ Eligible(i)
        /\ \A e \in Logged : e < i => ~Eligible(e)
        /\ cur' = [cur EXCEPT ![d] = i]
    /\ write_lock' = d
    /\ pc' = [pc EXCEPT ![d] = "selected"]
    /\ UNCHANGED <<logVars, acks, index, acked, unrecorded, touched, revived, boundVars>>

(* apply_next, second part: the row is committed as in_progress.           *)
Mark(d) ==
    /\ pc[d] = "selected"
    /\ state' = [state EXCEPT ![cur[d]] = "in_progress"]
    /\ pc' = [pc EXCEPT ![d] = "marked"]
    /\ UNCHANGED <<len, op, attempts, backoff, acks, index, write_lock, cur, acked,
                   unrecorded, touched, revived, boundVars>>

(* The handler runs.  It applies the operation to some of the records and  *)
(* either returns and acknowledges some of those, or raises half way and   *)
(* acknowledges none.  One that does not take the operation raises.        *)
Handle(d) ==
    /\ pc[d] = "marked"
    /\ \E answer \in {"acking", "raised"} : \E applied \in SUBSET Applicable(op[cur[d]]) :
        \E ok \in SUBSET applied :
            /\ answer = "acking" => Accepted(op[cur[d]])
            /\ answer = "raised" => ok = {}
            /\ index' = Apply(index, op[cur[d]], cur[d], applied)
            /\ acked' = [acked EXCEPT ![d] = ok]
            /\ pc' = [pc EXCEPT ![d] = answer]
    /\ unrecorded' = [unrecorded EXCEPT ![d] = op[cur[d]].target_ids]
    /\ touched' = touched \cup {cur[d]}
    /\ UNCHANGED <<logVars, acks, write_lock, cur, revived, boundVars>>

Handled(d) == pc[d] \in {"acking", "raised"}

(* _record_acks: the ack of one record is committed.                       *)
RecordAck(d) ==
    /\ Handled(d)
    /\ \E r \in unrecorded[d] :
        /\ acks' = [acks EXCEPT ![cur[d]][r] =
                        IF r \in acked[d] THEN "success" ELSE "failure"]
        /\ unrecorded' = [unrecorded EXCEPT ![d] = @ \ {r}]
    /\ UNCHANGED <<logVars, index, write_lock, pc, cur, acked, touched, revived, boundVars>>

Release(d) ==
    /\ write_lock' = Free
    /\ cur' = [cur EXCEPT ![d] = 0]
    /\ acked' = [acked EXCEPT ![d] = {}]
    /\ unrecorded' = [unrecorded EXCEPT ![d] = {}]

(* Mutated form of AllAcked: one acknowledged record is enough. *)
AnyAcked(d) == acked[d] # {}

AllAcked(d) == op[cur[d]].target_ids \subseteq acked[d]

(* _finish: the handler returned and acknowledged every record.            *)
Finish(d) ==
    /\ pc[d] = "acking" /\ unrecorded[d] = {}
    /\ AllAcked(d)
    /\ state' = [state EXCEPT ![cur[d]] = "done"]
    /\ pc' = [pc EXCEPT ![d] = "idle"]
    /\ Release(d)
    /\ UNCHANGED <<len, op, attempts, backoff, acks, index, touched, revived, boundVars>>

Exhausted(n) == n >= MaxAttempts

(* _fail_or_retry, after an exception always, whatever the records are:    *)
(* give up after max_attempts, otherwise back off.                         *)
FailOrRetry(d) ==
    /\ Handled(d) /\ unrecorded[d] = {}
    /\ pc[d] = "raised" \/ ~AllAcked(d)
    /\ LET i == cur[d] IN
        /\ attempts' = [attempts EXCEPT ![i] = @ + 1]
        /\ IF Exhausted(attempts[i] + 1)
           THEN /\ state' = [state EXCEPT ![i] = "failed"]
                /\ UNCHANGED backoff
           ELSE /\ state' = [state EXCEPT ![i] = "partial_failure"]
                /\ backoff' = [backoff EXCEPT ![i] = TRUE]
    /\ pc' = [pc EXCEPT ![d] = "idle"]
    /\ Release(d)
    /\ UNCHANGED <<len, op, acks, index, touched, revived, boundVars>>

(* The clock passes next_attempt_at.                                       *)
BackoffExpires(i) ==
    /\ backoff[i]
    /\ backoff' = [backoff EXCEPT ![i] = FALSE]
    /\ UNCHANGED <<len, op, state, attempts, acks, index, threadVars, touched, revived,
                   boundVars>>

(* retry: any thread, without the lock, puts a failed or backed-off row    *)
(* back to pending.  The attempt count stays.                              *)
Retry(i) ==
    /\ retries < MaxRetries
    /\ state[i] \in {"partial_failure", "failed"}
    /\ state' = [state EXCEPT ![i] = "pending"]
    /\ backoff' = [backoff EXCEPT ![i] = FALSE]
    /\ revived' = IF state[i] = "failed" THEN revived \cup {i} ELSE revived
    /\ retries' = retries + 1
    /\ UNCHANGED <<len, op, attempts, acks, index, threadVars, touched, crashes, aborts>>

(* A storage error in _set_state, _record_acks, _finish or _fail_or_retry  *)
(* leaves apply_next: the with statement frees the lock, the row keeps the *)
(* state it has.  A caller's thread sees the exception and may call again; *)
(* the worker's loop does not catch it and its thread ends.                *)
Abort(d) ==
    /\ aborts < MaxAborts
    /\ pc[d] = "selected" \/ Handled(d)
    /\ pc' = [pc EXCEPT ![d] = IF d \in Workers THEN "dead" ELSE "idle"]
    /\ Release(d)
    /\ aborts' = aborts + 1
    /\ UNCHANGED <<logVars, acks, index, touched, revived, crashes, retries>>

(* Mutated form of Recovered: the constructor leaves the rows alone. *)
NotRecovered(s) == s

(* recover: an interrupted row is replayed.                                *)
Recovered(s) == IF s = "in_progress" THEN "pending" ELSE s

(* The process dies at any point and starts again: threads and locks are   *)
(* gone, and the constructor's recover() resets interrupted rows before    *)
(* any thread of the new process runs.                                     *)
Crash ==
    /\ crashes < MaxCrashes
    /\ crashes' = crashes + 1
    /\ state' = [i \in Seqs |-> Recovered(state[i])]
    /\ index' = IF IndexSurvives THEN index ELSE EmptyIndex
    /\ write_lock' = Free
    /\ pc' = [d \in Drivers |-> "idle"]
    /\ cur' = [d \in Drivers |-> 0]
    /\ acked' = [d \in Drivers |-> {}]
    /\ unrecorded' = [d \in Drivers |-> {}]
    /\ UNCHANGED <<len, op, attempts, backoff, acks, touched, revived, retries, aborts>>

InsideApplyNext(d) ==
    Mark(d) \/ Handle(d) \/ RecordAck(d) \/ Finish(d) \/ FailOrRetry(d)

Next ==
    \/ \E o \in Submissions : Enqueue(o)
    \/ \E d \in Drivers : Select(d) \/ InsideApplyNext(d) \/ Abort(d)
    \/ \E i \in Seqs : BackoffExpires(i) \/ Retry(i)
    \/ Crash

Spec == Init /\ [][Next]_vars

(* A thread inside apply_next goes on, a worker keeps calling it (its loop *)
(* polls every idle_wait_s, so a lost wake-up only delays it), and time    *)
(* passes.  Other threads need never call run_until_idle.                  *)
Fairness ==
    /\ \A d \in Drivers : WF_vars(InsideApplyNext(d))
    /\ \A d \in Workers : WF_vars(Select(d))
    /\ \A i \in Seqs : WF_vars(BackoffExpires(i))

FairSpec == Spec /\ Fairness

-----------------------------------------------------------------------------
(* Properties                                                              *)

(* Rows are attempted in order: once a row was handed to its handler,      *)
(* every earlier row it conflicts with is done or failed for good, or is   *)
(* one that retry brought back after it had failed (_blocked, retry).      *)
AppliedInOrder ==
    \A j \in touched : \A i \in Logged :
        i < j /\ Conflicts(op[i], op[j]) /\ i \notin revived => Closed(i)

Touches(j, t, r) == op[j].target = t /\ r \in op[j].target_ids

(* Another attempted row wrote the same entry after row i in the order     *)
(* that holds: a later row, or one that was revived.                       *)
Overtaken(i, r) ==
    \E j \in touched \ {i} : Touches(j, op[i].target, r) /\ (j > i \/ j \in revived)

(* The index shows the newest completed work: a done row is still what the *)
(* index holds for each of its records, until a later row (or a revived    *)
(* one) on the same record is attempted.  Crashes and replays in between   *)
(* do not lose or reorder it, as long as the index itself survives them.   *)
NewestDoneInIndex ==
    IndexSurvives =>
        \A i \in Logged : state[i] = "done" =>
            \A r \in op[i].target_ids :
                index[op[i].target][r] = Effect(i) \/ Overtaken(i, r)

(* The acks on record agree with the outcome: a done row has a success for *)
(* every record, a row that failed or backs off has a failure for some (if *)
(* it has a record at all), even when an earlier attempt was interrupted   *)
(* between two ack commits (_record_acks, _finish, _fail_or_retry,         *)
(* recover).                                                               *)
AcksMatchOutcome ==
    \A i \in Logged :
        /\ state[i] = "done" => \A r \in op[i].target_ids : acks[i][r] = "success"
        /\ state[i] \in {"partial_failure", "failed"} /\ op[i].target_ids # {} =>
                \E r \in op[i].target_ids : acks[i][r] = "failure"

(* The coordinator is a serial index: every step of its threads is a step  *)
(* of SerialIndex or changes nothing there, restarts and aborts included.  *)
Outcome(s) == IF s \in {"none", "done", "failed"} THEN s ELSE "open"

Serial == INSTANCE SerialIndex
            WITH Durable <- IndexSurvives,
                 outcome <- [i \in Seqs |-> Outcome(state[i])]

ImplementsSerialIndex == Serial!Spec

(* Every enqueued row is eventually done or failed: no backoff, barrier,   *)
(* failing handler or restart leaves the log stuck behind it.  Only a      *)
(* storage error that ended an attempt half way may.                       *)
EveryOpSettles == \A i \in Seqs : Open(i) ~> Closed(i) \/ aborts > 0

=============================================================================
