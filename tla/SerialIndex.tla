---------------------------- MODULE SerialIndex -----------------------------
(***************************************************************************)
(* What the write coordinator promises the rest of the system: a log of    *)
(* operations applied one at a time and in log order wherever two of them  *)
(* conflict.  No threads, locks, backoff, acks or restarts: an operation   *)
(* is open until it is closed as done or failed, an attempt at it changes  *)
(* the index for some of its records, and it closes as done only while all *)
(* of its records show its effect.                                         *)
(***************************************************************************)
EXTENDS Operations

CONSTANTS Submissions, MaxOps, Durable

VARIABLES
    len, op,        \* the log
    outcome,        \* "none" (not enqueued), "open", "done" or "failed"
    index,          \* per target and record: the upsert stored there
    revived         \* failed operations an operator has put back

vars == <<len, op, outcome, index, revived>>

Seqs == 1..MaxOps

Init ==
    /\ len = 0
    /\ op = [i \in Seqs |-> NoOp]
    /\ outcome = [i \in Seqs |-> "none"]
    /\ index = EmptyIndex
    /\ revived = {}

Enqueue(o) ==
    /\ len < MaxOps
    /\ len' = len + 1
    /\ op' = [op EXCEPT ![len + 1] = o]
    /\ outcome' = [outcome EXCEPT ![len + 1] = "open"]
    /\ UNCHANGED <<index, revived>>

(* An attempt waits for every earlier operation it conflicts with, except  *)
(* those that lost their place in the order by failing once.               *)
Attempt(i) ==
    /\ outcome[i] = "open"
    /\ \A e \in 1..len :
        e < i /\ Conflicts(op[e], op[i]) /\ outcome[e] = "open" => e \in revived
    /\ \E applied \in SUBSET Applicable(op[i]) :
        index' = Apply(index, op[i], i, applied)
    /\ UNCHANGED <<len, op, outcome, revived>>

Complete(i) ==
    /\ outcome[i] = "open"
    /\ \A r \in op[i].target_ids : index[op[i].target][r] = EffectOf(op[i], i)
    /\ outcome' = [outcome EXCEPT ![i] = "done"]
    /\ UNCHANGED <<len, op, index, revived>>

GiveUp(i) ==
    /\ outcome[i] = "open"
    /\ outcome' = [outcome EXCEPT ![i] = "failed"]
    /\ UNCHANGED <<len, op, index, revived>>

Revive(i) ==
    /\ outcome[i] = "failed"
    /\ outcome' = [outcome EXCEPT ![i] = "open"]
    /\ revived' = revived \cup {i}
    /\ UNCHANGED <<len, op, index>>

LoseIndex ==
    /\ ~Durable
    /\ index' = EmptyIndex
    /\ UNCHANGED <<len, op, outcome, revived>>

Next ==
    \/ \E o \in Submissions : Enqueue(o)
    \/ \E i \in Seqs : Attempt(i) \/ Complete(i) \/ GiveUp(i) \/ Revive(i)
    \/ LoseIndex

Spec == Init /\ [][Next]_vars

=============================================================================
