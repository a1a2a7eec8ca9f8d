----------------------- MODULE WriteCoordinatorProofs -----------------------
(***************************************************************************)
(* Proofs about WriteCoordinator for every set of records, targets and     *)
(* threads, every log length and every bound.                              *)
(***************************************************************************)
EXTENDS WriteCoordinator, TLAPS

-----------------------------------------------------------------------------
(* Types                                                                   *)

(* Applying a row keeps the index an index.                                *)
LEMMA ApplyType ==
    ASSUME TypeOK, NEW i \in Seqs, op[i] \in Operation,
           NEW applied \in SUBSET RecordIds
    PROVE  Apply(index, op[i], i, applied) \in [Targets -> [RecordIds -> 0..MaxOps]]
<1>1. EffectOf(op[i], i) \in 0..MaxOps
    BY ConstantsAssumption DEF EffectOf, Seqs
<1>2. op[i].target \in Targets
    BY DEF Operation
<1> QED
    BY <1>1, <1>2 DEF TypeOK, Apply

(* A thread inside apply_next works on a row of the log, and a row of the  *)
(* log holds an operation: without it Mark and Handle would not be typed.  *)
RowsHoldOps == \A i \in Logged : op[i] \in Operation /\ state[i] \in OpStates

BusyHasRow ==
    \A d \in Drivers : pc[d] \in {"selected", "marked", "acking", "raised"} => cur[d] \in Logged

TypeInv == TypeOK /\ RowsHoldOps /\ BusyHasRow

LEMMA TypeInit == Init => TypeInv
BY ConstantsAssumption
   DEF Init, TypeInv, TypeOK, RowsHoldOps, BusyHasRow, Logged, EmptyIndex, NoOp, Seqs,
       PcValues, OpStates

LEMMA TypeStep == TypeInv /\ [Next]_vars => TypeInv'
<1> SUFFICES ASSUME TypeInv, [Next]_vars PROVE TypeInv'
    OBVIOUS
<1> USE ConstantsAssumption DEF TypeInv, RowsHoldOps, BusyHasRow, Logged, Seqs
<1>1. ASSUME NEW o \in Submissions, Enqueue(o) PROVE TypeInv'
    <2>1. o \in Operation /\ len + 1 \in Seqs /\ len \in Nat
        BY <1>1 DEF Enqueue, TypeOK
    <2>2. TypeOK'
        BY <1>1, <2>1 DEF Enqueue, TypeOK, OpStates, threadVars, boundVars
    <2>3. RowsHoldOps'
        BY <1>1, <2>1 DEF Enqueue, TypeOK, OpStates
    <2>4. BusyHasRow'
        BY <1>1, <2>1 DEF Enqueue, TypeOK, threadVars
    <2> QED BY <2>2, <2>3, <2>4
<1>2. ASSUME NEW d \in Drivers, Select(d) PROVE TypeInv'
    <2>1. PICK i \in Logged : cur' = [cur EXCEPT ![d] = i]
        BY <1>2 DEF Select
    <2> QED
        BY <1>2, <2>1 DEF Select, TypeOK, PcValues, logVars, boundVars
<1>3. ASSUME NEW d \in Drivers, Mark(d) PROVE TypeInv'
    BY <1>3 DEF Mark, TypeOK, PcValues, OpStates, boundVars
<1>4. ASSUME NEW d \in Drivers, Handle(d) PROVE TypeInv'
    <2>1. cur[d] \in Seqs /\ op[cur[d]] \in Operation
        BY <1>4 DEF Handle, TypeOK
    <2>2. PICK answer \in {"acking", "raised"}, applied \in SUBSET Applicable(op[cur[d]]) :
            /\ index' = Apply(index, op[cur[d]], cur[d], applied)
            /\ \E ok \in SUBSET applied : acked' = [acked EXCEPT ![d] = ok]
            /\ pc' = [pc EXCEPT ![d] = answer]
        BY <1>4 DEF Handle
    <2>3. op[cur[d]].target_ids \subseteq RecordIds /\ applied \subseteq RecordIds
        BY <2>1 DEF Applicable, Operation
    <2>4. index' \in [Targets -> [RecordIds -> 0..MaxOps]]
        BY <2>1, <2>2, <2>3, ApplyType
    <2>5. acked' \in [Drivers -> SUBSET RecordIds]
        BY <2>2, <2>3 DEF TypeOK
    <2> QED
        BY <1>4, <2>1, <2>2, <2>3, <2>4, <2>5 DEF Handle, TypeOK, PcValues, logVars, boundVars
<1>5. ASSUME NEW d \in Drivers, RecordAck(d) PROVE TypeInv'
    <2>1. cur[d] \in Seqs
        BY <1>5 DEF RecordAck, Handled, TypeOK
    <2> QED
        BY <1>5, <2>1 DEF RecordAck, Handled, TypeOK, logVars, boundVars
<1>6. ASSUME NEW d \in Drivers, Finish(d) PROVE TypeInv'
    BY <1>6 DEF Finish, Release, TypeOK, PcValues, OpStates, boundVars
<1>7. ASSUME NEW d \in Drivers, FailOrRetry(d) PROVE TypeInv'
    <2>1. cur[d] \in Seqs /\ cur[d] \in Logged
        BY <1>7 DEF FailOrRetry, Handled, TypeOK
    <2>2. attempts' \in [Seqs -> Nat]
        BY <1>7, <2>1 DEF FailOrRetry, TypeOK
    <2>3. /\ state' \in [Seqs -> OpStates \cup {"none"}]
          /\ backoff' \in [Seqs -> BOOLEAN]
          /\ \A i \in Logged : state'[i] \in OpStates
        <3>1. CASE Exhausted(attempts[cur[d]] + 1)
            <4>1. state' = [state EXCEPT ![cur[d]] = "failed"] /\ backoff' = backoff
                BY <1>7, <3>1 DEF FailOrRetry
            <4> QED
                BY <2>1, <4>1 DEF TypeOK, OpStates
        <3>2. CASE ~Exhausted(attempts[cur[d]] + 1)
            <4>1. /\ state' = [state EXCEPT ![cur[d]] = "partial_failure"]
                  /\ backoff' = [backoff EXCEPT ![cur[d]] = TRUE]
                BY <1>7, <3>2 DEF FailOrRetry
            <4> QED
                BY <2>1, <4>1 DEF TypeOK, OpStates
        <3> QED
            BY <3>1, <3>2
    <2> QED
        BY <1>7, <2>2, <2>3 DEF FailOrRetry, Release, TypeOK, PcValues, boundVars
<1>8. ASSUME NEW d \in Drivers, Abort(d) PROVE TypeInv'
    BY <1>8 DEF Abort, Release, TypeOK, PcValues, logVars, boundVars
<1>9. ASSUME NEW i \in Seqs, BackoffExpires(i) PROVE TypeInv'
    BY <1>9 DEF BackoffExpires, TypeOK, threadVars, boundVars
<1>10. ASSUME NEW i \in Seqs, Retry(i) PROVE TypeInv'
    BY <1>10 DEF Retry, TypeOK, OpStates, threadVars, boundVars
<1>11. ASSUME Crash PROVE TypeInv'
    BY <1>11 DEF Crash, Recovered, EmptyIndex, TypeOK, PcValues, OpStates, boundVars
<1>12. CASE UNCHANGED vars
    BY <1>12 DEF vars, logVars, threadVars, boundVars, TypeOK
<1> QED
    BY <1>1, <1>2, <1>3, <1>4, <1>5, <1>6, <1>7, <1>8, <1>9, <1>10, <1>11, <1>12
    DEF Next, InsideApplyNext

(* Every variable keeps its type: in particular no handler, restart or     *)
(* retry makes apply_next work on a row that is not in the log.            *)
THEOREM TypeCorrect == Spec => []TypeOK
<1>1. TypeInv => TypeOK
    BY DEF TypeInv
<1> QED
    BY TypeInit, TypeStep, <1>1, PTL DEF Spec

-----------------------------------------------------------------------------
(* Order                                                                   *)

Busy(d) == pc[d] \in {"selected", "marked", "acking", "raised"}

(* AppliedInOrder is not inductive by itself: Handle relies on what Select *)
(* checked several steps earlier.  While a thread is inside apply_next it  *)
(* is the one that holds the lock, its row stays open, and the earlier     *)
(* rows it conflicts with stay closed.                                     *)
LockHeld == \A d \in Drivers : Busy(d) => write_lock = d

CurOpen == \A d \in Drivers : Busy(d) => ~Closed(cur[d])

CurInOrder ==
    \A d \in Drivers : Busy(d) =>
        \A i \in Logged :
            i < cur[d] /\ Conflicts(op[i], op[cur[d]]) /\ i \notin revived => Closed(i)

OrderInv ==
    /\ TypeInv
    /\ LockHeld
    /\ CurOpen
    /\ CurInOrder
    /\ touched \subseteq Logged
    /\ AppliedInOrder

(* What no step undoes: a row in the log stays there with its operation,   *)
(* and once closed it stays closed unless retry revives it.                *)
LogGrows ==
    /\ len <= len'
    /\ \A i \in Logged : op'[i] = op[i]
    /\ \A i \in Logged : Closed(i) => Closed(i)' \/ i \in revived'
    /\ revived \subseteq revived'

LEMMA LogGrowsStep == TypeInv /\ CurOpen /\ [Next]_vars => LogGrows
<1> SUFFICES ASSUME TypeInv, CurOpen, [Next]_vars PROVE LogGrows
    OBVIOUS
<1> USE ConstantsAssumption DEF TypeInv, LogGrows, Logged, Seqs, Closed, TypeOK
<1>1. ASSUME NEW o \in Submissions, Enqueue(o) PROVE LogGrows
    BY <1>1 DEF Enqueue
<1>2. ASSUME NEW d \in Drivers, Select(d) PROVE LogGrows
    BY <1>2 DEF Select, logVars
<1>3. ASSUME NEW d \in Drivers, Mark(d) PROVE LogGrows
    BY <1>3 DEF Mark, CurOpen, Busy
<1>4. ASSUME NEW d \in Drivers, Handle(d) PROVE LogGrows
    BY <1>4 DEF Handle, logVars
<1>5. ASSUME NEW d \in Drivers, RecordAck(d) PROVE LogGrows
    BY <1>5 DEF RecordAck, logVars
<1>6. ASSUME NEW d \in Drivers, Finish(d) PROVE LogGrows
    BY <1>6 DEF Finish
<1>7. ASSUME NEW d \in Drivers, FailOrRetry(d) PROVE LogGrows
    <2>1. ~Closed(cur[d])
        BY <1>7 DEF FailOrRetry, Handled, CurOpen, Busy
    <2>2. \E s \in OpStates : state' = [state EXCEPT ![cur[d]] = s]
        BY <1>7 DEF FailOrRetry, OpStates
    <2> QED
        BY <1>7, <2>1, <2>2 DEF FailOrRetry
<1>8. ASSUME NEW d \in Drivers, Abort(d) PROVE LogGrows
    BY <1>8 DEF Abort, logVars
<1>9. ASSUME NEW i \in Seqs, BackoffExpires(i) PROVE LogGrows
    BY <1>9 DEF BackoffExpires
<1>10. ASSUME NEW i \in Seqs, Retry(i) PROVE LogGrows
    BY <1>10 DEF Retry
<1>11. ASSUME Crash PROVE LogGrows
    BY <1>11 DEF Crash, Recovered
<1>12. CASE UNCHANGED vars
    BY <1>12 DEF vars, logVars
<1> QED
    BY <1>1, <1>2, <1>3, <1>4, <1>5, <1>6, <1>7, <1>8, <1>9, <1>10, <1>11, <1>12
    DEF Next, InsideApplyNext

LEMMA OrderInit == Init => OrderInv
BY TypeInit, ConstantsAssumption
   DEF Init, OrderInv, LockHeld, CurOpen, CurInOrder, Busy, AppliedInOrder, Logged

(* A step that hands no new row to a handler keeps AppliedInOrder.         *)
LEMMA KeepsOrder ==
    ASSUME OrderInv, LogGrows, TypeInv', touched' = touched
    PROVE  AppliedInOrder'
<1> SUFFICES ASSUME NEW j \in touched, NEW i \in Logged', i < j,
                    Conflicts(op'[i], op'[j]), i \notin revived'
             PROVE  Closed(i)'
    BY DEF AppliedInOrder
<1>1. j \in Logged /\ i \in Logged
    BY DEF OrderInv, TypeInv, TypeOK, Logged, Seqs
<1>2. op'[i] = op[i] /\ op'[j] = op[j] /\ i \notin revived
    BY <1>1 DEF LogGrows
<1>3. Closed(i)
    BY <1>1, <1>2 DEF OrderInv, AppliedInOrder
<1> QED
    BY <1>1, <1>3 DEF LogGrows

(* What holds of a busy thread goes on holding in a step that leaves it    *)
(* where it is and does not touch its row.                                 *)
LEMMA KeepsCur ==
    ASSUME OrderInv, LogGrows, NEW d \in Drivers, Busy(d), cur'[d] = cur[d]
    PROVE  \A i \in Logged' :
            i < cur'[d] /\ Conflicts(op'[i], op'[cur'[d]]) /\ i \notin revived' => Closed(i)'
<1> TAKE i \in Logged'
<1> HAVE i < cur'[d] /\ Conflicts(op'[i], op'[cur'[d]]) /\ i \notin revived'
<1>1. cur[d] \in Logged /\ i \in Logged
    BY DEF OrderInv, TypeInv, BusyHasRow, Busy, TypeOK, Logged, Seqs
<1>2. op'[i] = op[i] /\ op'[cur'[d]] = op[cur[d]] /\ i \notin revived
    BY <1>1 DEF LogGrows
<1>3. Closed(i)
    BY <1>1, <1>2 DEF OrderInv, CurInOrder
<1> QED
    BY <1>1, <1>3 DEF LogGrows

LEMMA OrderStep == OrderInv /\ [Next]_vars => OrderInv'
<1> SUFFICES ASSUME OrderInv, [Next]_vars PROVE OrderInv'
    OBVIOUS
<1> USE ConstantsAssumption
<1>t. TypeInv'
    BY TypeStep DEF OrderInv
<1>g. LogGrows
    BY LogGrowsStep DEF OrderInv
<1> DEFINE CurOk(d) == Busy(d) =>
                        /\ write_lock = d
                        /\ ~Closed(cur[d])
                        /\ \A i \in Logged :
                            i < cur[d] /\ Conflicts(op[i], op[cur[d]]) /\ i \notin revived
                                => Closed(i)
<1>c. (\A d \in Drivers : CurOk(d)') => LockHeld' /\ CurOpen' /\ CurInOrder'
    BY DEF LockHeld, CurOpen, CurInOrder
<1>k. ASSUME touched' = touched, \A d \in Drivers : CurOk(d)'
      PROVE  OrderInv'
    <2>1. touched' \subseteq Logged'
        BY <1>k, <1>g, <1>t DEF OrderInv, TypeInv, TypeOK, LogGrows, Logged, Seqs
    <2>2. AppliedInOrder'
        BY <1>k, <1>g, <1>t, KeepsOrder
    <2> QED
        BY <1>k, <1>c, <1>t, <2>1, <2>2 DEF OrderInv
(* A busy thread that keeps its row keeps CurOk if its row stays open.     *)
<1>s. ASSUME NEW d \in Drivers, Busy(d), cur'[d] = cur[d], write_lock' = write_lock,
             ~Closed(cur[d])'
      PROVE  CurOk(d)'
    BY <1>s, <1>g, KeepsCur DEF OrderInv, LockHeld
(* While one thread is busy no other is.                                   *)
<1>m. ASSUME NEW d \in Drivers, NEW e \in Drivers, Busy(d), Busy(e)
      PROVE  d = e
    BY <1>m DEF OrderInv, LockHeld
<1>i. TypeOK /\ \A d \in Drivers : Busy(d) => cur[d] \in Logged /\ cur[d] \in Seqs
    BY DEF OrderInv, TypeInv, BusyHasRow, Busy, TypeOK, Logged, Seqs
<1>o. \A d \in Drivers : Busy(d) => ~Closed(cur[d])
    BY DEF OrderInv, CurOpen
<1>1. ASSUME NEW o \in Submissions, Enqueue(o) PROVE OrderInv'
    <2>1. ASSUME NEW d \in Drivers PROVE CurOk(d)'
        BY <1>1, <1>i, <1>o, <1>s DEF Enqueue, threadVars, Busy, Closed, Logged, Seqs, TypeOK
    <2> QED
        BY <1>1, <1>k, <2>1 DEF Enqueue
<1>2. ASSUME NEW d \in Drivers, Select(d) PROVE OrderInv'
    <2>1. PICK i \in Logged : Eligible(i) /\ cur' = [cur EXCEPT ![d] = i]
        BY <1>2 DEF Select
    <2>2. \A e \in Drivers : ~Busy(e)
        BY <1>2 DEF Select, LockAvailable, OrderInv, LockHeld
    <2>3. \A j \in Logged : j < i /\ Conflicts(op[j], op[i]) => Closed(j)
        BY <2>1 DEF Eligible, Blocked, Open
    <2>4. ASSUME NEW e \in Drivers PROVE CurOk(e)'
        <3>1. CASE e = d
            BY <1>2, <1>i, <2>1, <2>3, <3>1
            DEF Select, logVars, Eligible, Closed, Busy, Logged, TypeOK
        <3>2. CASE e # d
            BY <1>2, <1>i, <2>2, <3>2 DEF Select, Busy, TypeOK
        <3> QED
            BY <3>1, <3>2
    <2> QED
        BY <1>2, <1>k, <2>4 DEF Select
<1>3. ASSUME NEW d \in Drivers, Mark(d) PROVE OrderInv'
    <2>1. ASSUME NEW e \in Drivers PROVE CurOk(e)'
        <3>1. CASE e = d
            BY <1>3, <1>i, <1>s, <3>1 DEF Mark, Busy, Closed, TypeOK
        <3>2. CASE e # d
            BY <1>3, <1>i, <1>m, <3>2 DEF Mark, Busy, TypeOK
        <3> QED
            BY <3>1, <3>2
    <2> QED
        BY <1>3, <1>k, <2>1 DEF Mark
<1>4. ASSUME NEW d \in Drivers, Handle(d) PROVE OrderInv'
    <2>1. Busy(d) /\ cur[d] \in Logged
        BY <1>4, <1>i DEF Handle, Busy
    <2>2. PICK answer \in {"acking", "raised"} : pc' = [pc EXCEPT ![d] = answer]
        BY <1>4 DEF Handle
    <2>3. ASSUME NEW e \in Drivers PROVE CurOk(e)'
        BY <1>4, <1>i, <1>o, <1>s, <2>2 DEF Handle, logVars, Busy, Closed, TypeOK
    <2>4. touched' = touched \cup {cur[d]} /\ len' = len /\ op' = op /\ state' = state
          /\ revived' = revived
        BY <1>4 DEF Handle, logVars
    <2>5. AppliedInOrder'
        BY <2>1, <2>4 DEF OrderInv, AppliedInOrder, CurInOrder, Closed, Logged
    <2>6. touched' \subseteq Logged'
        BY <2>1, <2>4 DEF OrderInv, Logged
    <2> QED
        BY <1>t, <1>c, <2>3, <2>5, <2>6 DEF OrderInv
<1>5. ASSUME NEW d \in Drivers, RecordAck(d) PROVE OrderInv'
    <2>1. ASSUME NEW e \in Drivers PROVE CurOk(e)'
        BY <1>5, <1>i, <1>o, <1>s DEF RecordAck, logVars, Busy, Closed, TypeOK
    <2> QED
        BY <1>5, <1>k, <2>1 DEF RecordAck
(* Finish, FailOrRetry and Abort end the attempt of the only busy thread.  *)
<1>r. ASSUME NEW d \in Drivers, Busy(d), NEW p \in {"idle", "dead"},
             pc' = [pc EXCEPT ![d] = p]
      PROVE  \A e \in Drivers : ~Busy(e)'
    BY <1>r, <1>i, <1>m DEF Busy, TypeOK
<1>6. ASSUME NEW d \in Drivers, Finish(d) PROVE OrderInv'
    <2>1. \A e \in Drivers : ~Busy(e)'
        BY <1>6, <1>r DEF Finish, Busy
    <2> QED
        BY <1>6, <1>k, <2>1 DEF Finish
<1>7. ASSUME NEW d \in Drivers, FailOrRetry(d) PROVE OrderInv'
    <2>1. \A e \in Drivers : ~Busy(e)'
        BY <1>7, <1>r DEF FailOrRetry, Handled, Busy
    <2> QED
        BY <1>7, <1>k, <2>1 DEF FailOrRetry
<1>8. ASSUME NEW d \in Drivers, Abort(d) PROVE OrderInv'
    <2>1. \A e \in Drivers : ~Busy(e)'
        BY <1>8, <1>r DEF Abort, Handled, Busy
    <2> QED
        BY <1>8, <1>k, <2>1 DEF Abort
<1>9. ASSUME NEW i \in Seqs, BackoffExpires(i) PROVE OrderInv'
    <2>1. ASSUME NEW d \in Drivers PROVE CurOk(d)'
        BY <1>9, <1>i, <1>o, <1>s DEF BackoffExpires, threadVars, Busy, Closed, TypeOK
    <2> QED
        BY <1>9, <1>k, <2>1 DEF BackoffExpires
<1>10. ASSUME NEW i \in Seqs, Retry(i) PROVE OrderInv'
    <2>1. ASSUME NEW d \in Drivers PROVE CurOk(d)'
        BY <1>10, <1>i, <1>o, <1>s DEF Retry, threadVars, Busy, Closed, TypeOK
    <2> QED
        BY <1>10, <1>k, <2>1 DEF Retry
<1>11. ASSUME Crash PROVE OrderInv'
    <2>1. \A d \in Drivers : ~Busy(d)'
        BY <1>11 DEF Crash, Busy
    <2> QED
        BY <1>11, <1>k, <2>1 DEF Crash
<1>12. CASE UNCHANGED vars
    <2>1. ASSUME NEW d \in Drivers PROVE CurOk(d)'
        BY <1>12, <1>i, <1>o, <1>s DEF vars, logVars, threadVars, Busy, Closed
    <2> QED
        BY <1>12, <1>k, <2>1 DEF vars
<1> QED
    BY <1>1, <1>2, <1>3, <1>4, <1>5, <1>6, <1>7, <1>8, <1>9, <1>10, <1>11, <1>12
    DEF Next, InsideApplyNext

(* No operation overtakes an earlier one it conflicts with, in any         *)
(* interleaving of callers, workers, retries, storage errors and restarts. *)
THEOREM Ordered == Spec => []AppliedInOrder
<1>1. OrderInv => AppliedInOrder
    BY DEF OrderInv
<1> QED
    BY OrderInit, OrderStep, <1>1, PTL DEF Spec

=============================================================================
