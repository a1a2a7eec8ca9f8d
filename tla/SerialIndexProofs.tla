-------------------------- MODULE SerialIndexProofs --------------------------
(***************************************************************************)
(* What the write coordinator's acks and indexes say, and that it          *)
(* implements SerialIndex, for every set of records, targets and threads,  *)
(* every log length and every bound.                                       *)
(***************************************************************************)
EXTENDS WriteCoordinatorProofs

-----------------------------------------------------------------------------
(* One attempt                                                             *)

(* From the commit of _mark to the end of the attempt the row stays        *)
(* in_progress: retry does not touch it and no other thread selects it.    *)
RowInProgress ==
    \A d \in Drivers : pc[d] = "marked" \/ Handled(d) => state[cur[d]] = "in_progress"

(* What a thread between its handler and the end of the attempt knows: the *)
(* ids its handler acknowledged show the row's effect, none are if it      *)
(* raised, and the acks recorded so far are those of this attempt.         *)
AttemptInv ==
    \A d \in Drivers : Handled(d) =>
        /\ pc[d] = "raised" => acked[d] = {}
        /\ cur[d] \in touched
        /\ acked[d] \subseteq op[cur[d]].target_ids
        /\ \A r \in acked[d] : index[op[cur[d]].target][r] = Effect(cur[d])
        /\ \A r \in op[cur[d]].target_ids \ unrecorded[d] :
                acks[cur[d]][r] = IF r \in acked[d] THEN "success" ELSE "failure"

DoneWasAttempted == \A i \in Logged : state[i] = "done" => i \in touched

IndexInv ==
    /\ OrderInv
    /\ RowInProgress
    /\ AttemptInv
    /\ DoneWasAttempted
    /\ AcksMatchOutcome
    /\ NewestDoneInIndex

LEMMA IndexInit == Init => IndexInv
BY OrderInit, ConstantsAssumption
   DEF Init, IndexInv, RowInProgress, AttemptInv, DoneWasAttempted, AcksMatchOutcome,
       NewestDoneInIndex, Logged, Handled

(* A step that writes neither acks nor the index, attempts no row and      *)
(* closes none as done or failed keeps what is said of the log's rows.     *)
LEMMA KeepsRows ==
    ASSUME IndexInv, TypeInv', LogGrows,
           touched' = touched, acks' = acks, index' = index,
           \A i \in Logged' :
                state'[i] \in {"done", "partial_failure", "failed"} =>
                    i \in Logged /\ state'[i] = state[i]
    PROVE  DoneWasAttempted' /\ AcksMatchOutcome' /\ NewestDoneInIndex'
<1>1. \A i \in Logged : op'[i] = op[i]
    BY DEF LogGrows
<1>2. touched \subseteq Logged
    BY DEF IndexInv, OrderInv
<1>3. DoneWasAttempted'
    BY DEF IndexInv, DoneWasAttempted
<1>4. AcksMatchOutcome'
    BY <1>1 DEF IndexInv, AcksMatchOutcome
<1>5. NewestDoneInIndex'
    <2> SUFFICES ASSUME IndexSurvives, NEW i \in Logged', state'[i] = "done",
                        NEW r \in op'[i].target_ids
                 PROVE  index'[op'[i].target][r] = Effect(i)' \/ Overtaken(i, r)'
        BY DEF NewestDoneInIndex
    <2>1. i \in Logged /\ op'[i] = op[i] /\ state[i] = "done"
        BY <1>1
    <2>2. index[op[i].target][r] = Effect(i) \/ Overtaken(i, r)
        BY <2>1 DEF IndexInv, NewestDoneInIndex
    <2>3. Overtaken(i, r) => Overtaken(i, r)'
        BY <1>1, <1>2, <2>1 DEF Overtaken, Touches, LogGrows
    <2> QED
        BY <2>1, <2>2, <2>3 DEF Effect
<1> QED
    BY <1>3, <1>4, <1>5

(* What is known of an attempt stays known in a step that leaves the       *)
(* thread, its row, the acks and the index alone.                          *)
LEMMA KeepsAttempts ==
    ASSUME IndexInv, LogGrows, touched \subseteq touched',
           \A d \in Drivers : Handled(d)' =>
                /\ pc'[d] = pc[d] /\ cur'[d] = cur[d] /\ acked'[d] = acked[d]
                /\ unrecorded'[d] = unrecorded[d],
           acks' = acks, index' = index
    PROVE  AttemptInv'
<1> SUFFICES ASSUME NEW d \in Drivers, Handled(d)'
             PROVE  /\ pc'[d] = "raised" => acked'[d] = {}
                    /\ cur'[d] \in touched'
                    /\ acked'[d] \subseteq op'[cur'[d]].target_ids
                    /\ \A r \in acked'[d] : index'[op'[cur'[d]].target][r] = Effect(cur[d])'
                    /\ \A r \in op'[cur'[d]].target_ids \ unrecorded'[d] :
                         acks'[cur'[d]][r] = IF r \in acked'[d] THEN "success" ELSE "failure"
    BY DEF AttemptInv
<1>1. Handled(d) /\ cur[d] \in Logged /\ op'[cur[d]] = op[cur[d]]
    BY DEF Handled, IndexInv, OrderInv, TypeInv, BusyHasRow, LogGrows
<1> QED
    BY <1>1 DEF IndexInv, AttemptInv, Effect

LEMMA IndexStep == IndexInv /\ [Next]_vars => IndexInv'
<1> SUFFICES ASSUME IndexInv, [Next]_vars PROVE IndexInv'
    OBVIOUS
<1> USE ConstantsAssumption
<1>o. OrderInv /\ OrderInv' /\ TypeInv /\ TypeInv'
    BY OrderStep DEF IndexInv, OrderInv
<1>g. LogGrows
    BY <1>o, LogGrowsStep DEF OrderInv
<1>t. TypeOK /\ TypeOK' /\ touched \subseteq Logged
    BY <1>o DEF OrderInv, TypeInv
<1>b. \A d \in Drivers : Busy(d) => cur[d] \in Logged /\ cur[d] \in Seqs
    BY <1>o DEF TypeInv, BusyHasRow, Busy, TypeOK, Logged, Seqs
<1>p. RowInProgress /\ AttemptInv
    BY DEF IndexInv
(* While one thread is busy no other is.                                   *)
<1>m. ASSUME NEW d \in Drivers, NEW e \in Drivers, Busy(d), Busy(e)
      PROVE  d = e
    BY <1>m, <1>o DEF OrderInv, LockHeld
<1>1. ASSUME NEW o \in Submissions, Enqueue(o) PROVE IndexInv'
    <2>1. /\ \A i \in Logged' : i = len + 1 \/ i \in Logged
          /\ len + 1 \in Seqs
          /\ \A i \in Seqs : state'[i] = IF i = len + 1 THEN "pending" ELSE state[i]
        BY <1>1, <1>t DEF Enqueue, TypeOK, Logged, Seqs
    <2>2. RowInProgress'
        BY <1>1, <1>t, <1>b, <1>p, <2>1
        DEF Enqueue, RowInProgress, Busy, Handled, threadVars, TypeOK, Logged, Seqs
    <2>3. AttemptInv'
        BY <1>1, <1>g, KeepsAttempts DEF Enqueue, Handled, threadVars
    <2>4. DoneWasAttempted' /\ AcksMatchOutcome' /\ NewestDoneInIndex'
        BY <1>1, <1>g, <1>o, <1>t, <2>1, KeepsRows DEF Enqueue, TypeOK, Logged, Seqs
    <2> QED BY <1>o, <2>2, <2>3, <2>4 DEF IndexInv
<1>2. ASSUME NEW d \in Drivers, Select(d) PROVE IndexInv'
    <2>1. \A e \in Drivers : ~Busy(e)
        BY <1>2, <1>o DEF Select, LockAvailable, OrderInv, LockHeld
    <2>2. \A e \in Drivers : pc'[e] # "marked" /\ ~Handled(e)'
        BY <1>2, <1>t, <2>1 DEF Select, Busy, Handled, TypeOK
    <2>3. RowInProgress' /\ AttemptInv'
        BY <2>2 DEF RowInProgress, AttemptInv
    <2>4. DoneWasAttempted' /\ AcksMatchOutcome' /\ NewestDoneInIndex'
        BY <1>2, <1>g, <1>o, KeepsRows DEF Select, logVars, Logged
    <2> QED BY <1>o, <2>3, <2>4 DEF IndexInv
<1>3. ASSUME NEW d \in Drivers, Mark(d) PROVE IndexInv'
    <2>1. \A e \in Drivers : Busy(e) => e = d
        BY <1>3, <1>m DEF Mark, Busy
    <2>2. cur[d] \in Seqs
        BY <1>3, <1>b DEF Mark, Busy
    <2>3. RowInProgress' /\ AttemptInv'
        BY <1>3, <1>t, <2>1, <2>2 DEF Mark, Busy, Handled, RowInProgress, AttemptInv, TypeOK
    <2>4. DoneWasAttempted' /\ AcksMatchOutcome' /\ NewestDoneInIndex'
        BY <1>3, <1>g, <1>o, <1>t, <2>2, KeepsRows DEF Mark, TypeOK, Logged, Seqs
    <2> QED BY <1>o, <2>3, <2>4 DEF IndexInv
<1>4. ASSUME NEW d \in Drivers, Handle(d) PROVE IndexInv'
    <2> DEFINE i == cur[d]
    <2>1. /\ Busy(d) /\ i \in Logged /\ i \in Seqs /\ state[i] = "in_progress"
          /\ op[i] \in Operation
        BY <1>4, <1>b, <1>o, <1>p DEF Handle, Busy, RowInProgress, TypeInv, RowsHoldOps
    <2>2. PICK answer \in {"acking", "raised"}, applied \in SUBSET Applicable(op[i]) :
            \E ok \in SUBSET applied :
                /\ answer = "raised" => ok = {}
                /\ index' = Apply(index, op[i], i, applied)
                /\ acked' = [acked EXCEPT ![d] = ok]
                /\ pc' = [pc EXCEPT ![d] = answer]
        BY <1>4 DEF Handle
    <2>3. PICK ok \in SUBSET applied :
            /\ answer = "raised" => ok = {}
            /\ index' = Apply(index, op[i], i, applied)
            /\ acked' = [acked EXCEPT ![d] = ok]
            /\ pc' = [pc EXCEPT ![d] = answer]
        BY <2>2
    <2>4. /\ applied \subseteq op[i].target_ids
          /\ op[i].target_ids \subseteq RecordIds /\ op[i].target \in Targets
        BY <2>1 DEF Applicable, Operation
    <2>5. /\ op' = op /\ state' = state /\ len' = len /\ cur' = cur /\ acks' = acks
          /\ touched' = touched \cup {i}
          /\ unrecorded' = [unrecorded EXCEPT ![d] = op[i].target_ids]
          /\ revived' = revived
        BY <1>4 DEF Handle, logVars
    <2>6. \A t \in Targets, r \in RecordIds :
            index'[t][r] = IF t = op[i].target /\ r \in applied THEN Effect(i)
                           ELSE index[t][r]
        BY <2>3, <2>4, <1>t DEF Apply, Effect, TypeOK
    <2>7. RowInProgress'
        BY <1>t, <1>p, <2>1, <2>3, <2>5 DEF RowInProgress, Handled, TypeOK
    <2>8. AttemptInv'
        <3> SUFFICES ASSUME NEW e \in Drivers, Handled(e)'
                     PROVE  /\ pc'[e] = "raised" => acked'[e] = {}
                            /\ cur'[e] \in touched'
                            /\ acked'[e] \subseteq op'[cur'[e]].target_ids
                            /\ \A r \in acked'[e] :
                                 index'[op'[cur'[e]].target][r] = Effect(cur[e])'
                            /\ \A r \in op'[cur'[e]].target_ids \ unrecorded'[e] :
                                 acks'[cur'[e]][r] =
                                    IF r \in acked'[e] THEN "success" ELSE "failure"
            BY DEF AttemptInv
        <3>1. e = d
            BY <1>m, <1>t, <2>1, <2>3 DEF Busy, Handled, TypeOK
        <3>2. acked'[d] = ok /\ pc'[d] = answer /\ unrecorded'[d] = op[i].target_ids
            BY <1>t, <2>3, <2>5 DEF TypeOK
        <3> QED
            BY <2>3, <2>4, <2>5, <2>6, <3>1, <3>2 DEF Effect
    <2>9. DoneWasAttempted' /\ AcksMatchOutcome'
        BY <2>5 DEF IndexInv, DoneWasAttempted, AcksMatchOutcome, Logged
(* A done row whose entry this attempt overwrites is overtaken: a row that *)
(* is still open and neither later nor revived could not be attempted.     *)
    <2>10. NewestDoneInIndex'
        <3> SUFFICES ASSUME IndexSurvives, NEW k \in Logged, state[k] = "done",
                            NEW r \in op[k].target_ids
                     PROVE  index'[op[k].target][r] = Effect(k) \/ Overtaken(k, r)'
            BY <2>5 DEF NewestDoneInIndex, Logged, Effect
        <3>1. index[op[k].target][r] = Effect(k) \/ Overtaken(k, r)
            BY DEF IndexInv, NewestDoneInIndex
        <3>2. Overtaken(k, r) => Overtaken(k, r)'
            BY <2>5 DEF Overtaken, Touches
        <3>3. k \in touched /\ op[k] \in Operation /\ k # i
            BY <1>o, <2>1 DEF IndexInv, DoneWasAttempted, TypeInv, RowsHoldOps
        <3>4. r \in RecordIds /\ op[k].target \in Targets
            BY <3>3 DEF Operation
        <3>5. ASSUME op[k].target = op[i].target, r \in applied
              PROVE  Overtaken(k, r)'
            <4>1. i \in touched' \ {k} /\ Touches(i, op[k].target, r)
                BY <2>4, <2>5, <3>3, <3>5 DEF Touches
            <4>2. i > k \/ i \in revived
                <5>1. CASE i < k
                    <6>1. Conflicts(op[i], op[k])
                        BY <2>4, <3>5 DEF Conflicts
                    <6>2. ~Closed(i)
                        BY <2>1 DEF Closed
                    <6> QED
                        BY <1>o, <2>1, <3>3, <5>1, <6>1, <6>2 DEF OrderInv, AppliedInOrder
                <5>2. CASE ~(i < k)
                    BY <2>1, <3>3, <5>2 DEF Logged, Seqs
                <5> QED BY <5>1, <5>2
            <4> QED
                BY <2>5, <4>1, <4>2 DEF Overtaken, Touches
        <3>6. CASE ~(op[k].target = op[i].target /\ r \in applied)
            BY <2>6, <3>1, <3>2, <3>4, <3>6
        <3> QED
            BY <3>5, <3>6
    <2> QED BY <1>o, <2>7, <2>8, <2>9, <2>10 DEF IndexInv
<1>5. ASSUME NEW d \in Drivers, RecordAck(d) PROVE IndexInv'
    <2> DEFINE i == cur[d]
    <2>1. Busy(d) /\ i \in Logged /\ i \in Seqs /\ state[i] = "in_progress"
        BY <1>5, <1>b, <1>p DEF RecordAck, Busy, Handled, RowInProgress
    <2>2. PICK r \in unrecorded[d] :
            /\ acks' = [acks EXCEPT ![i][r] =
                            IF r \in acked[d] THEN "success" ELSE "failure"]
            /\ unrecorded' = [unrecorded EXCEPT ![d] = @ \ {r}]
        BY <1>5 DEF RecordAck
    <2>3. /\ op' = op /\ state' = state /\ len' = len /\ cur' = cur /\ index' = index
          /\ touched' = touched /\ revived' = revived /\ pc' = pc /\ acked' = acked
        BY <1>5 DEF RecordAck, logVars
    <2>4. r \in RecordIds
        BY <1>t DEF TypeOK
    <2>5. /\ \A k \in Seqs : k # i => acks'[k] = acks[k]
          /\ \A x \in RecordIds :
                acks'[i][x] = IF x = r THEN IF r \in acked[d] THEN "success" ELSE "failure"
                              ELSE acks[i][x]
        BY <1>t, <2>1, <2>2, <2>4 DEF TypeOK
    <2>6. RowInProgress'
        BY <1>p, <2>3 DEF RowInProgress, Handled
    <2>7. AttemptInv'
        <3> SUFFICES ASSUME NEW e \in Drivers, Handled(e)
                     PROVE  /\ pc[e] = "raised" => acked[e] = {}
                            /\ cur[e] \in touched
                            /\ acked[e] \subseteq op[cur[e]].target_ids
                            /\ \A x \in acked[e] :
                                 index[op[cur[e]].target][x] = Effect(cur[e])
                            /\ \A x \in op[cur[e]].target_ids \ unrecorded'[e] :
                                 acks'[cur[e]][x] =
                                    IF x \in acked[e] THEN "success" ELSE "failure"
            BY <2>3 DEF AttemptInv, Handled, Effect
        <3>1. e = d
            BY <1>m, <2>1 DEF Busy, Handled
        <3>2. unrecorded'[d] = unrecorded[d] \ {r}
            BY <1>t, <2>2 DEF TypeOK
        <3>3. op[i].target_ids \subseteq RecordIds
            BY <1>o, <2>1 DEF TypeInv, RowsHoldOps, Operation
        <3> QED
            BY <1>p, <2>5, <3>1, <3>2, <3>3 DEF AttemptInv
    <2>8. DoneWasAttempted' /\ NewestDoneInIndex'
        BY <2>3 DEF IndexInv, DoneWasAttempted, NewestDoneInIndex, Overtaken, Touches,
                    Logged, Effect
    <2>9. AcksMatchOutcome'
        <3>1. Logged' = Logged /\ Logged \subseteq Seqs
            BY <1>t, <2>3 DEF Logged, Seqs, TypeOK
        <3>2. \A k \in Logged :
                state[k] \in {"done", "partial_failure", "failed"} => acks'[k] = acks[k]
            BY <2>1, <2>5, <3>1
        <3> QED
            BY <2>3, <3>1, <3>2 DEF IndexInv, AcksMatchOutcome
    <2> QED BY <1>o, <2>6, <2>7, <2>8, <2>9 DEF IndexInv
(* Finish and FailOrRetry close the attempt with the acks it recorded.     *)
<1>e. ASSUME NEW d \in Drivers, Handled(d), pc' = [pc EXCEPT ![d] = "idle"]
      PROVE  RowInProgress' /\ AttemptInv'
    <2>1. \A e \in Drivers : pc'[e] # "marked" /\ ~Handled(e)'
        BY <1>e, <1>m, <1>t DEF Busy, Handled, TypeOK
    <2> QED
        BY <2>1 DEF RowInProgress, AttemptInv
<1>6. ASSUME NEW d \in Drivers, Finish(d) PROVE IndexInv'
    <2> DEFINE i == cur[d]
    <2>1. Busy(d) /\ i \in Logged /\ i \in Seqs /\ i \in touched
        BY <1>6, <1>b, <1>p DEF Finish, Busy, Handled, AttemptInv
    <2>2. /\ unrecorded[d] = {} /\ op[i].target_ids \subseteq acked[d]
          /\ state' = [state EXCEPT ![i] = "done"]
          /\ op' = op /\ len' = len /\ acks' = acks /\ index' = index
          /\ touched' = touched /\ revived' = revived
        BY <1>6 DEF Finish, AllAcked
    <2>3. /\ \A r \in op[i].target_ids : acks[i][r] = "success"
          /\ \A r \in op[i].target_ids : index[op[i].target][r] = Effect(i)
        BY <1>6, <1>p, <2>2 DEF Finish, Handled, AttemptInv
    <2>4. state'[i] = "done" /\ \A k \in Seqs : k # i => state'[k] = state[k]
        BY <1>t, <2>1, <2>2 DEF TypeOK
    <2>5. Logged' = Logged /\ Logged \subseteq Seqs
        BY <1>t, <2>2 DEF Logged, Seqs, TypeOK
    <2>6. DoneWasAttempted'
        BY <2>1, <2>2, <2>4, <2>5 DEF IndexInv, DoneWasAttempted
    <2>7. AcksMatchOutcome'
        BY <2>2, <2>3, <2>4, <2>5 DEF IndexInv, AcksMatchOutcome
    <2>8. NewestDoneInIndex'
        BY <2>2, <2>3, <2>4, <2>5
        DEF IndexInv, NewestDoneInIndex, Overtaken, Touches, Effect
    <2> QED BY <1>6, <1>e, <1>o, <2>6, <2>7, <2>8 DEF IndexInv, Finish, Handled
<1>7. ASSUME NEW d \in Drivers, FailOrRetry(d) PROVE IndexInv'
    <2> DEFINE i == cur[d]
    <2>1. Busy(d) /\ i \in Logged /\ i \in Seqs
        BY <1>7, <1>b DEF FailOrRetry, Handled, Busy
    <2>2. /\ unrecorded[d] = {} /\ (pc[d] = "raised" \/ ~(op[i].target_ids \subseteq acked[d]))
          /\ \E s \in {"failed", "partial_failure"} : state' = [state EXCEPT ![i] = s]
          /\ op' = op /\ len' = len /\ acks' = acks /\ index' = index
          /\ touched' = touched /\ revived' = revived
        BY <1>7 DEF FailOrRetry, AllAcked
    <2>3. op[i].target_ids # {} => \E r \in op[i].target_ids : acks[i][r] = "failure"
        BY <1>7, <1>p, <2>2 DEF FailOrRetry, AttemptInv
    <2>4. /\ state'[i] \in {"failed", "partial_failure"}
          /\ \A k \in Seqs : k # i => state'[k] = state[k]
        BY <1>t, <2>1, <2>2 DEF TypeOK
    <2>5. Logged' = Logged /\ Logged \subseteq Seqs
        BY <1>t, <2>2 DEF Logged, Seqs, TypeOK
    <2>6. DoneWasAttempted'
        BY <2>2, <2>4, <2>5 DEF IndexInv, DoneWasAttempted
    <2>7. AcksMatchOutcome'
        BY <2>2, <2>3, <2>4, <2>5 DEF IndexInv, AcksMatchOutcome
    <2>8. NewestDoneInIndex'
        BY <2>2, <2>4, <2>5 DEF IndexInv, NewestDoneInIndex, Overtaken, Touches, Effect
    <2> QED BY <1>7, <1>e, <1>o, <2>6, <2>7, <2>8 DEF IndexInv, FailOrRetry
<1>8. ASSUME NEW d \in Drivers, Abort(d) PROVE IndexInv'
    <2>1. \A e \in Drivers : Busy(e) => e = d
        BY <1>8, <1>m DEF Abort, Handled, Busy
    <2>2. \A e \in Drivers : pc'[e] # "marked" /\ ~Handled(e)'
        BY <1>8, <1>t, <2>1 DEF Abort, Busy, Handled, TypeOK
    <2>3. RowInProgress' /\ AttemptInv'
        BY <2>2 DEF RowInProgress, AttemptInv
    <2>4. DoneWasAttempted' /\ AcksMatchOutcome' /\ NewestDoneInIndex'
        BY <1>8, <1>g, <1>o, KeepsRows DEF Abort, logVars, Logged
    <2> QED BY <1>o, <2>3, <2>4 DEF IndexInv
<1>9. ASSUME NEW i \in Seqs, BackoffExpires(i) PROVE IndexInv'
    <2>1. RowInProgress'
        BY <1>9, <1>p DEF BackoffExpires, Handled, threadVars, RowInProgress
    <2>2. AttemptInv'
        BY <1>9, <1>g, KeepsAttempts DEF BackoffExpires, Handled, threadVars
    <2>3. DoneWasAttempted' /\ AcksMatchOutcome' /\ NewestDoneInIndex'
        BY <1>9, <1>g, <1>o, KeepsRows DEF BackoffExpires, Logged
    <2> QED BY <1>o, <2>1, <2>2, <2>3 DEF IndexInv
<1>10. ASSUME NEW i \in Seqs, Retry(i) PROVE IndexInv'
    <2>1. RowInProgress'
        BY <1>10, <1>t, <1>p DEF Retry, Handled, threadVars, RowInProgress, TypeOK
    <2>2. AttemptInv'
        BY <1>10, <1>g, KeepsAttempts DEF Retry, Handled, threadVars
    <2>3. DoneWasAttempted' /\ AcksMatchOutcome' /\ NewestDoneInIndex'
        BY <1>10, <1>g, <1>o, <1>t, KeepsRows DEF Retry, Logged, Seqs, TypeOK
    <2> QED BY <1>o, <2>1, <2>2, <2>3 DEF IndexInv
<1>11. ASSUME Crash PROVE IndexInv'
    <2>1. RowInProgress' /\ AttemptInv'
        BY <1>11 DEF Crash, Handled, RowInProgress, AttemptInv
    <2>2. /\ op' = op /\ len' = len /\ acks' = acks /\ touched' = touched
          /\ revived' = revived /\ (IndexSurvives => index' = index)
        BY <1>11 DEF Crash
    <2>3. \A i \in Seqs : state'[i] # "pending" => state'[i] = state[i]
        BY <1>11 DEF Crash, Recovered
    <2>4. Logged' = Logged /\ Logged \subseteq Seqs
        BY <1>t, <2>2 DEF Logged, Seqs, TypeOK
    <2>5. DoneWasAttempted' /\ AcksMatchOutcome'
        BY <2>2, <2>3, <2>4 DEF IndexInv, DoneWasAttempted, AcksMatchOutcome
    <2>6. NewestDoneInIndex'
        BY <2>2, <2>3, <2>4 DEF IndexInv, NewestDoneInIndex, Overtaken, Touches, Effect
    <2> QED BY <1>o, <2>1, <2>5, <2>6 DEF IndexInv
<1>12. CASE UNCHANGED vars
    <2>1. RowInProgress'
        BY <1>12, <1>p DEF vars, logVars, threadVars, Handled, RowInProgress
    <2>2. AttemptInv'
        BY <1>12, <1>g, KeepsAttempts DEF vars, threadVars, Handled
    <2>3. DoneWasAttempted' /\ AcksMatchOutcome' /\ NewestDoneInIndex'
        BY <1>12, <1>g, <1>o, KeepsRows DEF vars, logVars, Logged
    <2> QED BY <1>o, <2>1, <2>2, <2>3 DEF IndexInv
<1> QED
    BY <1>1, <1>2, <1>3, <1>4, <1>5, <1>6, <1>7, <1>8, <1>9, <1>10, <1>11, <1>12
    DEF Next, InsideApplyNext

(* The acks on record agree with the outcome of the row, whatever crash,   *)
(* retry or storage error came between two of their commits.               *)
THEOREM AcksAgree == Spec => []AcksMatchOutcome
<1>1. IndexInv => AcksMatchOutcome
    BY DEF IndexInv
<1> QED
    BY IndexInit, IndexStep, <1>1, PTL DEF Spec

(* The index shows the newest completed work on every record, in any       *)
(* interleaving of callers, workers, retries, storage errors and restarts. *)
THEOREM NewestShown == Spec => []NewestDoneInIndex
<1>1. IndexInv => NewestDoneInIndex
    BY DEF IndexInv
<1> QED
    BY IndexInit, IndexStep, <1>1, PTL DEF Spec

-----------------------------------------------------------------------------
(* Refinement                                                              *)

LEMMA SerialInit == Init => Serial!Init
BY DEF Init, Serial!Init, Serial!Seqs, Seqs, Serial!NoOp, NoOp, Serial!EmptyIndex, EmptyIndex,
       Outcome

(* The step of SerialIndex that each step of the coordinator is; the others*)
(* (choosing and marking a row, recording acks, backing off, aborting)     *)
(* change nothing a client can see.                                        *)
LEMMA SerialStep == IndexInv /\ IndexInv' /\ [Next]_vars => [Serial!Next]_(Serial!vars)
<1> SUFFICES ASSUME IndexInv, IndexInv', [Next]_vars
             PROVE  Serial!Next \/ UNCHANGED Serial!vars
    OBVIOUS
<1> USE ConstantsAssumption
<1> DEFINE Bar == [i \in Seqs |-> Outcome(state[i])]
<1>t. TypeOK /\ TypeOK' /\ Logged \subseteq Seqs
    <2>1. TypeOK /\ TypeOK'
        BY DEF IndexInv, OrderInv, TypeInv
    <2>2. Logged \subseteq Seqs
        BY <2>1 DEF TypeOK, Logged, Seqs
    <2> QED BY <2>1, <2>2
<1>b. \A d \in Drivers : Busy(d) => cur[d] \in Logged /\ cur[d] \in Seqs
    BY <1>t DEF IndexInv, OrderInv, TypeInv, BusyHasRow, Busy
(* A step that leaves the log, the index and the outcomes alone.           *)
<1>u. ASSUME len' = len, op' = op, index' = index, revived' = revived,
             \A i \in Seqs : Outcome(state'[i]) = Outcome(state[i])
      PROVE  UNCHANGED Serial!vars
    BY <1>u DEF Serial!vars
<1>1. ASSUME NEW o \in Submissions, Enqueue(o) PROVE Serial!Next
    <2>1. len + 1 \in Seqs
        BY <1>1, <1>t DEF Enqueue, TypeOK, Seqs
    <2>2. Bar' = [Bar EXCEPT ![len + 1] = "open"]
        BY <1>1, <1>t, <2>1 DEF Enqueue, TypeOK, Outcome
    <2>3. Serial!Enqueue(o)
        BY <1>1, <2>2 DEF Enqueue, Serial!Enqueue
    <2> QED BY <2>3 DEF Serial!Next
<1>2. ASSUME NEW d \in Drivers, Select(d) PROVE UNCHANGED Serial!vars
    BY <1>2, <1>u DEF Select, logVars
<1>3. ASSUME NEW d \in Drivers, Mark(d) PROVE UNCHANGED Serial!vars
    <2>1. cur[d] \in Seqs /\ Outcome(state[cur[d]]) = "open"
        BY <1>3, <1>b
        DEF Mark, Busy, IndexInv, OrderInv, TypeInv, RowsHoldOps, CurOpen, Closed, Outcome,
            OpStates
    <2> QED
        BY <1>3, <1>t, <1>u, <2>1 DEF Mark, TypeOK, Outcome
<1>4. ASSUME NEW d \in Drivers, Handle(d) PROVE Serial!Next
    <2> DEFINE i == cur[d]
    <2>1. Busy(d) /\ i \in Logged /\ i \in Seqs /\ state[i] = "in_progress"
        BY <1>4, <1>b DEF Handle, Busy, IndexInv, RowInProgress
    <2>2. Bar[i] = "open"
        BY <2>1 DEF Outcome
    <2>3. \A e \in Logged :
            e < i /\ Conflicts(op[e], op[i]) /\ Bar[e] = "open" => e \in revived
        BY <1>t, <2>1 DEF IndexInv, OrderInv, CurInOrder, Closed, Outcome
    <2>4. Serial!Attempt(i)
        BY <1>4, <2>2, <2>3
        DEF Handle, logVars, Serial!Attempt, Serial!Conflicts, Conflicts, Serial!Applicable,
            Applicable, Serial!Accepted, Accepted, Serial!Apply, Apply, Serial!Destructive, Destructive,
            Serial!EffectOf, EffectOf, Logged
    <2> QED BY <2>1, <2>4 DEF Serial!Next, Serial!Seqs, Seqs
<1>5. ASSUME NEW d \in Drivers, RecordAck(d) PROVE UNCHANGED Serial!vars
    BY <1>5, <1>u DEF RecordAck, logVars
<1>6. ASSUME NEW d \in Drivers, Finish(d) PROVE Serial!Next
    <2> DEFINE i == cur[d]
    <2>1. Busy(d) /\ i \in Seqs /\ state[i] = "in_progress"
        BY <1>6, <1>b DEF Finish, Busy, Handled, IndexInv, RowInProgress
    <2>2. \A r \in op[i].target_ids : index[op[i].target][r] = Effect(i)
        BY <1>6 DEF Finish, Handled, AllAcked, IndexInv, AttemptInv
    <2>3. Bar[i] = "open" /\ Bar' = [Bar EXCEPT ![i] = "done"]
        BY <1>6, <1>t, <2>1 DEF Finish, TypeOK, Outcome
    <2>4. Serial!Complete(i)
        BY <1>6, <2>2, <2>3 DEF Finish, Serial!Complete, Effect, Serial!EffectOf, EffectOf,
                                Serial!Destructive, Destructive
    <2> QED BY <2>1, <2>4 DEF Serial!Next, Serial!Seqs, Seqs
<1>7. ASSUME NEW d \in Drivers, FailOrRetry(d) PROVE Serial!Next \/ UNCHANGED Serial!vars
    <2> DEFINE i == cur[d]
    <2>1. Busy(d) /\ i \in Seqs /\ state[i] = "in_progress"
        BY <1>7, <1>b DEF FailOrRetry, Busy, Handled, IndexInv, RowInProgress
    <2>2. len' = len /\ op' = op /\ index' = index /\ revived' = revived
        BY <1>7 DEF FailOrRetry
    <2>3. CASE state' = [state EXCEPT ![i] = "failed"]
        <3>1. Bar[i] = "open" /\ Bar' = [Bar EXCEPT ![i] = "failed"]
            BY <1>t, <2>1, <2>3 DEF TypeOK, Outcome
        <3>2. Serial!GiveUp(i)
            BY <2>2, <3>1 DEF Serial!GiveUp
        <3> QED BY <2>1, <3>2 DEF Serial!Next, Serial!Seqs, Seqs
    <2>4. CASE state' = [state EXCEPT ![i] = "partial_failure"]
        BY <1>t, <1>u, <2>1, <2>2, <2>4 DEF TypeOK, Outcome
    <2> QED BY <1>7, <2>3, <2>4 DEF FailOrRetry
<1>8. ASSUME NEW d \in Drivers, Abort(d) PROVE UNCHANGED Serial!vars
    BY <1>8, <1>u DEF Abort, logVars
<1>9. ASSUME NEW i \in Seqs, BackoffExpires(i) PROVE UNCHANGED Serial!vars
    BY <1>9, <1>u DEF BackoffExpires
<1>10. ASSUME NEW i \in Seqs, Retry(i) PROVE Serial!Next \/ UNCHANGED Serial!vars
    <2>1. len' = len /\ op' = op /\ index' = index /\ state' = [state EXCEPT ![i] = "pending"]
        BY <1>10 DEF Retry
    <2>2. CASE state[i] = "failed"
        <3>1. Bar[i] = "failed" /\ Bar' = [Bar EXCEPT ![i] = "open"]
            BY <1>t, <2>1, <2>2 DEF TypeOK, Outcome
        <3>2. Serial!Revive(i)
            BY <1>10, <2>1, <2>2, <3>1 DEF Retry, Serial!Revive
        <3> QED BY <3>2 DEF Serial!Next, Serial!Seqs, Seqs
    <2>3. CASE state[i] = "partial_failure"
        BY <1>10, <1>t, <1>u, <2>1, <2>3 DEF Retry, TypeOK, Outcome
    <2> QED BY <1>10, <2>2, <2>3 DEF Retry
<1>11. ASSUME Crash PROVE Serial!Next \/ UNCHANGED Serial!vars
    <2>1. /\ len' = len /\ op' = op /\ revived' = revived
          /\ \A i \in Seqs : Outcome(state'[i]) = Outcome(state[i])
        BY <1>11 DEF Crash, Recovered, Outcome
    <2>2. CASE IndexSurvives
        BY <1>11, <1>u, <2>1, <2>2 DEF Crash
    <2>3. CASE ~IndexSurvives
        <3>1. Serial!LoseIndex
            BY <1>11, <2>1, <2>3 DEF Crash, Serial!LoseIndex, Serial!EmptyIndex, EmptyIndex
        <3> QED BY <3>1 DEF Serial!Next
    <2> QED BY <2>2, <2>3
<1>12. CASE UNCHANGED vars
    BY <1>12, <1>u DEF vars, logVars
<1> QED
    BY <1>1, <1>2, <1>3, <1>4, <1>5, <1>6, <1>7, <1>8, <1>9, <1>10, <1>11, <1>12
    DEF Next, InsideApplyNext

(* The coordinator is a serial index: threads, the lock, backoff, acks,    *)
(* aborted attempts and restarts of the process cannot be told from a log  *)
(* applied one operation at a time, in order where two operations conflict.*)
THEOREM CoordinatorIsSerialIndex == Spec => ImplementsSerialIndex
<1> QED
    BY IndexInit, IndexStep, SerialInit, SerialStep, PTL
    DEF Spec, ImplementsSerialIndex, Serial!Spec

=============================================================================
