------------------------- MODULE WriterWorkerProofs -------------------------
(***************************************************************************)
(* Proofs about WriterWorker for every set of callers, every length of the *)
(* log, every max_steps and any number of starts.                          *)
(***************************************************************************)
EXTENDS WriterWorker, TLAPS

(* The flag is cleared and the thread created in two steps; between them   *)
(* start has already seen that there is no thread and one may be created.  *)
StartPending == host = "starting" => thread = None /\ started < MaxStarts

WorkerInv == WorkerTypeOK /\ StartPending /\ NoStrayLoop

-----------------------------------------------------------------------------
LEMMA WorkerInvInit == WorkerInit => WorkerInv
<1> SUFFICES ASSUME WorkerInit PROVE WorkerInv
    OBVIOUS
<1>1. log \in [Ops -> OpStates] /\ pc \in [Loops -> PcValues]
    BY DEF WorkerInit, OpStates, PcValues
<1>2. applied \in [Loops -> 0..MaxSteps] /\ started \in 0..MaxStarts /\ aborts \in 0..MaxAborts
    BY WorkerAssumption DEF WorkerInit
<1>3. /\ wake \in BOOLEAN /\ stop \in BOOLEAN /\ timedOut \in BOOLEAN
      /\ thread \in Loops \cup {None}
      /\ host = "idle" /\ caller \in [Callers -> {"idle", "signal"}]
    BY DEF WorkerInit
<1>4. \A t \in Loops : ~Alive(t)
    BY DEF WorkerInit, Alive
<1> QED
    BY <1>1, <1>2, <1>3, <1>4 DEF WorkerInv, WorkerTypeOK, StartPending, NoStrayLoop

(* What a loop does leaves start and stop alone, and no loop comes to life *)
(* by a step of its own.                                                   *)
LEMMA LoopKeepsStart ==
    ASSUME StartPending, NoStrayLoop, UNCHANGED hostVars,
           \A t \in Loops : Alive(t)' => Alive(t)
    PROVE  StartPending' /\ NoStrayLoop'
BY DEF StartPending, NoStrayLoop, hostVars

LEMMA CallerStep ==
    ASSUME WorkerInv, NEW c \in Callers, Enqueue(c) \/ Retry(c) \/ Signal(c)
    PROVE  WorkerInv'
<1>1. WorkerTypeOK'
    <2>1. CASE Enqueue(c)
        BY <2>1 DEF WorkerInv, WorkerTypeOK, Enqueue, WorkArrives, OpStates, eventVars,
                    loopVars, hostVars
    <2>2. CASE Retry(c)
        BY <2>2 DEF WorkerInv, WorkerTypeOK, Retry, WorkArrives, OpStates, eventVars, loopVars,
                    hostVars
    <2>3. CASE Signal(c)
        BY <2>3 DEF WorkerInv, WorkerTypeOK, Signal, loopVars, hostVars
    <2> QED BY <2>1, <2>2, <2>3
<1>2. UNCHANGED hostVars /\ UNCHANGED pc
    BY DEF Enqueue, Retry, Signal, loopVars
<1>3. \A t \in Loops : Alive(t)' => Alive(t)
    BY <1>2 DEF Alive
<1> QED
    BY <1>1, <1>2, <1>3, LoopKeepsStart DEF WorkerInv

(* A row that is given another state, whichever it is, keeps the log a log.*)
LEMMA LogUpdate ==
    ASSUME log \in [Ops -> OpStates], NEW o, NEW s \in OpStates
    PROVE  [log EXCEPT ![o] = s] \in [Ops -> OpStates]
OBVIOUS

LEMMA LoopTypes ==
    ASSUME WorkerInv, NEW t \in Loops, LoopStep(t) \/ Die(t)
    PROVE  WorkerTypeOK'
<1> USE WorkerAssumption DEF WorkerInv, WorkerTypeOK, PcValues, hostVars
<1>1. CASE CheckStop(t)
    BY <1>1 DEF CheckStop, eventVars
<1>2. CASE ApplyNext(t)
    <2>1. log' \in [Ops -> OpStates]
        BY <1>2, LogUpdate DEF ApplyNext, OpStates
    <2>2. applied' \in [Loops -> 0..MaxSteps]
        BY <1>2 DEF ApplyNext, StepsLeft
    <2> QED
        BY <1>2, <2>1, <2>2 DEF ApplyNext, eventVars
<1>3. CASE DrainReturns(t)
    BY <1>3 DEF DrainReturns, eventVars
<1>4. CASE WakeUp(t)
    BY <1>4 DEF WakeUp, eventVars
<1>5. CASE PollTimesOut(t)
    BY <1>5 DEF PollTimesOut, eventVars
<1>6. CASE ClearWake(t)
    BY <1>6 DEF ClearWake
<1>7. CASE Die(t)
    <2>1. log' \in [Ops -> OpStates]
        BY <1>7, LogUpdate DEF Die, OpStates
    <2>2. aborts' \in 0..MaxAborts
        BY <1>7 DEF Die
    <2> QED
        BY <1>7, <2>1, <2>2 DEF Die, eventVars
<1> QED
    BY <1>1, <1>2, <1>3, <1>4, <1>5, <1>6, <1>7 DEF LoopStep

LEMMA LoopInv ==
    ASSUME WorkerInv, NEW t \in Loops, LoopStep(t) \/ Die(t)
    PROVE  WorkerInv'
<1>1. WorkerTypeOK'
    BY LoopTypes
<1>2. UNCHANGED hostVars
    BY DEF LoopStep, CheckStop, ApplyNext, DrainReturns, WakeUp, PollTimesOut, ClearWake, Die
<1>3. Alive(t)
    BY DEF LoopStep, CheckStop, ApplyNext, DrainReturns, WakeUp, PollTimesOut, ClearWake, Die,
           Alive
<1>4. \A s \in Loops : s # t => pc'[s] = pc[s]
    BY DEF WorkerInv, WorkerTypeOK, LoopStep, CheckStop, ApplyNext, DrainReturns, WakeUp,
           PollTimesOut, ClearWake, Die
<1>5. \A s \in Loops : Alive(s)' => Alive(s)
    BY <1>3, <1>4 DEF Alive
<1> QED
    BY <1>1, <1>2, <1>5, LoopKeepsStart DEF WorkerInv

LEMMA HostInv ==
    ASSUME WorkerInv, HostStep
    PROVE  WorkerInv'
<1> USE WorkerAssumption DEF WorkerInv, WorkerTypeOK, StartPending, NoStrayLoop, Alive
<1>1. CASE BeginStart
    BY <1>1 DEF BeginStart, MayStart, loopVars
<1>2. CASE StartLoop
    <2>1. started + 1 \in Loops /\ started + 1 # None
        BY <1>2 DEF StartLoop, Loops, None
    <2>2. WorkerTypeOK'
        BY <1>2, <2>1 DEF StartLoop, eventVars, PcValues, Loops
    <2>3. NoStrayLoop'
        <3> SUFFICES ASSUME ~timedOut', NEW s \in Loops, Alive(s)', s # thread'
                     PROVE  FALSE
            BY DEF NoStrayLoop
        <3>1. Alive(s) /\ ~timedOut /\ thread = None
            BY <1>2, <2>1 DEF StartLoop
        <3> QED
            BY <3>1 DEF None, Loops
    <2> QED
        BY <1>2, <2>2, <2>3 DEF StartLoop
<1>3. CASE BeginStop
    BY <1>3 DEF BeginStop, loopVars
<1>4. CASE SignalStop
    BY <1>4 DEF SignalStop, loopVars
<1>5. CASE Join
    BY <1>5 DEF Join, loopVars, eventVars, None, Loops
<1> QED
    BY <1>1, <1>2, <1>3, <1>4, <1>5 DEF HostStep

LEMMA WorkerInvStep == WorkerInv /\ [WorkerNext]_workerVars => WorkerInv'
<1> SUFFICES ASSUME WorkerInv, [WorkerNext]_workerVars PROVE WorkerInv'
    OBVIOUS
<1>1. ASSUME NEW c \in Callers, Enqueue(c) \/ Retry(c) \/ Signal(c) PROVE WorkerInv'
    BY <1>1, CallerStep
<1>2. ASSUME NEW o \in Ops, BackoffExpires(o) PROVE WorkerInv'
    <2>1. WorkerTypeOK'
        BY <1>2 DEF WorkerInv, WorkerTypeOK, BackoffExpires, OpStates, eventVars, loopVars,
                    hostVars
    <2>2. UNCHANGED hostVars /\ \A t \in Loops : Alive(t)' => Alive(t)
        BY <1>2 DEF BackoffExpires, loopVars, Alive
    <2> QED
        BY <2>1, <2>2, LoopKeepsStart DEF WorkerInv
<1>3. ASSUME NEW t \in Loops, LoopStep(t) \/ Die(t) PROVE WorkerInv'
    BY <1>3, LoopInv
<1>4. CASE HostStep
    BY <1>4, HostInv
<1>5. CASE UNCHANGED workerVars
    BY <1>5 DEF WorkerInv, WorkerTypeOK, StartPending, NoStrayLoop, Alive, workerVars,
                eventVars, loopVars, hostVars
<1> QED
    BY <1>1, <1>2, <1>3, <1>4, <1>5 DEF WorkerNext

-----------------------------------------------------------------------------
(* The worker, its events and its loops are well typed: no loop runs over  *)
(* max_steps and start creates no thread beyond those allowed.             *)
THEOREM WorkerTypeCorrect == WorkerSpec => []WorkerTypeOK
<1>1. WorkerInv => WorkerTypeOK
    BY DEF WorkerInv
<1> QED
    BY WorkerInvInit, WorkerInvStep, <1>1, PTL DEF WorkerSpec

(* Until a stop has given up waiting for its loop, only the loop that      *)
(* start remembers runs, however often the worker is started and stopped.  *)
THEOREM OneLoop == WorkerSpec => []NoStrayLoop
<1>1. WorkerInv => NoStrayLoop
    BY DEF WorkerInv
<1> QED
    BY WorkerInvInit, WorkerInvStep, <1>1, PTL DEF WorkerSpec

-----------------------------------------------------------------------------
(* Wake-ups                                                                *)

LEMMA WakeInit == WorkerInit => NoLostWake
BY DEF WorkerInit, NoLostWake

(* Work only arrives with a caller that will set the event.                *)
LEMMA WakeByCaller ==
    ASSUME WorkerInv, NoLostWake, NEW c \in Callers, Enqueue(c) \/ Retry(c) \/ Signal(c)
    PROVE  NoLostWake'
<1>1. CASE Enqueue(c) \/ Retry(c)
    <2>1. caller'[c] = "signal"
        BY <1>1 DEF Enqueue, Retry, WorkArrives, WorkerInv, WorkerTypeOK
    <2> QED BY <2>1 DEF NoLostWake
<1>2. CASE Signal(c)
    BY <1>2 DEF Signal, NoLostWake
<1> QED BY <1>1, <1>2

(* A loop that sleeps has found nothing to run, one that ends was stopped, *)
(* one that clears the event is awake; and where one dies beside another   *)
(* that sleeps, a stop has given up waiting for one of them.               *)
LEMMA WakeByLoop ==
    ASSUME WorkerInv, NoLostWake, NEW t \in Loops, LoopStep(t) \/ Die(t)
    PROVE  NoLostWake'
<1>1. stop' = stop /\ host' = host /\ timedOut' = timedOut
    BY DEF LoopStep, CheckStop, ApplyNext, DrainReturns, WakeUp, PollTimesOut, ClearWake, Die,
           eventVars, hostVars
<1>2. \A o \in Ops : log'[o] = "eligible" => log[o] = "eligible"
    BY DEF LoopStep, CheckStop, ApplyNext, DrainReturns, WakeUp, PollTimesOut, ClearWake, Die,
           WorkerInv, WorkerTypeOK
<1> SUFFICES ASSUME ~stop, NEW o \in Ops, log[o] = "eligible", log'[o] = "eligible",
                    NEW u \in Loops, pc'[u] = "wait"
             PROVE  \/ Alive(t)' /\ pc'[t] # "wait"
                    \/ timedOut /\ aborts' > 0
    BY <1>1, <1>2 DEF NoLostWake
<1>3. pc \in [Loops -> PcValues] /\ o \in Runnable
    BY DEF WorkerInv, WorkerTypeOK, Runnable
<1>4. CASE CheckStop(t)
    BY <1>3, <1>4 DEF CheckStop, StopSeen, Alive
<1>5. CASE ApplyNext(t)
    BY <1>5 DEF ApplyNext, Alive
<1>6. CASE DrainReturns(t)
    <2>1. applied[t] # 0
        BY <1>3, <1>6, WorkerAssumption DEF DrainReturns, StepsLeft
    <2> QED
        BY <1>3, <1>6, <2>1 DEF DrainReturns, Alive
<1>7. CASE WakeUp(t)
    BY <1>3, <1>7 DEF WakeUp, Alive
<1>8. CASE PollTimesOut(t)
    BY <1>3, <1>8 DEF PollTimesOut, Alive
<1>9. CASE ClearWake(t)
    BY <1>3, <1>9 DEF ClearWake, Alive
<1>10. CASE Die(t)
    <2>1. aborts' > 0
        BY <1>10, WorkerAssumption DEF Die, WorkerInv, WorkerTypeOK
    <2>2. u # t /\ Alive(u) /\ Alive(t)
        BY <1>3, <1>10 DEF Die, Alive
    <2> QED
        BY <2>1, <2>2 DEF WorkerInv, NoStrayLoop
<1> QED
    BY <1>4, <1>5, <1>6, <1>7, <1>8, <1>9, <1>10 DEF LoopStep

(* A start creates a loop that is awake.                                   *)
LEMMA WakeByHost ==
    ASSUME WorkerInv, NoLostWake, HostStep
    PROVE  NoLostWake'
<1>1. CASE BeginStart
    BY <1>1 DEF BeginStart, NoLostWake
<1>2. CASE StartLoop
    <2>1. started + 1 \in Loops /\ pc'[started + 1] = "check"
        BY <1>2, WorkerAssumption
        DEF StartLoop, WorkerInv, WorkerTypeOK, StartPending, Loops
    <2> QED
        BY <2>1 DEF NoLostWake, Alive
<1>3. CASE BeginStop
    BY <1>3 DEF BeginStop, NoLostWake
<1>4. CASE SignalStop
    BY <1>4 DEF SignalStop, NoLostWake
<1>5. CASE Join
    BY <1>5 DEF Join, NoLostWake, Alive, loopVars, eventVars
<1> QED
    BY <1>1, <1>2, <1>3, <1>4, <1>5 DEF HostStep

LEMMA WakeStep ==
    WorkerInv /\ NoLostWake /\ [WorkerNext]_workerVars => NoLostWake'
<1> SUFFICES ASSUME WorkerInv, NoLostWake, [WorkerNext]_workerVars PROVE NoLostWake'
    OBVIOUS
<1>1. ASSUME NEW o \in Ops, BackoffExpires(o) PROVE NoLostWake'
    <2>1. \A p \in Ops : log'[p] = "eligible" => log[p] = "eligible"
        BY <1>1 DEF BackoffExpires, WorkerInv, WorkerTypeOK
    <2> QED
        BY <1>1, <2>1 DEF BackoffExpires, NoLostWake, Alive, eventVars, loopVars, hostVars
<1>2. CASE UNCHANGED workerVars
    BY <1>2 DEF NoLostWake, Alive, workerVars, eventVars, loopVars, hostVars
<1> QED
    BY <1>1, <1>2, WakeByCaller, WakeByLoop, WakeByHost DEF WorkerNext

(* No wake-up is lost, though the loop clears the event without looking at *)
(* the log: with work that was announced, and no start or stop under way,  *)
(* no loop sleeps unless the event is set or about to be, or another loop  *)
(* is awake; but for a loop that died while a stray one beside it slept.   *)
THEOREM WakeUpsReachTheLoop == WorkerSpec => []NoLostWake
BY WorkerInvInit, WorkerInvStep, WakeInit, WakeStep, PTL DEF WorkerSpec

=============================================================================
