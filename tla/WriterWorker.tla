---------------------------- MODULE WriterWorker ----------------------------
(***************************************************************************)
(* The life of the writer worker (strata/coordinator/worker.py): the loop  *)
(* that drains the operation log, the events by which callers wake it and  *)
(* a host stops it, and what becomes of a loop that outlives its stop.     *)
(*                                                                         *)
(* WriteCoordinator models what one apply_next does to the log; here it is *)
(* one step on the operation chosen.  Of an operation only that is kept    *)
(* which decides whether the loop has work: whether it may run now, and    *)
(* whether a caller or only the clock made it so.  One thread of the host  *)
(* starts and stops the worker, as nothing in start and stop is locked.    *)
(***************************************************************************)
EXTENDS Integers, FiniteSets, FiniteSetsExt

CONSTANTS
    Callers,        \* threads that enqueue and retry
    MaxSteps,       \* max_steps of run_until_idle
    MaxOps,         \* bound: rows in the log
    MaxStarts,      \* bound: threads start creates
    MaxAborts       \* bound: storage errors inside apply_next

ASSUME WorkerAssumption ==
    /\ MaxSteps \in Nat \ {0}
    /\ MaxOps \in Nat /\ MaxStarts \in Nat /\ MaxAborts \in Nat

Ops == 1..MaxOps
Loops == 1..MaxStarts
None == 0

VARIABLES
    log,            \* per row: its state, as far as the loop sees it
    wake,           \* the event coordinator._wake
    stop,           \* the event _stop
    thread,         \* _thread: the loop that start created, or None
    pc,             \* per loop: where it is
    applied,        \* per loop: what its run_until_idle has applied
    host,           \* where the host is in start or stop
    caller,         \* per caller: whether it has still to set the event
    started, aborts,        \* bound counters
    timedOut        \* history: a join ended before the loop did

eventVars == <<wake, stop>>
loopVars == <<pc, applied>>
hostVars == <<thread, host, started, timedOut>>
workerVars == <<log, eventVars, loopVars, hostVars, caller, aborts>>

(* eligible: _select_eligible may choose it, since a call that sets wake;  *)
(* due: since its backoff is over, of which nobody is told.  delayed: in   *)
(* backoff.  stuck: left in_progress by a storage error.                   *)
OpStates == {"none", "eligible", "due", "delayed", "done", "failed", "stuck"}

PcValues == {"none", "check", "drain", "wait", "clear", "ended", "dead"}

WorkerTypeOK ==
    /\ log \in [Ops -> OpStates]
    /\ wake \in BOOLEAN /\ stop \in BOOLEAN
    /\ thread \in Loops \cup {None}
    /\ pc \in [Loops -> PcValues] /\ applied \in [Loops -> 0..MaxSteps]
    /\ host \in {"idle", "starting", "stopping", "joining"}
    /\ caller \in [Callers -> {"idle", "signal"}]
    /\ started \in 0..MaxStarts /\ aborts \in 0..MaxAborts
    /\ timedOut \in BOOLEAN

Runnable == {o \in Ops : log[o] \in {"eligible", "due"}}

Alive(t) == pc[t] \notin {"none", "ended", "dead"}

-----------------------------------------------------------------------------
(* Callers: the row is committed, then the event is set                    *)

(* Mutated form of WorkArrives: enqueue and retry set no event.            *)
WorkArrivesSilently(c, o) ==
    /\ log' = [log EXCEPT ![o] = "eligible"]
    /\ UNCHANGED caller

WorkArrives(c, o) ==
    /\ log' = [log EXCEPT ![o] = "eligible"]
    /\ caller' = [caller EXCEPT ![c] = "signal"]

Enqueue(c) ==
    /\ caller[c] = "idle"
    /\ \E o \in Ops :
        /\ log[o] = "none" /\ \A e \in 1..(o - 1) : log[e] # "none"
        /\ WorkArrives(c, o)
    /\ UNCHANGED <<eventVars, loopVars, hostVars, aborts>>

Retry(c) ==
    /\ caller[c] = "idle"
    /\ \E o \in Ops : log[o] \in {"delayed", "due", "failed"} /\ WorkArrives(c, o)
    /\ UNCHANGED <<eventVars, loopVars, hostVars, aborts>>

Signal(c) ==
    /\ caller[c] = "signal"
    /\ wake' = TRUE
    /\ caller' = [caller EXCEPT ![c] = "idle"]
    /\ UNCHANGED <<log, stop, loopVars, hostVars, aborts>>

BackoffExpires(o) ==
    /\ log[o] = "delayed"
    /\ log' = [log EXCEPT ![o] = "due"]
    /\ UNCHANGED <<eventVars, loopVars, hostVars, caller, aborts>>

-----------------------------------------------------------------------------
(* _loop                                                                   *)

(* Mutated form of StopSeen: the loop never looks at the flag.             *)
StopIgnored == FALSE

StopSeen == stop

CheckStop(t) ==
    /\ pc[t] = "check"
    /\ pc' = [pc EXCEPT ![t] = IF StopSeen THEN "ended" ELSE "drain"]
    /\ applied' = [applied EXCEPT ![t] = 0]
    /\ UNCHANGED <<log, eventVars, hostVars, caller, aborts>>

(* Mutated form of StepsLeft: run_until_idle never gives up.               *)
AlwaysStepsLeft(t) == TRUE

StepsLeft(t) == applied[t] < MaxSteps

(* run_until_idle: the next row is done, fails for good, or backs off.     *)
ApplyNext(t) ==
    /\ pc[t] = "drain" /\ StepsLeft(t) /\ Runnable # {}
    /\ \E outcome \in {"done", "failed", "delayed"} :
        log' = [log EXCEPT ![Min(Runnable)] = outcome]
    /\ applied' = [applied EXCEPT ![t] = @ + 1]
    /\ UNCHANGED <<eventVars, pc, hostVars, caller, aborts>>

(* A storage error in apply_next ends the thread; _thread stays set.       *)
Die(t) ==
    /\ pc[t] = "drain" /\ StepsLeft(t) /\ Runnable # {}
    /\ aborts < MaxAborts
    /\ aborts' = aborts + 1
    /\ log' = [log EXCEPT ![Min(Runnable)] = "stuck"]
    /\ pc' = [pc EXCEPT ![t] = "dead"]
    /\ UNCHANGED <<eventVars, applied, hostVars, caller>>

DrainReturns(t) ==
    /\ pc[t] = "drain" /\ (~StepsLeft(t) \/ Runnable = {})
    /\ pc' = [pc EXCEPT ![t] = IF applied[t] = 0 THEN "wait" ELSE "check"]
    /\ UNCHANGED <<log, eventVars, applied, hostVars, caller, aborts>>

WakeUp(t) ==
    /\ pc[t] = "wait" /\ wake
    /\ pc' = [pc EXCEPT ![t] = "clear"]
    /\ UNCHANGED <<log, eventVars, applied, hostVars, caller, aborts>>

(* idle_wait_s is over.                                                    *)
PollTimesOut(t) ==
    /\ pc[t] = "wait" /\ ~wake
    /\ pc' = [pc EXCEPT ![t] = "clear"]
    /\ UNCHANGED <<log, eventVars, applied, hostVars, caller, aborts>>

ClearWake(t) ==
    /\ pc[t] = "clear"
    /\ wake' = FALSE
    /\ pc' = [pc EXCEPT ![t] = "check"]
    /\ UNCHANGED <<log, stop, applied, hostVars, caller, aborts>>

LoopStep(t) ==
    CheckStop(t) \/ ApplyNext(t) \/ DrainReturns(t) \/ WakeUp(t) \/ PollTimesOut(t) \/ ClearWake(t)

-----------------------------------------------------------------------------
(* start and stop                                                          *)

(* Mutated form of MayStart: start does not look at _thread.               *)
MayAlwaysStart == TRUE

(* start raises otherwise, whether the thread still runs or has died.      *)
MayStart == thread = None

BeginStart ==
    /\ host = "idle" /\ MayStart /\ started < MaxStarts
    /\ stop' = FALSE
    /\ host' = "starting"
    /\ UNCHANGED <<log, wake, loopVars, thread, started, timedOut, caller, aborts>>

StartLoop ==
    /\ host = "starting"
    /\ started' = started + 1
    /\ thread' = started + 1
    /\ pc' = [pc EXCEPT ![started + 1] = "check"]
    /\ host' = "idle"
    /\ UNCHANGED <<log, eventVars, applied, timedOut, caller, aborts>>

BeginStop ==
    /\ host = "idle" /\ started > 0
    /\ stop' = TRUE
    /\ host' = "stopping"
    /\ UNCHANGED <<log, wake, loopVars, thread, started, timedOut, caller, aborts>>

SignalStop ==
    /\ host = "stopping"
    /\ wake' = TRUE
    /\ host' = "joining"
    /\ UNCHANGED <<log, stop, loopVars, thread, started, timedOut, caller, aborts>>

(* The join returns when the loop has ended or the timeout is over; the    *)
(* thread is forgotten either way.                                         *)
Join ==
    /\ host = "joining"
    /\ timedOut' = (timedOut \/ (thread # None /\ Alive(thread)))
    /\ thread' = None
    /\ host' = "idle"
    /\ UNCHANGED <<log, eventVars, loopVars, started, caller, aborts>>

HostStep == BeginStart \/ StartLoop \/ BeginStop \/ SignalStop \/ Join

-----------------------------------------------------------------------------
WorkerInit ==
    /\ log = [o \in Ops |-> "none"]
    /\ wake = FALSE /\ stop = FALSE
    /\ thread = None /\ host = "idle" /\ started = 0 /\ timedOut = FALSE
    /\ pc = [t \in Loops |-> "none"]
    /\ applied = [t \in Loops |-> 0]
    /\ caller = [c \in Callers |-> "idle"]
    /\ aborts = 0

WorkerNext ==
    \/ \E c \in Callers : Enqueue(c) \/ Retry(c) \/ Signal(c)
    \/ \E o \in Ops : BackoffExpires(o)
    \/ \E t \in Loops : LoopStep(t) \/ Die(t)
    \/ HostStep

WorkerSpec == WorkerInit /\ [][WorkerNext]_workerVars

(* A loop goes on, and its wait ends with idle_wait_s at the latest.  The  *)
(* host need never call, nor a caller; handlers return.                    *)
WorkerFairSpec == WorkerSpec /\ \A t \in Loops : WF_workerVars(LoopStep(t))

-----------------------------------------------------------------------------
(* Properties                                                              *)

(* No wake-up is lost: while the worker is not being stopped or started,   *)
(* no loop sleeps through work a caller has announced.  The event is set   *)
(* then, or about to be, or another loop is awake and drains before it     *)
(* sleeps - although a loop clears the event without looking at the log    *)
(* and two loops may share it.  Only backoffs need the poll, and a stray   *)
(* loop that woke up in the place of another one and died.                 *)
NoLostWake ==
    ~stop /\ host # "starting" /\ (\E o \in Ops : log[o] = "eligible") =>
        \A t \in Loops :
            pc[t] = "wait" =>
                \/ wake
                \/ \E c \in Callers : caller[c] = "signal"
                \/ \E s \in Loops : Alive(s) /\ pc[s] # "wait"
                \/ timedOut /\ aborts > 0

(* A loop runs only as the one that start remembers, so there is one at    *)
(* most, unless a stop has given up waiting for it.                        *)
NoStrayLoop == ~timedOut => \A t \in Loops : Alive(t) => t = thread

(* A stop ends every loop, also one that is never out of work, unless the  *)
(* host starts the worker again before it has looked.                      *)
StopEndsLoops == stop ~> (~stop \/ \A t \in Loops : ~Alive(t))

=============================================================================
