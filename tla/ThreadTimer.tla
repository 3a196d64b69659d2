---------------------------- MODULE ThreadTimer -----------------------------
(***************************************************************************)
(* The Timer of timer/timer.h.  start() launches a detached worker that    *)
(* runs the task periodically until _try_to_expire is set; stop() sets it  *)
(* and waits on _expired_cond for the worker to announce its end.  The two *)
(* flags are atomics that start() and stop() read without the mutex, so    *)
(* every access of one is a step of its own.  The destructor is stop().    *)
(***************************************************************************)
EXTENDS Naturals, FiniteSets

CONSTANTS
  Users,        \* the threads that call start and stop
  MaxStarts     \* bound: workers launched in a run

VARIABLES
  expired, tryToExpire,   \* _expired and _try_to_expire
  mutex,        \* the holder of _mutex: a user, a worker, or Free
  upc,          \* where each user is: "idle", in start or stop, or "dead"
                \* once its destructor has returned
  closing,      \* the users that run the destructor
  wpc           \* where each worker is; a worker is numbered by its start

threadTimerVars == <<expired, tryToExpire, mutex, upc, closing, wpc>>

Workers == 1..MaxStarts
Free == 0
LiveWorkers == {w \in Workers : wpc[w] \notin {"none", "gone"}}
Calm(u) == upc[u] \in {"idle", "dead"}
StopReturned(u) == IF u \in closing THEN "dead" ELSE "idle"

-----------------------------------------------------------------------------
(* start(): the test of _expired, the store, and the launch of the thread. *)
StartTest(u) ==
  /\ upc[u] = "idle" /\ expired
  /\ upc' = [upc EXCEPT ![u] = "start-store"]
  /\ UNCHANGED <<expired, tryToExpire, mutex, closing, wpc>>
StartStore(u) ==
  /\ upc[u] = "start-store"
  /\ expired' = FALSE
  /\ upc' = [upc EXCEPT ![u] = "start-launch"]
  /\ UNCHANGED <<tryToExpire, mutex, closing, wpc>>
StartLaunch(u) ==
  /\ upc[u] = "start-launch"
  /\ \E w \in Workers :
       /\ wpc[w] = "none" /\ \A v \in 1..(w - 1) : wpc[v] # "none"
       /\ wpc' = [wpc EXCEPT ![w] = "test"]
  /\ upc' = [upc EXCEPT ![u] = "idle"]
  /\ UNCHANGED <<expired, tryToExpire, mutex, closing>>

(* stop(), called as such or by the destructor, which nobody else's call   *)
(* may overlap.                                                            *)
StopTestExpired(u) ==
  /\ upc[u] = "idle"
  /\ \/ UNCHANGED closing
     \/ /\ \A v \in Users : Calm(v)
        /\ closing' = closing \cup {u}
  /\ upc' = [upc EXCEPT ![u] =
       IF expired THEN IF u \in closing' THEN "dead" ELSE "idle" ELSE "stop-test"]
  /\ UNCHANGED <<expired, tryToExpire, mutex, wpc>>
StopTestTrying(u) ==
  /\ upc[u] = "stop-test"
  /\ upc' = [upc EXCEPT ![u] = IF tryToExpire THEN StopReturned(u) ELSE "stop-store"]
  /\ UNCHANGED <<expired, tryToExpire, mutex, closing, wpc>>
StopStore(u) ==
  /\ upc[u] = "stop-store"
  /\ tryToExpire' = TRUE
  /\ upc' = [upc EXCEPT ![u] = "stop-lock"]
  /\ UNCHANGED <<expired, mutex, closing, wpc>>
(* The wait with its predicate: with the mutex held it goes on or sleeps.  *)
StopLock(u) ==
  /\ upc[u] = "stop-lock" /\ mutex = Free
  /\ IF expired THEN mutex' = u /\ upc' = [upc EXCEPT ![u] = "stop-reset"]
                ELSE mutex' = Free /\ upc' = [upc EXCEPT ![u] = "stop-wait"]
  /\ UNCHANGED <<expired, tryToExpire, closing, wpc>>
StopWakes(u) ==
  /\ upc[u] = "stop-wait"
  /\ upc' = [upc EXCEPT ![u] = "stop-lock"]
  /\ UNCHANGED <<expired, tryToExpire, mutex, closing, wpc>>
StopReset(u) ==
  /\ upc[u] = "stop-reset"
  /\ tryToExpire' = (tryToExpire /\ ~expired)
  /\ mutex' = Free
  /\ upc' = [upc EXCEPT ![u] = StopReturned(u)]
  /\ UNCHANGED <<expired, closing, wpc>>

-----------------------------------------------------------------------------
(* The worker: the loop test, the sleep with the task, and the last block. *)
LoopTest(w) ==
  /\ wpc[w] = "test"
  /\ wpc' = [wpc EXCEPT ![w] = IF tryToExpire THEN "lock" ELSE "task"]
  /\ UNCHANGED <<expired, tryToExpire, mutex, upc, closing>>
RunTask(w) ==
  /\ wpc[w] = "task"
  /\ wpc' = [wpc EXCEPT ![w] = "test"]
  /\ UNCHANGED <<expired, tryToExpire, mutex, upc, closing>>
(* Mutants: the announcement without the lock; nobody is notified.         *)
AnnounceUnlocked(w) ==
  /\ wpc[w] = "lock"
  /\ expired' = TRUE
  /\ wpc' = [wpc EXCEPT ![w] = "unlock"]
  /\ upc' = [u \in Users |-> IF upc[u] = "stop-wait" THEN "stop-lock" ELSE upc[u]]
  /\ UNCHANGED <<mutex, tryToExpire, closing>>
AnnounceSilently(w) ==
  /\ wpc[w] = "lock" /\ mutex = Free
  /\ mutex' = w /\ expired' = TRUE
  /\ wpc' = [wpc EXCEPT ![w] = "unlock"]
  /\ UNCHANGED <<upc, tryToExpire, closing>>
Announce(w) ==
  /\ wpc[w] = "lock" /\ mutex = Free
  /\ mutex' = w /\ expired' = TRUE
  /\ wpc' = [wpc EXCEPT ![w] = "unlock"]
  /\ IF \E u \in Users : upc[u] = "stop-wait"
       THEN \E u \in Users : /\ upc[u] = "stop-wait"
                             /\ upc' = [upc EXCEPT ![u] = "stop-lock"]
       ELSE UNCHANGED upc
  /\ UNCHANGED <<tryToExpire, closing>>
Unlock(w) ==
  /\ wpc[w] = "unlock"
  /\ mutex' = Free
  /\ wpc' = [wpc EXCEPT ![w] = "gone"]
  /\ UNCHANGED <<expired, tryToExpire, upc, closing>>

-----------------------------------------------------------------------------
ThreadTimerInit ==
  /\ expired = TRUE /\ tryToExpire = FALSE /\ mutex = Free
  /\ upc = [u \in Users |-> "idle"] /\ closing = {}
  /\ wpc = [w \in Workers |-> "none"]
(* After the last start that the bound allows only stops follow.           *)
MayStart == \E w \in Workers : wpc[w] = "none" /\ w # MaxStarts
Begin(u) == closing = {} /\ ((MayStart /\ StartTest(u)) \/ StopTestExpired(u))
InCall(u) ==
  \/ StartStore(u) \/ StartLaunch(u)
  \/ StopTestTrying(u) \/ StopStore(u) \/ StopLock(u) \/ StopReset(u)
Work(w) == LoopTest(w) \/ RunTask(w) \/ Announce(w) \/ Unlock(w)
ThreadTimerNext ==
  \/ \E u \in Users : Begin(u) \/ InCall(u) \/ StopWakes(u)
  \/ \E w \in Workers : Work(w)
(* Calls and workers that can go on do, and the task returns.              *)
ThreadTimerFairness ==
  /\ \A u \in Users : WF_threadTimerVars(InCall(u))
  /\ \A w \in Workers : WF_threadTimerVars(Work(w))
ThreadTimerSpec ==
  ThreadTimerInit /\ [][ThreadTimerNext]_threadTimerVars /\ ThreadTimerFairness

-----------------------------------------------------------------------------

(* When stop or the destructor has returned, the worker is past its last   *)
(* access to the Timer: the task does not run again, and the mutex may be  *)
(* destroyed.  A timer that was started and not stopped has a worker that  *)
(* will run the task: a stop leaves no request behind that would end the   *)
(* next worker.                                                            *)
WorkerMatchesTimer ==
  (\A u \in Users : Calm(u)) =>
    IF expired \/ \E u \in Users : upc[u] = "dead"
    THEN LiveWorkers = {} /\ mutex = Free
    ELSE ~tryToExpire /\ \E w \in Workers : wpc[w] \in {"test", "task"}

(* stop returns: the worker sees the request, and its announcement is not  *)
(* lost between the test of the predicate and the wait.                    *)
StopReturns == \A u \in Users : upc[u] = "stop-lock" ~> Calm(u)
=============================================================================
