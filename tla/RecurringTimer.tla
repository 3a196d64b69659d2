--------------------------- MODULE RecurringTimer ---------------------------
(***************************************************************************)
(* The Timer of timer/main2.cpp (timer/main.cpp holds the same class): a   *)
(* joinable thread waits with a timeout on cv_ and runs the callback with  *)
(* mutex_ held; stop() sets expired_ under the mutex, notifies and joins.  *)
(* The owner respects what std::thread demands of it: setTimer only when   *)
(* the last thread was joined, stop only once per setTimer.                *)
(***************************************************************************)
EXTENDS Naturals

CONSTANT
  MaxArms       \* bound: calls of setTimer

VARIABLES
  expired_, is_recurring_,
  opc,          \* the owner: "idle", or in stop at "lock", "notify" or "join"
  joinable,     \* timer_thread_ holds a thread
  tpc,          \* the thread: "none", at "lock", in "wait", in "callback"
                \* or "ended"; it holds mutex_ only in "callback"
  arms          \* history: setTimer calls

recurringVars == <<expired_, is_recurring_, opc, joinable, tpc, arms>>

MutexFree == tpc # "callback"

-----------------------------------------------------------------------------
setTimer(r) ==
  /\ opc = "idle" /\ ~joinable /\ arms < MaxArms
  /\ expired_' = FALSE /\ is_recurring_' = r
  /\ joinable' = TRUE /\ tpc' = "lock"
  /\ arms' = arms + 1
  /\ UNCHANGED opc

StopCalled ==
  /\ opc = "idle" /\ joinable
  /\ opc' = "lock"
  /\ UNCHANGED <<expired_, is_recurring_, joinable, tpc, arms>>
(* Mutant: expired_ is set without the mutex.                              *)
StopSetsUnlocked ==
  /\ opc = "lock"
  /\ expired_' = TRUE
  /\ opc' = "notify"
  /\ UNCHANGED <<is_recurring_, joinable, tpc, arms>>
StopSets ==
  /\ opc = "lock" /\ MutexFree
  /\ expired_' = TRUE
  /\ opc' = "notify"
  /\ UNCHANGED <<is_recurring_, joinable, tpc, arms>>
(* A thread that waits is sent to lock the mutex again.                    *)
StopNotifies ==
  /\ opc = "notify"
  /\ opc' = "join"
  /\ tpc' = IF tpc = "wait" THEN "lock" ELSE tpc
  /\ UNCHANGED <<expired_, is_recurring_, joinable, arms>>
StopJoins ==
  /\ opc = "join" /\ tpc = "ended"
  /\ opc' = "idle" /\ joinable' = FALSE /\ tpc' = "none"
  /\ UNCHANGED <<expired_, is_recurring_, arms>>

(* threadFunc with the mutex: wait_for tests its predicate before it waits *)
(* and again after every wake-up.                                          *)
EnterWait ==
  /\ tpc = "lock"
  /\ tpc' = IF expired_ THEN "ended" ELSE "wait"
  /\ UNCHANGED <<expired_, is_recurring_, opc, joinable, arms>>
ThreadWakes ==
  /\ tpc = "wait"
  /\ tpc' = "lock"
  /\ UNCHANGED <<expired_, is_recurring_, opc, joinable, arms>>
(* The interval passed: the callback begins unless expired_ is set by now. *)
Timeout ==
  /\ tpc = "wait"
  /\ tpc' = IF expired_ THEN "ended" ELSE "callback"
  /\ UNCHANGED <<expired_, is_recurring_, opc, joinable, arms>>
CallbackReturns ==
  /\ tpc = "callback"
  /\ tpc' = IF is_recurring_ THEN "lock" ELSE "ended"
  /\ UNCHANGED <<expired_, is_recurring_, opc, joinable, arms>>

-----------------------------------------------------------------------------
RecurringInit ==
  /\ expired_ = TRUE /\ is_recurring_ = FALSE
  /\ opc = "idle" /\ joinable = FALSE /\ tpc = "none" /\ arms = 0

Owner == (\E r \in BOOLEAN : setTimer(r)) \/ StopCalled
InOwnersStop == StopSets \/ StopNotifies \/ StopJoins
ThreadStep == EnterWait \/ Timeout \/ CallbackReturns
RecurringNext == Owner \/ InOwnersStop \/ ThreadStep \/ ThreadWakes
(* A stop gets the mutex some time, as the thread gives it up for a whole  *)
(* interval between callbacks; the deadline of the wait does not move when *)
(* the thread wakes spuriously, so it is reached.                          *)
RecurringFairness ==
  /\ SF_recurringVars(InOwnersStop) /\ WF_recurringVars(EnterWait)
  /\ SF_recurringVars(Timeout) /\ WF_recurringVars(CallbackReturns)
RecurringSpec == RecurringInit /\ [][RecurringNext]_recurringVars /\ RecurringFairness

-----------------------------------------------------------------------------
(* From the moment stop has set expired_, no callback runs or begins, even *)
(* if the interval ends before the notification arrives.                   *)
StoppedNeverCalls == tpc = "callback" => ~expired_

(* stop returns, also when the thread is between its test and its wait.    *)
StopJoinsThread == opc = "lock" ~> opc = "idle"
=============================================================================
