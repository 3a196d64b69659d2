----------------------------- MODULE MCThreads ------------------------------
(* Four programs whose threads wait for each other, none of which shares   *)
(* state with another: the barrier with its four workers and two tasks,    *)
(* one timer of each class in timer/, libnice's threaded example, and the  *)
(* timer thread of acl with two objects.  unit says which of them runs.    *)
EXTENDS Barrier, ThreadTimer, RecurringTimer, ThreadedExample, TimerTrigger

CONSTANTS t1, t2, t3, t4, u1, o1, o2

FourThreads == {t1, t2, t3, t4}
OneUser == {u1}
TwoObjs == {o1, o2}
TwoTtls == [o \in TwoObjs |-> IF o = o1 THEN 1 ELSE 2]

VARIABLE unit

timersVars == <<threadTimerVars, recurringVars>>
threadsVars == <<barrierVars, timersVars, exampleVars, triggerVars, unit>>

ThreadsInit ==
  /\ BarrierInit /\ ThreadTimerInit /\ RecurringInit /\ ExampleInit /\ TriggerInit
  /\ unit \in {"barrier", "timers", "example", "trigger"}
ThreadsNext ==
  /\ UNCHANGED unit
  /\ \/ /\ unit = "barrier" /\ BarrierNext
        /\ UNCHANGED <<timersVars, exampleVars, triggerVars>>
     \/ /\ unit = "timers" /\ UNCHANGED <<barrierVars, exampleVars, triggerVars>>
        /\ \/ ThreadTimerNext /\ UNCHANGED recurringVars
           \/ RecurringNext /\ UNCHANGED threadTimerVars
     \/ /\ unit = "example" /\ ExampleNext
        /\ UNCHANGED <<barrierVars, timersVars, triggerVars>>
     \/ /\ unit = "trigger" /\ TriggerNext
        /\ UNCHANGED <<barrierVars, timersVars, exampleVars>>
ThreadsSpec ==
  /\ ThreadsInit /\ [][ThreadsNext]_threadsVars
  /\ \/ unit = "barrier" /\ BarrierFairness
     \/ unit = "timers" /\ ThreadTimerFairness /\ RecurringFairness
     \/ unit = "example" /\ ExampleFairness
     \/ unit = "trigger" /\ TriggerFairness

(* A stop of either timer in timer/ returns, wherever its thread was: at   *)
(* its test, between the test and the wait, in the task or at its end.     *)
BothStopsReturn == StopReturns /\ StopJoinsThread
=============================================================================
