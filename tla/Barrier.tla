------------------------------ MODULE Barrier -------------------------------
(***************************************************************************)
(* barrier_cpp11/main.cpp: worker threads run their tasks and meet at a    *)
(* reusable Barrier after each.  Barrier::wait holds mutex_ except inside  *)
(* cv_.wait_for, so it is cut into the steps before, inside and after the  *)
(* wait.  count_ == 0 is both the counter's initial value and the signal   *)
(* that the barrier has opened.                                            *)
(***************************************************************************)
EXTENDS Naturals, FiniteSets

CONSTANTS
  Threads,       \* the worker threads, as many as the barrier expects
  kNumTasks      \* tasks per thread

ASSUME ThreadsAssumption == IsFiniteSet(Threads)
ASSUME kNumTasksAssumption == kNumTasks \in Nat

VARIABLES
  count_,        \* arrivals at the barrier since it was last reset
  pc,            \* "work", or in wait_for: "blocked", or "woken" and about to
                 \* lock mutex_ again
  left,          \* barriers each thread has left
  timedOut       \* history: some wait has timed out

barrierVars == <<count_, pc, left, timedOut>>

num_threads_ == Cardinality(Threads)
(* Tasks the thread has completed: it is in the barrier of the last one.   *)
Completed(t) == IF pc[t] = "work" THEN left[t] ELSE left[t] + 1

-----------------------------------------------------------------------------
Leave(t) ==
  /\ pc' = [pc EXCEPT ![t] = "work"]
  /\ left' = [left EXCEPT ![t] = @ + 1]

(* Mutant: the barrier opens one arrival early.                            *)
ArriveEarly(t) ==
  /\ pc[t] = "work" /\ left[t] < kNumTasks
  /\ IF count_ + 1 >= num_threads_ - 1
       THEN /\ count_' = 0
            /\ pc' = [u \in Threads |-> IF pc[u] = "blocked" THEN "woken" ELSE pc[u]]
            /\ left' = [left EXCEPT ![t] = @ + 1]
       ELSE /\ count_' = count_ + 1
            /\ pc' = [pc EXCEPT ![t] = "blocked"]
            /\ UNCHANGED left
  /\ UNCHANGED timedOut
(* The last to arrive resets the counter, wakes the others and passes.     *)
Arrive(t) ==
  /\ pc[t] = "work" /\ left[t] < kNumTasks
  /\ IF count_ + 1 = num_threads_
       THEN /\ count_' = 0
            /\ pc' = [u \in Threads |-> IF pc[u] = "blocked" THEN "woken" ELSE pc[u]]
            /\ left' = [left EXCEPT ![t] = @ + 1]
       ELSE /\ count_' = count_ + 1
            /\ pc' = [pc EXCEPT ![t] = "blocked"]
            /\ UNCHANGED left
  /\ UNCHANGED timedOut

(* A wake-up that nobody asked for.                                        *)
WakeSpuriously(t) ==
  /\ pc[t] = "blocked"
  /\ pc' = [pc EXCEPT ![t] = "woken"]
  /\ UNCHANGED <<count_, left, timedOut>>

(* The predicate of wait_for, evaluated with mutex_ held.                  *)
Released(t) ==
  /\ pc[t] = "woken" /\ count_ = 0
  /\ Leave(t)
  /\ UNCHANGED <<count_, timedOut>>
BlockAgain(t) ==
  /\ pc[t] = "woken" /\ count_ # 0
  /\ pc' = [pc EXCEPT ![t] = "blocked"]
  /\ UNCHANGED <<count_, left, timedOut>>

(* Mutant: a wait that is resumed after a timeout.                         *)
TimesOutRetries(t) ==
  /\ pc[t] = "blocked"
  /\ pc' = [pc EXCEPT ![t] = "woken"]
  /\ timedOut' = TRUE
  /\ UNCHANGED <<count_, left>>
(* The 5000 ms are over.  wait_for returns the predicate, and a thread     *)
(* that gets FALSE resets the counter; nobody is notified.                 *)
TimesOut(t) ==
  /\ pc[t] \in {"blocked", "woken"}
  /\ Leave(t)
  /\ timedOut' = TRUE
  /\ count_' = 0

-----------------------------------------------------------------------------
BarrierInit ==
  /\ count_ = 0
  /\ pc = [t \in Threads |-> "work"]
  /\ left = [t \in Threads |-> 0]
  /\ timedOut = FALSE
(* main joins the workers once all tasks are done.                         *)
Finished == \A t \in Threads : left[t] = kNumTasks
Joined == Finished /\ UNCHANGED barrierVars
Prompt(t) == Arrive(t) \/ Released(t) \/ BlockAgain(t)
BarrierNext ==
  \/ Joined
  \/ \E t \in Threads : Prompt(t) \/ WakeSpuriously(t) \/ TimesOut(t)
(* Threads run, and a thread left waiting times out.                       *)
BarrierFairness ==
  \A t \in Threads : WF_barrierVars(Prompt(t)) /\ WF_barrierVars(TimesOut(t))
BarrierSpec == BarrierInit /\ [][BarrierNext]_barrierVars /\ BarrierFairness

-----------------------------------------------------------------------------
(* As long as no wait has timed out, no thread leaves the barrier of a     *)
(* task before every thread has completed that task, however the wake-ups  *)
(* interleave with threads that are already in the next round.             *)
NoEarlyLeave == ~timedOut => \A t, u \in Threads : left[t] <= Completed(u)

(* Once a worker has completed a task, every worker gets through all of    *)
(* its tasks in the end, so main's joins return.                           *)
AllFinish == (\E t \in Threads : Completed(t) > 0) ~> Finished

(* The comment on worker: a thread that has completed a task waits at the  *)
(* barrier for the other threads to complete the same task.  A thread for  *)
(* which wait_for returns true has done so.                                *)
ReleasedMeansArrived ==
  [][\A t \in Threads : left'[t] > left[t] /\ UNCHANGED count_ =>
       \A u \in Threads : left'[t] <= Completed(u)]_barrierVars
=============================================================================
