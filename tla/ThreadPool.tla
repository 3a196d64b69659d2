----------------------------- MODULE ThreadPool -----------------------------
(***************************************************************************)
(* The thread pool of chap9/9_1.cpp over thread_safe_queue: its workers    *)
(* are the queue's consumers and only use try_pop.  Tasks are the queue's  *)
(* items.  The owner constructs the pool, submits tasks and destroys it,   *)
(* and the start of a thread may fail in the constructor.                  *)
(***************************************************************************)
EXTENDS ThreadSafeQueue

CONSTANT LaunchOrder   \* the order in which the constructor starts threads

(* Every worker is started once; where hardware_concurrency does not know  *)
(* the number of threads, which it reports as 0, the sequence is empty.    *)
ASSUME PoolAssumption ==
  /\ LaunchOrder \in Seq(Consumers)
  /\ \A i, j \in 1..Len(LaunchOrder) : LaunchOrder[i] = LaunchOrder[j] => i = j

thread_count == Len(LaunchOrder)

VARIABLES
  done,
  opc,          \* the owner: "construct", "use", "join" or "destroyed"
  started,      \* threads in the vector
  wpc,          \* each worker: "none", at "test", "pop" or "run", or "gone"
  task,         \* the task each worker holds, 0 for none
  runs          \* history: how often each task was begun

poolVars == <<done, opc, started, wpc, task, runs>>
allVars == <<poolVars, queueVars>>

Started == {LaunchOrder[i] : i \in 1..started}

-----------------------------------------------------------------------------
StartThread ==
  /\ opc = "construct" /\ started < thread_count
  /\ started' = started + 1
  /\ wpc' = [wpc EXCEPT ![LaunchOrder[started + 1]] = "test"]
  /\ UNCHANGED <<done, opc, task, runs, queueVars>>
(* The exception is caught, and the threads started so far are told to end.*)
StartFails ==
  /\ opc = "construct" /\ started < thread_count
  /\ done' = TRUE /\ opc' = "use"
  /\ UNCHANGED <<started, wpc, task, runs, queueVars>>
Constructed ==
  /\ opc = "construct" /\ started = thread_count
  /\ opc' = "use"
  /\ UNCHANGED <<done, started, wpc, task, runs, queueVars>>

submit == opc = "use" /\ push /\ UNCHANGED poolVars

(* Mutant: the joins without the flag.                                     *)
DestroyJoinFirst ==
  /\ opc = "use"
  /\ opc' = "join"
  /\ UNCHANGED <<done, started, wpc, task, runs, queueVars>>
Destroy ==
  /\ opc = "use"
  /\ done' = TRUE /\ opc' = "join"
  /\ UNCHANGED <<started, wpc, task, runs, queueVars>>
(* Mutant: the threads are not joined.                                     *)
JoinedDetached ==
  /\ opc = "join"
  /\ opc' = "destroyed"
  /\ UNCHANGED <<done, started, wpc, task, runs, queueVars>>
Joined ==
  /\ opc = "join" /\ \A w \in Started : wpc[w] = "gone"
  /\ opc' = "destroyed"
  /\ UNCHANGED <<done, started, wpc, task, runs, queueVars>>

-----------------------------------------------------------------------------
WorkerTest(w) ==
  /\ wpc[w] = "test"
  /\ wpc' = [wpc EXCEPT ![w] = IF done THEN "gone" ELSE "pop"]
  /\ UNCHANGED <<done, opc, started, task, runs, queueVars>>
(* Mutants: the worker ends when it finds nothing; reading the task does   *)
(* not always remove it.                                                   *)
WorkerPopOrEnd(w) ==
  /\ wpc[w] = "pop"
  /\ IF queue = <<>>
       THEN wpc' = [wpc EXCEPT ![w] = "gone"] /\ UNCHANGED <<task, queueVars>>
       ELSE /\ try_pop(w) /\ task' = [task EXCEPT ![w] = Head(queue)]
            /\ wpc' = [wpc EXCEPT ![w] = "run"]
  /\ UNCHANGED <<done, opc, started, runs>>
WorkerPeek(w) ==
  /\ wpc[w] = "pop"
  /\ IF queue = <<>>
       THEN wpc' = [wpc EXCEPT ![w] = "test"] /\ UNCHANGED <<task, queueVars>>
       ELSE /\ task' = [task EXCEPT ![w] = Head(queue)]
            /\ wpc' = [wpc EXCEPT ![w] = "run"]
            /\ (try_pop(w) \/ UNCHANGED queueVars)
  /\ UNCHANGED <<done, opc, started, runs>>
WorkerPop(w) ==
  /\ wpc[w] = "pop"
  /\ IF queue = <<>>
       THEN wpc' = [wpc EXCEPT ![w] = "test"] /\ UNCHANGED <<task, queueVars>>
       ELSE /\ try_pop(w) /\ task' = [task EXCEPT ![w] = Head(queue)]
            /\ wpc' = [wpc EXCEPT ![w] = "run"]
  /\ UNCHANGED <<done, opc, started, runs>>
(* The task is begun, and the worker comes back when it has returned.      *)
WorkerRun(w) ==
  /\ wpc[w] = "run" /\ task[w] # 0
  /\ runs' = [runs EXCEPT ![task[w]] = @ + 1]
  /\ task' = [task EXCEPT ![w] = 0]
  /\ UNCHANGED <<done, opc, started, wpc, queueVars>>
WorkerRan(w) ==
  /\ wpc[w] = "run" /\ task[w] = 0
  /\ wpc' = [wpc EXCEPT ![w] = "test"]
  /\ UNCHANGED <<done, opc, started, task, runs, queueVars>>

-----------------------------------------------------------------------------
PoolInit ==
  /\ QueueInit
  /\ done = FALSE /\ opc = "construct" /\ started = 0
  /\ wpc = [w \in Consumers |-> "none"] /\ task = [w \in Consumers |-> 0]
  /\ runs = [k \in 1..MaxPush |-> 0]
Owner == StartThread \/ StartFails \/ Constructed \/ submit \/ Destroy \/ Joined
Worker(w) == WorkerTest(w) \/ WorkerPop(w) \/ WorkerRun(w) \/ WorkerRan(w)
PoolNext == Owner \/ \E w \in Consumers : Worker(w)
(* Workers are scheduled and tasks return; the destructor goes on; the     *)
(* constructor ends.                                                       *)
PoolFairness ==
  /\ \A w \in Consumers : WF_allVars(Worker(w))
  /\ WF_allVars(Joined) /\ WF_allVars(StartThread \/ Constructed)
PoolSpec == PoolInit /\ [][PoolNext]_allVars /\ PoolFairness

-----------------------------------------------------------------------------

(* A task is begun at most once, whatever the workers do at the same time, *)
(* and a task that is in no worker's hands and not in the queue was begun. *)
TaskOnce ==
  \A k \in 1..pushed :
    LET held == {w \in Consumers : task[w] = k} IN
    runs[k] + Cardinality(held) = (IF k <= last THEN 1 ELSE 0)

(* When the destructor has returned no worker touches the pool any more.   *)
DestroyedIsQuiet ==
  opc = "destroyed" => \A w \in Consumers : wpc[w] \in {"none", "gone"}

(* A task given to a pool with at least one thread is begun, unless the    *)
(* pool is told to end.                                                    *)
SubmittedRuns ==
  \A k \in 1..MaxPush :
    (pushed >= k /\ thread_count > 0) ~> (runs[k] > 0 \/ done)

(* The destructor returns although tasks are left in the queue.            *)
DestructorReturns == opc = "join" ~> opc = "destroyed"
=============================================================================
