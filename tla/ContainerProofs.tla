-------------------------- MODULE ContainerProofs ---------------------------
(***************************************************************************)
(* The queue of chap6: the order of its items, and the absence of lost     *)
(* wake-ups as long as no wait_and_pop throws.  The thread pool on top of  *)
(* it: each task is begun once, and a destroyed pool is quiet.  The linked *)
(* list of googletest: it implements the abstract queue of Fifo. The       *)
(* hierarchical mutex: threads that unlock in the reverse order of their   *)
(* locks never wait in a circle.                                           *)
(***************************************************************************)
EXTENDS ThreadPool, LinkedQueue, HierarchicalMutex, FiniteSetTheorems,
        WellFoundedInduction, TLAPS

-----------------------------------------------------------------------------
(* The types of the initial state.                                         *)
LEMMA QueueTypeInit == QueueInit => QueueTypeOK
<1>1. QueueInit => thrown \in BOOLEAN
  BY Zenon DEF QueueInit
<1> QED BY <1>1 DEF QueueInit, QueueTypeOK

(* What the steps of a consumer do, in terms of the state.                 *)
LEMMA ConsumerStep ==
  ASSUME NEW c \in Consumers, QueueTypeOK,
         wait_and_pop(c) \/ Resume(c) \/ try_pop(c)
  PROVE  /\ \/ /\ queue # <<>> /\ queue' = Tail(queue) /\ last' = Head(queue)
               /\ cpc' = [cpc EXCEPT ![c] = "idle"]
            \/ /\ thrown' /\ UNCHANGED <<queue, last>>
               /\ cpc' = [cpc EXCEPT ![c] = "idle"]
            \/ /\ queue = <<>> /\ UNCHANGED <<queue, last>>
               /\ cpc' = [cpc EXCEPT ![c] = "blocked"]
         /\ pushed' = pushed /\ thrown' \in BOOLEAN
         /\ thrown => thrown'
BY Zenon DEF wait_and_pop, Resume, try_pop, TestAndPop, Take, Throw, QueueTypeOK

(* The steps of the queue keep the types.                                  *)
LEMMA QueueTypeStep == QueueTypeOK /\ [QueueNext]_queueVars => QueueTypeOK'
<1> SUFFICES ASSUME QueueTypeOK, [QueueNext]_queueVars PROVE QueueTypeOK'
  OBVIOUS
<1>1. CASE push
  BY <1>1, QueueAssumption DEF push, notify_one, Blocked, QueueTypeOK
<1>2. ASSUME NEW c \in Consumers, wait_and_pop(c) \/ Resume(c) \/ try_pop(c)
      PROVE  QueueTypeOK'
  <2>1. queue # <<>> => Head(queue) \in Nat /\ Tail(queue) \in Seq(Nat)
    BY DEF QueueTypeOK
  <2> QED BY Zenon, <1>2, <2>1, ConsumerStep DEF QueueTypeOK
<1>3. ASSUME NEW c \in Consumers, WakeSpuriously(c) PROVE QueueTypeOK'
  BY <1>3 DEF WakeSpuriously, QueueTypeOK
<1>4. CASE UNCHANGED queueVars
  BY <1>4 DEF queueVars, QueueTypeOK
<1> QED BY <1>1, <1>2, <1>3, <1>4 DEF QueueNext

(* The steps of the queue keep the order of the items.                     *)
LEMMA InOrderStep ==
  QueueTypeOK /\ InOrder /\ [QueueNext]_queueVars => InOrder'
<1> SUFFICES ASSUME QueueTypeOK, InOrder, [QueueNext]_queueVars PROVE InOrder'
  OBVIOUS
<1>1. CASE push
  <2>1. /\ queue' = Append(queue, pushed + 1)
        /\ pushed' = pushed + 1 /\ last' = last
    BY <1>1 DEF push
  <2>2. Len(queue') = Len(queue) + 1 /\ Len(queue) \in Nat
    BY <2>1 DEF QueueTypeOK
  <2>3. ASSUME NEW i \in 1..Len(queue') PROVE queue'[i] = last' + i
    <3>1. CASE i \in 1..Len(queue)
      <4>1. queue'[i] = queue[i]
        BY <2>1, <3>1 DEF QueueTypeOK
      <4> QED BY <2>1, <3>1, <4>1 DEF InOrder
    <3>2. CASE i = Len(queue) + 1
      <4>1. queue'[i] = pushed + 1
        BY <2>1, <3>2 DEF QueueTypeOK
      <4> QED BY <2>1, <3>2, <4>1 DEF InOrder, QueueTypeOK
    <3> QED BY <2>2, <3>1, <3>2
  <2> QED BY <2>1, <2>2, <2>3 DEF InOrder, QueueTypeOK
<1>2. ASSUME NEW c \in Consumers, wait_and_pop(c) \/ Resume(c) \/ try_pop(c)
      PROVE  InOrder'
  <2>1. CASE queue # <<>> /\ queue' = Tail(queue) /\ last' = Head(queue)
    <3>1. pushed' = pushed
      BY <1>2, ConsumerStep
    <3>2. last' = last + 1 /\ Len(queue') = Len(queue) - 1
      BY <2>1 DEF InOrder, QueueTypeOK
    <3>3. ASSUME NEW i \in 1..Len(queue') PROVE queue'[i] = last' + i
      <4>1. queue'[i] = queue[i + 1] /\ i + 1 \in 1..Len(queue)
        BY <2>1, <3>2 DEF QueueTypeOK
      <4> QED BY <3>2, <4>1 DEF InOrder, QueueTypeOK
    <3> QED BY <3>1, <3>2, <3>3 DEF InOrder, QueueTypeOK
  <2>2. CASE UNCHANGED <<queue, last>>
    BY <2>2, <1>2, ConsumerStep DEF InOrder
  <2> QED BY <1>2, <2>1, <2>2, ConsumerStep
<1>3. ASSUME NEW c \in Consumers, WakeSpuriously(c) PROVE InOrder'
  BY <1>3 DEF WakeSpuriously, InOrder
<1>4. CASE UNCHANGED queueVars
  BY <1>4 DEF queueVars, InOrder
<1> QED BY <1>1, <1>2, <1>3, <1>4 DEF QueueNext

(* Every step of every run keeps the items in order: push appends, a pop   *)
(* takes the first, and a wait_and_pop that throws leaves it in place.     *)
THEOREM FirstInFirstOut == QueueSpec => []InOrder
<1>1. QueueInit => QueueTypeOK /\ InOrder
  BY QueueTypeInit DEF QueueInit, InOrder
<1> QED BY <1>1, QueueTypeStep, InOrderStep, PTL DEF QueueSpec

-----------------------------------------------------------------------------
(* The woken threads can be counted.                                       *)
LEMMA WokenFinite == IsFiniteSet(Woken) /\ Cardinality(Woken) \in Nat
<1>1. IsFiniteSet(Woken)
  BY QueueAssumption, FS_Subset DEF Woken
<1> QED BY <1>1, FS_CardinalityType

(* A wake-up adds one to them.                                             *)
LEMMA WakeCounts ==
  ASSUME QueueTypeOK, NEW c \in Blocked, cpc' = [cpc EXCEPT ![c] = "woken"]
  PROVE  Cardinality(Woken') = Cardinality(Woken) + 1
<1>1. Woken' = Woken \cup {c} /\ c \notin Woken
  BY DEF Woken, Blocked, QueueTypeOK
<1> QED BY <1>1, WokenFinite, FS_AddElement

(* A consumer that returns or sleeps takes itself from them, if it was one.*)
LEMMA LeaveCounts ==
  ASSUME QueueTypeOK, NEW c \in Consumers, NEW s \in {"idle", "blocked"},
         cpc' = [cpc EXCEPT ![c] = s]
  PROVE  Cardinality(Woken') \in {Cardinality(Woken), Cardinality(Woken) - 1}
<1>1. Woken' = Woken \ {c}
  BY DEF Woken, QueueTypeOK
<1> QED BY <1>1, WokenFinite, FS_RemoveElement

(* A step without an exception loses no wake-up.                           *)
LEMMA WakeupStep ==
  QueueTypeOK /\ NoLostWakeup /\ [QueueNext]_queueVars => NoLostWakeup'
<1> SUFFICES ASSUME QueueTypeOK, NoLostWakeup, [QueueNext]_queueVars,
                    ~thrown', Blocked' # {}
             PROVE  Cardinality(Woken') >= Len(queue')
  BY DEF NoLostWakeup
<1>00. ~thrown
  <2>1. ASSUME NEW c \in Consumers, wait_and_pop(c) \/ Resume(c) \/ try_pop(c)
        PROVE  ~thrown
    BY <2>1, ConsumerStep
  <2> QED BY <2>1 DEF QueueNext, push, WakeSpuriously, queueVars
<1>0. Cardinality(Woken) \in Nat /\ Len(queue) \in Nat
  BY WokenFinite DEF QueueTypeOK
<1>1. CASE push
  <2>1. Len(queue') = Len(queue) + 1
    BY <1>1 DEF push, QueueTypeOK
  <2>2. Blocked # {}
    BY <1>1 DEF push, notify_one, Blocked
  <2>3. PICK c \in Blocked : cpc' = [cpc EXCEPT ![c] = "woken"]
    BY <1>1, <2>2 DEF push, notify_one
  <2>4. Cardinality(Woken') = Cardinality(Woken) + 1
    BY Zenon, <2>3, WakeCounts
  <2>5. Cardinality(Woken) >= Len(queue)
    BY <1>00, <2>2 DEF NoLostWakeup
  <2> QED BY <1>0, <2>1, <2>4, <2>5
<1>2. ASSUME NEW c \in Consumers, wait_and_pop(c) \/ Resume(c) \/ try_pop(c)
      PROVE  Cardinality(Woken') >= Len(queue')
  <2>1. CASE queue # <<>> /\ queue' = Tail(queue) /\ cpc' = [cpc EXCEPT ![c] = "idle"]
    <3>1. Blocked # {}
      BY <2>1 DEF Blocked, QueueTypeOK
    <3>2. Len(queue') = Len(queue) - 1
      BY <2>1 DEF QueueTypeOK
    <3>3. Cardinality(Woken') \in {Cardinality(Woken), Cardinality(Woken) - 1}
      BY Zenon, <2>1, LeaveCounts
    <3>4. Cardinality(Woken) >= Len(queue)
      BY <1>00, <3>1 DEF NoLostWakeup
    <3> QED BY <1>0, <3>2, <3>3, <3>4
  <2>2. CASE queue = <<>> /\ queue' = queue /\ cpc' = [cpc EXCEPT ![c] = "blocked"]
    <3>1. Len(queue') = 0
      BY <2>2
    <3>2. cpc' \in [Consumers -> {"idle", "blocked", "woken"}]
      BY <2>2 DEF QueueTypeOK
    <3>3. Woken' = Woken \ {c}
      BY <2>2 DEF Woken, QueueTypeOK
    <3>4. Cardinality(Woken') \in Nat
      BY Zenon, <3>3, WokenFinite, FS_RemoveElement, FS_CardinalityType
    <3> QED BY <3>1, <3>4
  <2> QED BY <1>2, <2>1, <2>2, ConsumerStep
<1>3. ASSUME NEW c \in Consumers, WakeSpuriously(c)
      PROVE  Cardinality(Woken') >= Len(queue')
  <2>1. c \in Blocked /\ queue' = queue /\ cpc' = [cpc EXCEPT ![c] = "woken"]
    BY <1>3 DEF WakeSpuriously, Blocked
  <2>2. Cardinality(Woken') = Cardinality(Woken) + 1
    BY Zenon, <2>1, WakeCounts
  <2>3. Cardinality(Woken) >= Len(queue)
    BY <1>00, <2>1 DEF NoLostWakeup
  <2> QED BY <1>0, <2>1, <2>2, <2>3
<1>4. CASE UNCHANGED queueVars
  BY <1>00, <1>4 DEF queueVars, NoLostWakeup, Blocked, Woken
<1> QED BY <1>1, <1>2, <1>3, <1>4 DEF QueueNext

(* Until a wait_and_pop throws, and so always in the queue of pointers, no *)
(* thread sleeps while an item waits that nobody was woken for, for any    *)
(* number of consumers and items.                                          *)
THEOREM NobodySleepsPastAnItem == QueueSpec => []NoLostWakeup
<1>1. QueueInit => QueueTypeOK /\ NoLostWakeup
  BY QueueTypeInit DEF QueueInit, NoLostWakeup, Blocked
<1> QED BY <1>1, QueueTypeStep, WakeupStep, PTL DEF QueueSpec

-----------------------------------------------------------------------------
(* The pool uses its queue as the queue allows.                            *)
LEMMA PoolStepsQueue == [PoolNext]_allVars => [QueueNext]_queueVars
<1> SUFFICES ASSUME [PoolNext]_allVars PROVE [QueueNext]_queueVars
  OBVIOUS
<1>1. CASE Owner
  BY <1>1 DEF Owner, StartThread, StartFails, Constructed, submit, Destroy, Joined, QueueNext
<1>2. ASSUME NEW w \in Consumers, Worker(w) PROVE [QueueNext]_queueVars
  BY <1>2 DEF Worker, WorkerTest, WorkerPop, WorkerRun, WorkerRan, QueueNext
<1>3. CASE UNCHANGED allVars
  BY <1>3 DEF allVars
<1> QED BY <1>1, <1>2, <1>3 DEF PoolNext

PoolTypes ==
  /\ QueueTypeOK /\ InOrder /\ pushed <= MaxPush
  /\ opc \in {"construct", "use", "join", "destroyed"}
  /\ started \in 0..thread_count
  /\ wpc \in [Consumers -> {"none", "test", "pop", "run", "gone"}]
  /\ task \in [Consumers -> Nat]
  /\ runs \in [1..MaxPush -> Nat]

(* A worker holds a task only while it runs it, and only a task that was   *)
(* popped.                                                                 *)
TasksHeld ==
  \A w \in Consumers : task[w] # 0 => wpc[w] = "run" /\ task[w] <= last

(* TaskOnce, also for the tasks that are still to be submitted.            *)
Holders(k) == {w \in Consumers : task[w] = k}
EveryTaskOnce ==
  \A k \in 1..MaxPush : runs[k] + Cardinality(Holders(k)) = (IF k <= last THEN 1 ELSE 0)

(* Only the threads in the vector run, and after the joins none of them.   *)
ThreadsJoined ==
  /\ \A w \in Consumers : wpc[w] # "none" => w \in Started
  /\ opc = "destroyed" => \A w \in Started : wpc[w] = "gone"

PoolInv == PoolTypes /\ TasksHeld /\ EveryTaskOnce /\ ThreadsJoined

(* The initial state: no thread is started and no task submitted.          *)
LEMMA PoolInitInv == PoolInit => PoolInv
<1> SUFFICES ASSUME PoolInit PROVE PoolInv
  OBVIOUS
<1>1. QueueTypeOK /\ InOrder
  BY QueueTypeInit DEF PoolInit, QueueInit, InOrder
<1>2. PoolTypes
  <2>1. thread_count \in Nat
    BY PoolAssumption DEF thread_count
  <2> QED BY <1>1, <2>1, QueueAssumption DEF PoolInit, PoolTypes, QueueInit
<1>3. TasksHeld /\ ThreadsJoined
  BY DEF PoolInit, TasksHeld, ThreadsJoined
<1>4. EveryTaskOnce
  <2> SUFFICES ASSUME NEW k \in 1..MaxPush
               PROVE  runs[k] + Cardinality(Holders(k)) = (IF k <= last THEN 1 ELSE 0)
    BY DEF EveryTaskOnce
  <2>1. Holders(k) = {} /\ runs[k] = 0 /\ last = 0 /\ k > 0
    BY QueueAssumption DEF PoolInit, QueueInit, Holders
  <2>2. Cardinality({}) = 0
    BY FS_EmptySet
  <2> QED BY <2>1, <2>2, QueueAssumption
<1> QED BY <1>2, <1>3, <1>4 DEF PoolInv

(* The holders of a task can be counted.                                   *)
LEMMA HoldersFinite ==
  ASSUME NEW k PROVE IsFiniteSet(Holders(k)) /\ Cardinality(Holders(k)) \in Nat
<1>1. IsFiniteSet(Holders(k))
  BY QueueAssumption, FS_Subset DEF Holders
<1> QED BY <1>1, FS_CardinalityType

(* What a worker that finds the queue not empty takes from it.             *)
LEMMA PopTakesNext ==
  ASSUME PoolTypes, NEW w \in Consumers, queue # <<>>, try_pop(w)
  PROVE  Head(queue) = last + 1 /\ last' = last + 1 /\ last + 1 <= pushed
         /\ UNCHANGED pushed
<1>1. last' = Head(queue) /\ pushed' = pushed
  BY DEF try_pop, Take
<1>2. Len(queue) > 0 /\ Head(queue) = queue[1]
  BY DEF PoolTypes, QueueTypeOK
<1>3. Len(queue) = pushed - last /\ queue[1] = last + 1
  BY <1>2 DEF PoolTypes, InOrder, QueueTypeOK
<1> QED BY <1>1, <1>2, <1>3 DEF PoolTypes, QueueTypeOK

(* A task that a worker holds is one that was submitted.                   *)
LEMMA HeldWasSubmitted ==
  ASSUME PoolTypes, TasksHeld, NEW w \in Consumers, task[w] # 0
  PROVE  task[w] \in 1..MaxPush
<1>1. task[w] \in Nat /\ task[w] <= last /\ last \in Nat /\ pushed \in Nat
  BY DEF TasksHeld, PoolTypes, QueueTypeOK
<1>2. Len(queue) \in Nat /\ Len(queue) = pushed - last /\ pushed <= MaxPush
  BY DEF PoolTypes, InOrder, QueueTypeOK
<1> QED BY <1>1, <1>2, QueueAssumption

(* Every step of the pool keeps the types.                                 *)
LEMMA PoolTypesStep == PoolInv /\ [PoolNext]_allVars => PoolTypes'
<1> SUFFICES ASSUME PoolInv, [PoolNext]_allVars PROVE PoolTypes'
  OBVIOUS
<1>0. PoolTypes /\ TasksHeld /\ QueueTypeOK /\ InOrder
  BY DEF PoolInv, PoolTypes
<1>1. QueueTypeOK' /\ InOrder'
  BY <1>0, PoolStepsQueue, QueueTypeStep, InOrderStep
<1>2. thread_count \in Nat /\ LaunchOrder \in Seq(Consumers)
  BY PoolAssumption DEF thread_count
<1>3. CASE StartThread
  <2>1. UNCHANGED <<pushed, opc, task, runs>> /\ started' = started + 1
        /\ started < thread_count
    BY <1>3 DEF StartThread, queueVars
  <2>2. wpc' \in [Consumers -> {"none", "test", "pop", "run", "gone"}]
    BY Zenon, <1>0, <1>3 DEF StartThread, PoolTypes
  <2>3. started' \in 0..thread_count
    BY <1>0, <1>2, <2>1 DEF PoolTypes
  <2> QED BY <1>0, <1>1, <2>1, <2>2, <2>3 DEF PoolTypes
<1>4. CASE StartFails \/ Constructed \/ Destroy \/ Joined
  BY <1>0, <1>1, <1>4 DEF StartFails, Constructed, Destroy, Joined, queueVars, PoolTypes
<1>5. CASE submit
  <2>1. UNCHANGED poolVars /\ pushed' = pushed + 1 /\ pushed < MaxPush
    BY <1>5 DEF submit, push
  <2>2. pushed' <= MaxPush
    BY <1>0, <2>1, QueueAssumption DEF PoolTypes, QueueTypeOK
  <2> QED BY <1>0, <1>1, <2>1, <2>2 DEF poolVars, PoolTypes
<1>6. ASSUME NEW w \in Consumers, WorkerTest(w) \/ WorkerRan(w) PROVE PoolTypes'
  BY <1>0, <1>1, <1>6 DEF WorkerTest, WorkerRan, queueVars, PoolTypes
<1>7. ASSUME NEW w \in Consumers, WorkerPop(w) PROVE PoolTypes'
  <2>1. CASE queue = <<>>
    BY <1>0, <1>1, <1>7, <2>1 DEF WorkerPop, queueVars, PoolTypes
  <2>2. CASE queue # <<>>
    <3>1. task' \in [Consumers -> Nat] /\ pushed' = pushed
      <4>1. try_pop(w) /\ task' = [task EXCEPT ![w] = Head(queue)]
        BY <1>7, <2>2 DEF WorkerPop
      <4>2. Head(queue) \in Nat
        BY <1>0, <2>2 DEF QueueTypeOK
      <4> QED BY <1>0, <2>2, <4>1, <4>2, PopTakesNext DEF PoolTypes
    <3> QED BY <1>0, <1>1, <1>7, <2>2, <3>1 DEF WorkerPop, PoolTypes
  <2> QED BY <2>1, <2>2
<1>8. ASSUME NEW w \in Consumers, WorkerRun(w) PROVE PoolTypes'
  <2>1. runs' = [runs EXCEPT ![task[w]] = @ + 1] /\ task' = [task EXCEPT ![w] = 0]
        /\ UNCHANGED <<pushed, opc, started, wpc>>
    BY <1>8 DEF WorkerRun, queueVars
  <2>2. task[w] \in 1..MaxPush
    BY <1>0, <1>8, HeldWasSubmitted DEF WorkerRun
  <2>3. runs' \in [1..MaxPush -> Nat]
    <3>1. runs[task[w]] + 1 \in Nat
      BY <1>0, <2>2 DEF PoolTypes
    <3> QED BY Zenon, <1>0, <2>1, <3>1 DEF PoolTypes
  <2>4. task' \in [Consumers -> Nat]
    BY <1>0, <2>1 DEF PoolTypes
  <2> QED BY <1>0, <1>1, <2>1, <2>3, <2>4 DEF PoolTypes
<1>9. CASE UNCHANGED allVars
  BY <1>0, <1>1, <1>9 DEF allVars, poolVars, queueVars, PoolTypes
<1> QED BY <1>3, <1>4, <1>5, <1>6, <1>7, <1>8, <1>9 DEF PoolNext, Owner, Worker

(* Every step keeps the threads that run within the vector, and the joins  *)
(* final.                                                                  *)
LEMMA JoinedStep == PoolInv /\ [PoolNext]_allVars => ThreadsJoined'
<1> SUFFICES ASSUME PoolInv, [PoolNext]_allVars PROVE ThreadsJoined'
  OBVIOUS
<1>0. PoolTypes /\ ThreadsJoined
  BY DEF PoolInv
<1>1. CASE StartThread
  <2>1. started \in Nat /\ started' = started + 1 /\ opc = "construct" /\ opc' = opc
        /\ wpc' = [wpc EXCEPT ![LaunchOrder[started + 1]] = "test"]
    BY <1>0, <1>1 DEF StartThread, PoolTypes
  <2>2. ASSUME NEW w \in Consumers, wpc'[w] # "none" PROVE w \in Started'
    <3>1. CASE w = LaunchOrder[started + 1]
      <4>1. started + 1 \in 1..started'
        BY <2>1
      <4> QED BY <3>1, <4>1 DEF Started
    <3>2. CASE w # LaunchOrder[started + 1]
      <4>1. wpc[w] # "none"
        BY <1>0, <2>1, <2>2, <3>2 DEF PoolTypes
      <4>2. PICK i \in 1..started : w = LaunchOrder[i]
        BY <1>0, <4>1 DEF ThreadsJoined, Started
      <4>3. i \in 1..started'
        BY <2>1
      <4> QED BY <4>2, <4>3 DEF Started
    <3> QED BY <3>1, <3>2
  <2> QED BY <2>1, <2>2 DEF ThreadsJoined
<1>2. CASE StartFails \/ Constructed \/ Destroy \/ Joined
  BY <1>0, <1>2 DEF StartFails, Constructed, Destroy, Joined, ThreadsJoined, Started
<1>3. CASE submit
  BY <1>0, <1>3 DEF submit, poolVars, ThreadsJoined, Started
<1>4. ASSUME NEW w \in Consumers, Worker(w) PROVE ThreadsJoined'
  <2>1. wpc[w] \notin {"none", "gone"} /\ UNCHANGED <<opc, started>>
        /\ wpc' \in [Consumers -> {"none", "test", "pop", "run", "gone"}]
        /\ \A v \in Consumers : v # w => wpc'[v] = wpc[v]
    BY <1>0, <1>4 DEF Worker, WorkerTest, WorkerPop, WorkerRun, WorkerRan, PoolTypes
  <2>2. w \in Started /\ Started' = Started
    BY <1>0, <2>1 DEF ThreadsJoined, Started
  <2>3. opc # "destroyed"
    BY <1>0, <2>1, <2>2 DEF ThreadsJoined
  <2> QED BY <1>0, <2>1, <2>2, <2>3 DEF ThreadsJoined
<1>5. CASE UNCHANGED allVars
  BY <1>0, <1>5 DEF allVars, poolVars, ThreadsJoined, Started
<1> QED BY <1>1, <1>2, <1>3, <1>4, <1>5 DEF PoolNext, Owner

(* Every step counts the tasks right.                                      *)
LEMMA TaskStep == PoolInv /\ [PoolNext]_allVars => TasksHeld' /\ EveryTaskOnce'
<1> SUFFICES ASSUME PoolInv, [PoolNext]_allVars PROVE TasksHeld' /\ EveryTaskOnce'
  OBVIOUS
<1>0. PoolTypes /\ TasksHeld /\ EveryTaskOnce /\ last \in Nat /\ pushed \in Nat /\ MaxPush \in Nat
  BY QueueAssumption DEF PoolInv, PoolTypes, QueueTypeOK
<1>1. ASSUME UNCHANGED <<task, runs, last>>,
             \A w \in Consumers : wpc[w] = "run" /\ task[w] # 0 => wpc'[w] = "run"
      PROVE  TasksHeld' /\ EveryTaskOnce'
  BY <1>0, <1>1 DEF TasksHeld, EveryTaskOnce, Holders
<1>2. CASE StartThread
  <2>1. opc = "construct" /\ UNCHANGED <<task, runs, last>>
        /\ wpc' = [wpc EXCEPT ![LaunchOrder[started + 1]] = "test"]
    BY <1>2 DEF StartThread, queueVars
  <2>2. /\ started \in Nat /\ started + 1 \in 1..Len(LaunchOrder)
        /\ LaunchOrder[started + 1] \in Consumers
    BY <1>0, <1>2, PoolAssumption DEF StartThread, PoolTypes, thread_count
  <2>3. LaunchOrder[started + 1] \notin Started
    <3> SUFFICES ASSUME NEW i \in 1..started, LaunchOrder[i] = LaunchOrder[started + 1]
                 PROVE  FALSE
      BY DEF Started
    <3>1. i \in 1..Len(LaunchOrder) /\ i # started + 1
      BY <2>2
    <3> QED BY <2>2, <3>1, PoolAssumption
  <2>4. wpc[LaunchOrder[started + 1]] = "none"
    BY <2>2, <2>3 DEF PoolInv, ThreadsJoined
  <2> QED BY <1>0, <1>1, <2>1, <2>4 DEF PoolTypes
<1>3. CASE StartFails \/ Constructed \/ Destroy \/ Joined
  BY <1>1, <1>3 DEF StartFails, Constructed, Destroy, Joined, queueVars
<1>4. CASE submit
  BY <1>1, <1>4 DEF submit, push, poolVars
<1>5. ASSUME NEW w \in Consumers, WorkerTest(w) \/ WorkerRan(w)
      PROVE  TasksHeld' /\ EveryTaskOnce'
  <2>1. UNCHANGED <<task, runs, last>> /\ (wpc[w] # "run" \/ task[w] = 0)
        /\ \A v \in Consumers : v # w => wpc'[v] = wpc[v]
    BY <1>0, <1>5 DEF WorkerTest, WorkerRan, queueVars, PoolTypes
  <2> QED BY <1>1, <2>1
<1>6. ASSUME NEW w \in Consumers, WorkerPop(w) PROVE TasksHeld' /\ EveryTaskOnce'
  <2>0. wpc[w] = "pop" /\ task[w] = 0
    BY <1>0, <1>6 DEF WorkerPop, TasksHeld
  <2>1. CASE queue = <<>>
    <3>1. UNCHANGED <<task, runs, last>> /\ \A v \in Consumers : v # w => wpc'[v] = wpc[v]
      BY <1>0, <1>6, <2>1 DEF WorkerPop, queueVars, PoolTypes
    <3> QED BY <1>1, <2>0, <3>1
  <2>2. CASE queue # <<>>
    <3>1. try_pop(w) /\ task' = [task EXCEPT ![w] = Head(queue)]
          /\ wpc' = [wpc EXCEPT ![w] = "run"] /\ runs' = runs
      BY <1>6, <2>2 DEF WorkerPop
    <3>2. Head(queue) = last + 1 /\ last' = last + 1 /\ last + 1 <= pushed
      BY <1>0, <2>2, <3>1, PopTakesNext
    <3>3. ASSUME NEW v \in Consumers
          PROVE  /\ task'[v] = (IF v = w THEN last + 1 ELSE task[v])
                 /\ wpc'[v] = (IF v = w THEN "run" ELSE wpc[v])
      BY <1>0, <3>1, <3>2 DEF PoolTypes
    <3>4. TasksHeld'
      <4> SUFFICES ASSUME NEW v \in Consumers, task'[v] # 0
                   PROVE  wpc'[v] = "run" /\ task'[v] <= last'
        BY DEF TasksHeld
      <4>1. task[v] # 0 => wpc[v] = "run" /\ task[v] <= last
        BY <1>0 DEF TasksHeld
      <4>2. task[v] \in Nat
        BY <1>0 DEF PoolTypes
      <4> QED BY <1>0, <3>2, <3>3, <4>1, <4>2
    <3>5. ASSUME NEW k \in 1..MaxPush
          PROVE  runs'[k] + Cardinality(Holders(k)') = (IF k <= last' THEN 1 ELSE 0)
      <4>1. runs[k] + Cardinality(Holders(k)) = (IF k <= last THEN 1 ELSE 0)
            /\ runs[k] \in Nat /\ Cardinality(Holders(k)) \in Nat /\ k \in Nat /\ k # 0
        BY <1>0, HoldersFinite DEF EveryTaskOnce, PoolTypes
      <4>2. CASE k = last + 1
        <5>1. runs[k] = 0 /\ Cardinality(Holders(k)) = 0
          BY <1>0, <4>1, <4>2
        <5>2. Holders(k)' = Holders(k) \cup {w} /\ w \notin Holders(k)
          BY <2>0, <3>3, <4>1, <4>2 DEF Holders
        <5>3. Cardinality(Holders(k)') = 1
          <6>1. Cardinality(Holders(k) \cup {w}) = Cardinality(Holders(k)) + 1
            BY <5>2, HoldersFinite, FS_AddElement
          <6> QED BY <5>1, <5>2, <6>1
        <5> QED BY <1>0, <3>1, <3>2, <4>2, <5>1, <5>3
      <4>3. CASE k # last + 1
        <5>1. Holders(k)' = Holders(k)
          BY <2>0, <3>3, <4>1, <4>3 DEF Holders
        <5>2. k <= last' <=> k <= last
          BY <1>0, <3>2, <4>1, <4>3
        <5> QED BY <3>1, <4>1, <5>1, <5>2
      <4> QED BY <4>2, <4>3
    <3>6. EveryTaskOnce'
      BY <3>5 DEF EveryTaskOnce
    <3> QED BY <3>4, <3>6
  <2> QED BY <2>1, <2>2
<1>7. ASSUME NEW w \in Consumers, WorkerRun(w) PROVE TasksHeld' /\ EveryTaskOnce'
  <2> DEFINE held == task[w]
  <2>1. /\ wpc[w] = "run" /\ held # 0 /\ UNCHANGED <<wpc, last>>
        /\ runs' = [runs EXCEPT ![held] = @ + 1] /\ task' = [task EXCEPT ![w] = 0]
    BY <1>7 DEF WorkerRun, queueVars
  <2>2. held \in 1..MaxPush
    BY <1>0, <2>1, HeldWasSubmitted
  <2>3. ASSUME NEW v \in Consumers PROVE task'[v] = (IF v = w THEN 0 ELSE task[v])
    BY <1>0, <2>1 DEF PoolTypes
  <2>4. TasksHeld'
    BY <1>0, <2>1, <2>3 DEF TasksHeld
  <2>5. ASSUME NEW k \in 1..MaxPush
        PROVE  runs'[k] + Cardinality(Holders(k)') = (IF k <= last THEN 1 ELSE 0)
    <3>1. runs[k] + Cardinality(Holders(k)) = (IF k <= last THEN 1 ELSE 0)
          /\ runs[k] \in Nat /\ Cardinality(Holders(k)) \in Nat /\ k # 0
      BY <1>0, HoldersFinite DEF EveryTaskOnce, PoolTypes
    <3>2. CASE k = held
      <4>1. w \in Holders(k) /\ Holders(k)' = Holders(k) \ {w}
        BY <2>3, <3>1, <3>2 DEF Holders
      <4>2. Cardinality(Holders(k)') = Cardinality(Holders(k)) - 1
        BY <4>1, HoldersFinite, FS_RemoveElement
      <4>3. runs'[k] = runs[k] + 1
        BY <1>0, <2>1, <2>2, <3>2 DEF PoolTypes
      <4> QED BY <3>1, <4>2, <4>3
    <3>3. CASE k # held
      <4>1. Holders(k)' = Holders(k)
        BY <2>3, <3>1, <3>3 DEF Holders
      <4>2. runs'[k] = runs[k]
        BY <1>0, <2>1, <2>2, <3>3 DEF PoolTypes
      <4> QED BY <3>1, <4>1, <4>2
    <3> QED BY <3>2, <3>3
  <2> HIDE DEF held
  <2> QED BY <2>1, <2>4, <2>5 DEF EveryTaskOnce
<1>8. CASE UNCHANGED allVars
  BY <1>1, <1>8 DEF allVars, poolVars, queueVars
<1> QED BY <1>2, <1>3, <1>4, <1>5, <1>6, <1>7, <1>8 DEF PoolNext, Owner, Worker

(* The invariant of the pool holds throughout every run.                   *)
LEMMA PoolInvariant == PoolSpec => []PoolInv
<1>1. PoolInv /\ [PoolNext]_allVars => PoolInv'
  BY PoolTypesStep, JoinedStep, TaskStep DEF PoolInv
<1> QED BY <1>1, PoolInitInv, PTL DEF PoolSpec

(* Whatever number of workers pop at the same time, no task submitted to   *)
(* the pool is begun twice, and none is lost between queue and worker.     *)
THEOREM EveryTaskBegunOnce == PoolSpec => []TaskOnce
<1>1. PoolInv => TaskOnce
  <2> SUFFICES ASSUME PoolInv, NEW k \in 1..pushed
               PROVE  runs[k] + Cardinality({w \in Consumers : task[w] = k})
                        = (IF k <= last THEN 1 ELSE 0)
    BY DEF TaskOnce
  <2>1. k \in 1..MaxPush
    BY QueueAssumption DEF PoolInv, PoolTypes, QueueTypeOK
  <2> QED BY <2>1 DEF PoolInv, EveryTaskOnce, Holders
<1> QED BY <1>1, PoolInvariant, PTL

(* When the destructor of the pool has returned, no worker touches it: the *)
(* joins cover every thread that was started, also after a start that      *)
(* failed.                                                                 *)
THEOREM DestroyedPoolIsQuiet == PoolSpec => []DestroyedIsQuiet
<1>1. PoolInv => DestroyedIsQuiet
  BY DEF PoolInv, ThreadsJoined, DestroyedIsQuiet
<1> QED BY <1>1, PoolInvariant, PTL

-----------------------------------------------------------------------------
(* The nodes of the linked list, in order.                                 *)
NodeRecords == [element_ : Elements, next_ : Nodes \cup {NULL}]
Chain(q) ==
  /\ q \in Seq(Nodes) /\ Len(q) = size_
  /\ \A i, j \in 1..size_ : q[i] = q[j] => i = j
  /\ Allocated = {q[i] : i \in 1..size_}
  /\ \A i \in 1..size_ : heap[q[i]].next_ = IF i = size_ THEN NULL ELSE q[i + 1]
  /\ size_ > 0 => head_ = q[1] /\ last_ = q[size_]
  /\ size_ = 0 => head_ = NULL /\ last_ = NULL
ListTypes ==
  /\ size_ \in Nat /\ heap \in [Allocated -> NodeRecords]
  /\ Allocated \subseteq Nodes /\ Cardinality(Allocated) = size_

(* The walk along next_ visits the chain and ends with NULL.               *)
WalkRight ==
  \A q : Chain(q) =>
    /\ DOMAIN Reached = 0..size_
    /\ \A k \in 0..size_ : Reached[k] = IF k < size_ THEN q[k + 1] ELSE NULL
Stored(q) == [k \in 1..size_ |-> heap[q[k]].element_]
ContentsRight == \A q : Chain(q) => Contents = Stored(q)
ListInv == ListTypes /\ WalkRight /\ ContentsRight /\ NodesAreTheList /\ \E q : Chain(q)

(* A set of natural numbers that is not empty has a least element.         *)
LEMMA LeastIndex ==
  ASSUME NEW T, T \subseteq Nat, T # {}
  PROVE  \E x \in T : \A y \in T : x <= y
<1> DEFINE R == OpToRel(<, Nat)
<1>1. PICK x \in T : \A y \in T : ~(<<y, x>> \in R)
  <2>1. IsWellFoundedOn(R, Nat)
    BY Zenon, NatLessThanWellFounded
  <2> HIDE DEF R
  <2> QED BY Zenon, <2>1, WFMin
<1>2. ASSUME NEW y \in T PROVE x <= y
  <2>1. ~(y < x)
    BY Zenon, <1>1 DEF OpToRel
  <2> QED BY <2>1
<1> QED BY Zenon, <1>1, <1>2

(* The recursion in Reached has exactly one solution: the chain.           *)
LEMMA WalkIsRight == ListTypes => WalkRight
<1> SUFFICES ASSUME ListTypes, NEW q, Chain(q)
             PROVE  /\ DOMAIN Reached = 0..size_
                    /\ \A k \in 0..size_ : Reached[k] = IF k < size_ THEN q[k + 1] ELSE NULL
  BY DEF WalkRight
<1> DEFINE D == 0..Cardinality(Allocated)
           g == [k \in D |-> IF k < size_ THEN q[k + 1] ELSE NULL]
           Step(f, k) == IF k = 0 THEN head_ ELSE IF f[k - 1] = NULL THEN NULL
                         ELSE heap[f[k - 1]].next_
           Body(f) == [k \in D |-> Step(f, k)]
           W == CHOOSE f : f = Body(f)
<1>1. size_ \in Nat /\ Cardinality(Allocated) = size_
  BY DEF ListTypes
<1>2. Reached = [k \in D |-> W[k]]
  BY Zenon DEF Reached
<1>3. ASSUME NEW k \in D PROVE g[k] = Step(g, k)
  <2>1. CASE k = 0
    BY <1>1, <2>1 DEF Chain
  <2>2. CASE k # 0
    <3>1. k - 1 \in D /\ k \in 1..size_ /\ k - 1 < size_ /\ (k - 1) + 1 = k
      BY <1>1, <2>2
    <3>2. g[k - 1] = q[k]
      BY <3>1
    <3>3. q[k] \in Nodes /\ q[k] # NULL
      BY <3>1, ListAssumption DEF Chain
    <3>4. heap[q[k]].next_ = IF k = size_ THEN NULL ELSE q[k + 1]
      BY <3>1 DEF Chain
    <3>5. g[k] = IF k = size_ THEN NULL ELSE q[k + 1]
      BY <1>1, <3>1
    <3> QED BY <2>2, <3>2, <3>3, <3>4, <3>5
  <2> QED BY <2>1, <2>2
<1>4. g = Body(g)
  BY <1>3
<1> HIDE DEF g, Step
<1>5. W = Body(W)
  BY Zenon, <1>4
<1>6. ASSUME NEW k \in D PROVE W[k] = Step(W, k)
  BY Zenon, <1>5
<1> HIDE DEF W
<1>7. \A k \in D : W[k] = g[k]
  <2> SUFFICES ASSUME {k \in D : W[k] # g[k]} # {} PROVE FALSE
    OBVIOUS
  <2>1. PICK k \in D : W[k] # g[k] /\ \A j \in D : W[j] # g[j] => k <= j
    <3> DEFINE T == {k \in D : W[k] # g[k]}
    <3>1. T \subseteq Nat
      BY <1>1
    <3> HIDE DEF T
    <3>2. PICK x \in T : \A y \in T : x <= y
      BY Zenon, <3>1, LeastIndex DEF T
    <3> QED BY Zenon, <3>2 DEF T
  <2>2. CASE k = 0
    BY <1>3, <1>6, <2>1, <2>2 DEF Step
  <2>3. CASE k # 0
    <3>1. k - 1 \in D /\ ~(k <= k - 1)
      BY <1>1, <2>3
    <3>2. W[k - 1] = g[k - 1]
      BY <2>1, <3>1
    <3> QED BY <1>3, <1>6, <2>1, <3>2 DEF Step
  <2> QED BY <2>2, <2>3
<1>8. DOMAIN Reached = D /\ \A k \in D : Reached[k] = g[k]
  BY <1>2, <1>7
<1> QED BY <1>1, <1>8 DEF g

(* Contents, read along next_, are the elements of the chain.              *)
LEMMA ContentsAreRight == ListTypes => ContentsRight
<1> SUFFICES ASSUME ListTypes, NEW q, Chain(q) PROVE Contents = Stored(q)
  BY DEF ContentsRight
<1>1. size_ \in Nat
  BY DEF ListTypes
<1>2. \A k \in 0..size_ : Reached[k] = IF k < size_ THEN q[k + 1] ELSE NULL
  BY Zenon, WalkIsRight DEF WalkRight
<1>3. ASSUME NEW k \in 1..size_ PROVE Reached[k - 1] = q[k]
  <2>1. k - 1 \in 0..size_ /\ k - 1 < size_ /\ (k - 1) + 1 = k
    BY <1>1
  <2> QED BY <1>2, <2>1
<1> QED BY <1>3 DEF Contents, Stored

(* The walk accounts for every allocated node and ends at last_.           *)
LEMMA WalkIsWhole == ListTypes /\ (\E q : Chain(q)) => NodesAreTheList
<1> SUFFICES ASSUME ListTypes, NEW q, Chain(q) PROVE NodesAreTheList
  OBVIOUS
<1>1. size_ \in Nat /\ Cardinality(Allocated) = size_
  BY DEF ListTypes
<1>2. \A k \in 0..size_ : Reached[k] = IF k < size_ THEN q[k + 1] ELSE NULL
  BY Zenon, WalkIsRight DEF WalkRight
<1>3. ASSUME NEW k \in 0..(size_ - 1) PROVE Reached[k] = q[k + 1] /\ k + 1 \in 1..size_
  BY <1>1, <1>2
<1>4. ASSUME NEW i \in 1..size_ PROVE i - 1 \in 0..(size_ - 1) /\ Reached[i - 1] = q[i]
  <2>1. i - 1 \in 0..(size_ - 1) /\ (i - 1) + 1 = i
    BY <1>1
  <2> QED BY <1>3, <2>1
<1>5. {Reached[k] : k \in 0..(size_ - 1)} = Allocated
  <2>1. Allocated = {q[i] : i \in 1..size_}
    BY DEF Chain
  <2> QED BY <1>3, <1>4, <2>1
<1>6. size_ > 0 => Reached[size_ - 1] = last_ /\ heap[last_].next_ = NULL
  <2> SUFFICES ASSUME size_ > 0 PROVE Reached[size_ - 1] = last_ /\ heap[last_].next_ = NULL
    OBVIOUS
  <2>1. size_ \in 1..size_
    BY <1>1
  <2>2. last_ = q[size_] /\ heap[q[size_]].next_ = NULL
    BY <2>1 DEF Chain
  <2> QED BY <1>4, <2>1, <2>2
<1>7. size_ = 0 => head_ = NULL /\ last_ = NULL
  BY DEF Chain
<1> QED BY <1>1, <1>5, <1>6, <1>7 DEF NodesAreTheList

(* The queue begins with no node.                                          *)
LEMMA ListInitRight == ListInit => ListTypes /\ Chain(<< >>)
<1> SUFFICES ASSUME ListInit PROVE ListTypes /\ Chain(<< >>)
  OBVIOUS
<1>1. size_ = 0 /\ Allocated = {} /\ heap = << >> /\ head_ = NULL /\ last_ = NULL
  BY DEF ListInit, Allocated
<1>2. ListTypes
  <2>1. heap \in [Allocated -> NodeRecords]
    BY <1>1
  <2>2. Cardinality(Allocated) = size_
    BY <1>1, FS_EmptySet
  <2> QED BY <1>1, <2>1, <2>2 DEF ListTypes
<1>3. Chain(<< >>)
  BY <1>1 DEF Chain
<1> QED BY <1>2, <1>3

(* Enqueue adds a node at the end of the chain and changes no other.       *)
LEMMA EnqueueAppends ==
  ASSUME ListTypes, NEW q, Chain(q), NEW e \in Elements, Enqueue(e)
  PROVE  \E n \in Nodes :
           /\ ListTypes' /\ Chain(Append(q, n))' /\ Stored(Append(q, n))' = Append(Stored(q), e)
           /\ size_ < Cardinality(Nodes)
<1>1. size_ \in Nat /\ heap \in [Allocated -> NodeRecords] /\ Allocated \subseteq Nodes
      /\ Cardinality(Allocated) = size_
  BY DEF ListTypes
<1>2. PICK n \in Nodes \ Allocated :
        LET new == [m \in Allocated \cup {n} |-> IF m = n THEN Node(e) ELSE heap[m]] IN
        IF size_ = 0
        THEN head_' = n /\ last_' = n /\ size_' = 1 /\ heap' = new
        ELSE /\ heap' = [new EXCEPT ![last_].next_ = n]
             /\ last_' = n /\ size_' = size_ + 1 /\ UNCHANGED head_
  BY Zenon DEF Enqueue
<1> DEFINE r == Append(q, n)
           N == size_ + 1
<1>3. q \in Seq(Nodes) /\ Len(q) = size_ /\ \A i \in 1..size_ : q[i] \in Allocated /\ q[i] # n
  BY DEF Chain
<1>4. /\ r \in Seq(Nodes) /\ Len(r) = N /\ r[N] = n
      /\ \A i \in 1..size_ : r[i] = q[i]
  BY <1>1, <1>3
<1>5. size_' = N /\ last_' = n /\ head_' = r[1] /\ Allocated' = Allocated \cup {n}
  <2>1. CASE size_ = 0
    BY <1>2, <1>4, <2>1 DEF Allocated
  <2>2. CASE size_ # 0
    <3>1. head_ = q[1] /\ 1 \in 1..size_
      BY <1>1, <2>2 DEF Chain
    <3> QED BY <1>2, <1>4, <2>2, <3>1 DEF Allocated
  <2> QED BY <2>1, <2>2
<1>6. ASSUME NEW m \in Allocated
      PROVE  heap'[m] = IF m = last_ /\ size_ # 0 THEN [heap[m] EXCEPT !.next_ = n] ELSE heap[m]
  <2>1. m \in Allocated \cup {n} /\ m # n
    OBVIOUS
  <2>2. CASE size_ = 0
    BY <1>2, <2>1, <2>2
  <2>3. CASE size_ # 0
    BY <1>2, <2>1, <2>3
  <2> QED BY <2>2, <2>3
<1>7. heap'[n] = Node(e) /\ heap' = [m \in Allocated' |-> heap'[m]]
  <2>1. CASE size_ = 0
    BY <1>2, <1>5, <2>1
  <2>2. CASE size_ # 0
    <3>1. last_ # n
      <4>1. last_ = q[size_] /\ size_ \in 1..size_
        BY <1>1, <2>2 DEF Chain
      <4> QED BY <1>3, <4>1
    <3> QED BY Zenon, <1>2, <1>5, <2>2, <3>1
  <2> QED BY <2>1, <2>2
<1>8. ASSUME NEW m \in Allocated
      PROVE  /\ heap'[m] \in NodeRecords /\ heap'[m].element_ = heap[m].element_
             /\ heap'[m].next_ = IF m = last_ /\ size_ # 0 THEN n ELSE heap[m].next_
  <2>1. heap[m] \in NodeRecords
    BY <1>1
  <2> QED BY Zenon, <1>6, <2>1 DEF NodeRecords
<1>9. Node(e) \in NodeRecords /\ Node(e).element_ = e /\ Node(e).next_ = NULL
  BY DEF Node, NodeRecords
<1>10. size_ < Cardinality(Nodes)
  <2>1. IsFiniteSet(Nodes) /\ IsFiniteSet(Allocated)
    BY <1>1, ListAssumption, FS_Subset
  <2>2. IsFiniteSet(Nodes) /\ IsFiniteSet(Allocated \cup {n}) /\ Allocated \cup {n} \subseteq Nodes
    BY <1>1, <2>1, FS_AddElement
  <2>3. Cardinality(Allocated \cup {n}) = Cardinality(Allocated) + 1
    BY Zenon, <2>1, FS_AddElement
  <2>4. Cardinality(Allocated \cup {n}) <= Cardinality(Nodes) /\ Cardinality(Nodes) \in Nat
    BY <2>2, FS_Subset, FS_CardinalityType
  <2> QED BY <1>1, <2>3, <2>4
<1>11. ListTypes'
  <2>1. heap' \in [Allocated' -> NodeRecords]
    BY <1>5, <1>7, <1>8, <1>9
  <2>2. Cardinality(Allocated') = N
    <3>1. IsFiniteSet(Allocated)
      BY <1>1, ListAssumption, FS_Subset
    <3>2. Cardinality(Allocated \cup {n}) = Cardinality(Allocated) + 1
      BY Zenon, <3>1, FS_AddElement
    <3> QED BY <1>1, <1>5, <3>2
  <2> QED BY <1>1, <1>5, <2>1, <2>2 DEF ListTypes
<1>12. \A i, j \in 1..N : r[i] = r[j] => i = j
  <2> SUFFICES ASSUME NEW i \in 1..N, NEW j \in 1..N, r[i] = r[j] PROVE i = j
    BY Zenon
  <2>1. (i \in 1..size_ \/ i = N) /\ (j \in 1..size_ \/ j = N)
    BY <1>1
  <2>2. \A a, b \in 1..size_ : q[a] = q[b] => a = b
    BY DEF Chain
  <2> QED BY <1>3, <1>4, <2>1, <2>2
<1>13. Allocated' = {r[i] : i \in 1..N}
  <2>1. Allocated = {q[i] : i \in 1..size_}
    BY DEF Chain
  <2>2. \A i \in 1..N : i \in 1..size_ \/ i = N
    BY <1>1
  <2>3. N \in 1..N /\ \A i \in 1..size_ : i \in 1..N
    BY <1>1
  <2> HIDE DEF r, N
  <2> QED BY <1>4, <1>5, <2>1, <2>2, <2>3
<1>14. \A i \in 1..N : heap'[r[i]].next_ = IF i = N THEN NULL ELSE r[i + 1]
  <2> SUFFICES ASSUME NEW i \in 1..N
               PROVE  heap'[r[i]].next_ = IF i = N THEN NULL ELSE r[i + 1]
    BY Zenon
  <2>1. CASE i = N
    BY <1>4, <1>7, <1>9, <2>1
  <2>2. CASE i # N
    <3>1. i \in 1..size_ /\ size_ # 0
      BY <1>1, <2>2
    <3>2. last_ = q[size_] /\ size_ \in 1..size_ /\ heap[q[i]].next_ = IF i = size_ THEN NULL ELSE q[i + 1]
      BY <1>1, <3>1 DEF Chain
    <3>3. CASE i = size_
      <4>1. r[i] = last_ /\ r[i + 1] = n /\ last_ \in Allocated
        BY <1>3, <1>4, <3>1, <3>2, <3>3
      <4> QED BY <1>8, <2>2, <3>1, <4>1
    <3>4. CASE i # size_
      <4>1. i + 1 \in 1..size_
        BY <1>1, <3>1, <3>4
      <4>2. r[i] = q[i] /\ r[i + 1] = q[i + 1] /\ q[i] \in Allocated
        BY <1>3, <1>4, <3>1, <4>1
      <4>3. q[i] # last_
        BY <3>1, <3>2, <3>4 DEF Chain
      <4> QED BY <1>8, <2>2, <3>2, <3>4, <4>2, <4>3
    <3> QED BY Zenon, <3>3, <3>4
  <2> QED BY Zenon, <2>1, <2>2
<1>15. Chain(r)'
  <2>1. size_' > 0 => head_' = r[1] /\ last_' = r[size_']
    BY <1>4, <1>5
  <2>2. size_' # 0
    BY <1>1, <1>5
  <2> HIDE DEF r, N
  <2> QED BY Zenon, <1>4, <1>5, <1>12, <1>13, <1>14, <2>1, <2>2 DEF Chain
<1>16. Stored(r)' = Append(Stored(q), e)
  <2>1. Stored(q) \in Seq(Elements) /\ Len(Stored(q)) = size_
    <3>1. \A k \in 1..size_ : heap[q[k]] \in NodeRecords
      BY <1>1, <1>3
    <3>2. \A k \in 1..size_ : heap[q[k]].element_ \in Elements
      BY <3>1 DEF NodeRecords
    <3> QED BY <1>1, <3>2 DEF Stored
  <2>2. Append(Stored(q), e) = [k \in 1..N |-> IF k \in 1..size_ THEN Stored(q)[k] ELSE e]
    <3> DEFINE h == Stored(q)
               a == Append(h, e)
    <3>1. h \in Seq(Elements) /\ Len(h) = size_
      BY <2>1
    <3> HIDE DEF h
    <3>2. /\ a \in Seq(Elements) /\ Len(a) = N /\ a[N] = e
          /\ \A k \in 1..size_ : a[k] = h[k]
      BY <1>1, <3>1
    <3> HIDE DEF a
    <3>3. a = [k \in 1..N |-> a[k]]
      BY <3>2
    <3>4. ASSUME NEW k \in 1..N PROVE a[k] = IF k \in 1..size_ THEN h[k] ELSE e
      BY <1>1, <3>2
    <3>5. a = [k \in 1..N |-> IF k \in 1..size_ THEN h[k] ELSE e]
      BY <3>3, <3>4
    <3> QED BY <3>5 DEF a, h
  <2>3. ASSUME NEW k \in 1..N
        PROVE  heap'[r[k]].element_ = IF k \in 1..size_ THEN Stored(q)[k] ELSE e
    <3>1. CASE k \in 1..size_
      <4>1. r[k] = q[k] /\ q[k] \in Allocated /\ Stored(q)[k] = heap[q[k]].element_
        BY <1>3, <1>4, <3>1 DEF Stored
      <4> QED BY <1>8, <3>1, <4>1
    <3>2. CASE k \notin 1..size_
      <4>1. k = N
        BY <1>1, <3>2
      <4> QED BY <1>4, <1>7, <1>9, <3>2, <4>1
    <3> QED BY Zenon, <3>1, <3>2
  <2>4. Stored(r)' = [k \in 1..N |-> heap'[r[k]].element_]
    BY <1>5 DEF Stored
  <2> QED BY Zenon, <2>2, <2>3, <2>4
<1> QED BY <1>10, <1>11, <1>15, <1>16

(* Dequeue takes the first node off the chain and returns its element.     *)
LEMMA DequeueTakesFirst ==
  ASSUME ListTypes, NEW q, Chain(q), Dequeue, size_ # 0
  PROVE  /\ ListTypes' /\ Chain(Tail(q))' /\ Stored(Tail(q))' = Tail(Stored(q))
         /\ Stored(q) # << >> /\ out' = <<Head(Stored(q))>>
<1> DEFINE r == Tail(q)
           N == size_ - 1
<1>1. size_ \in Nat /\ heap \in [Allocated -> NodeRecords] /\ Allocated \subseteq Nodes
      /\ Cardinality(Allocated) = size_
  BY DEF ListTypes
<1>2. /\ head_' = heap[head_].next_ /\ size_' = N
      /\ last_' = (IF size_ = 1 THEN NULL ELSE last_)
      /\ out' = <<heap[head_].element_>> /\ heap' = Without(head_)
  BY DEF Dequeue
<1>3. /\ q \in Seq(Nodes) /\ Len(q) = size_ /\ head_ = q[1] /\ last_ = q[size_]
      /\ \A i \in 1..size_ : q[i] \in Allocated
      /\ \A i, j \in 1..size_ : q[i] = q[j] => i = j
      /\ \A i \in 1..size_ : heap[q[i]].next_ = IF i = size_ THEN NULL ELSE q[i + 1]
      /\ Allocated = {q[i] : i \in 1..size_}
  BY <1>1 DEF Chain
<1>4. /\ r \in Seq(Nodes) /\ Len(r) = N /\ N \in Nat
      /\ \A i \in 1..N : r[i] = q[i + 1] /\ i + 1 \in 1..size_ /\ i + 1 # 1
  <2>1. q # << >>
    BY <1>1, <1>3
  <2>2. r \in Seq(Nodes) /\ Len(r) = N /\ \A i \in 1..N : r[i] = q[i + 1]
    BY <1>1, <1>3, <2>1
  <2>3. N \in Nat /\ \A i \in 1..N : i + 1 \in 1..size_ /\ i + 1 # 1
    BY <1>1
  <2> QED BY <2>2, <2>3
<1> HIDE DEF r
<1>5. Allocated' = Allocated \ {head_} /\ head_ \in Allocated /\ 1 \in 1..size_
      /\ \A m \in Allocated' : heap'[m] = heap[m]
  <2>1. 1 \in 1..size_
    BY <1>1
  <2>2. head_ \in Allocated
    BY <1>3, <2>1
  <2>3. heap' = [m \in Allocated \ {head_} |-> heap[m]]
    BY Zenon, <1>2 DEF Without
  <2>4. Allocated' = Allocated \ {head_}
    BY <2>3 DEF Allocated
  <2> QED BY <2>1, <2>2, <2>3, <2>4
<1>6. ListTypes'
  <2>1. heap' \in [Allocated' -> NodeRecords]
    BY <1>1, <1>2, <1>5 DEF Without
  <2>2. IsFiniteSet(Allocated)
    BY <1>1, ListAssumption, FS_Subset
  <2>3. Cardinality(Allocated \ {head_}) = Cardinality(Allocated) - 1
    BY <1>5, <2>2, FS_RemoveElement
  <2> QED BY <1>1, <1>2, <1>4, <1>5, <2>1, <2>3 DEF ListTypes
<1>7. \A i \in 1..N : r[i] \in Allocated'
  BY <1>3, <1>4, <1>5
<1>8. \A i, j \in 1..N : r[i] = r[j] => i = j
  <2> SUFFICES ASSUME NEW i \in 1..N, NEW j \in 1..N, r[i] = r[j] PROVE i = j
    OBVIOUS
  <2>1. i + 1 \in 1..size_ /\ j + 1 \in 1..size_ /\ q[i + 1] = q[j + 1]
    BY <1>4
  <2>2. i + 1 = j + 1
    BY Zenon, <1>3, <2>1
  <2> QED BY <1>4, <2>2
<1>9. Allocated' = {r[i] : i \in 1..N}
  <2>1. ASSUME NEW m \in Allocated' PROVE \E i \in 1..N : m = r[i]
    <3>1. PICK i \in 1..size_ : m = q[i]
      BY <1>3, <1>5
    <3>2. i # 1
      BY <1>3, <1>5, <3>1
    <3>3. i - 1 \in 1..N /\ (i - 1) + 1 = i
      BY <1>1, <3>2
    <3> QED BY <1>4, <3>1, <3>3
  <2> QED BY <1>7, <2>1
<1>10. \A i \in 1..N : heap'[r[i]].next_ = IF i = N THEN NULL ELSE r[i + 1]
  <2> SUFFICES ASSUME NEW i \in 1..N
               PROVE  heap'[r[i]].next_ = IF i = N THEN NULL ELSE r[i + 1]
    OBVIOUS
  <2>1. heap'[r[i]] = heap[q[i + 1]]
    BY <1>4, <1>5, <1>7
  <2>2. heap[q[i + 1]].next_ = IF i + 1 = size_ THEN NULL ELSE q[(i + 1) + 1]
    BY <1>3, <1>4
  <2>3. (i + 1 = size_) = (i = N)
    BY <1>1
  <2>4. i # N => r[i + 1] = q[(i + 1) + 1]
    BY <1>1, <1>4
  <2> QED BY <2>1, <2>2, <2>3, <2>4
<1>11. N > 0 => head_' = r[1] /\ last_' = r[N]
  <2> SUFFICES ASSUME N > 0 PROVE head_' = r[1] /\ last_' = r[N]
    OBVIOUS
  <2>1. 1 \in 1..N /\ N \in 1..N /\ size_ # 1 /\ 1 # size_ /\ N + 1 = size_ /\ 1 + 1 = 2
    BY <1>1
  <2>2. r[1] = q[1 + 1] /\ r[N] = q[size_]
    <3>1. r[1] = q[1 + 1] /\ r[N] = q[N + 1]
      BY <1>4, <2>1
    <3> QED BY <2>1, <3>1
  <2>3. heap[q[1]].next_ = q[1 + 1]
    BY <1>3, <1>5, <2>1
  <2> QED BY <1>2, <1>3, <2>1, <2>2, <2>3
<1>12. N = 0 => head_' = NULL /\ last_' = NULL
  <2> SUFFICES ASSUME N = 0 PROVE head_' = NULL /\ last_' = NULL
    OBVIOUS
  <2>1. size_ = 1
    BY <1>1
  <2> QED BY <1>2, <1>3, <1>5, <2>1
<1>13. Chain(r)'
  BY Zenon, <1>2, <1>4, <1>8, <1>9, <1>10, <1>11, <1>12 DEF Chain
<1>14. Stored(r)' = Tail(Stored(q)) /\ Stored(q) # << >> /\ out' = <<Head(Stored(q))>>
  <2> DEFINE h == Stored(q)
             t == Tail(h)
  <2>1. h \in Seq(Elements) /\ Len(h) = size_ /\ \A k \in 1..size_ : h[k] = heap[q[k]].element_
    <3>1. \A k \in 1..size_ : heap[q[k]] \in NodeRecords
      BY <1>1, <1>3
    <3>2. \A k \in 1..size_ : heap[q[k]].element_ \in Elements
      BY <3>1 DEF NodeRecords
    <3> QED BY <1>1, <3>2 DEF Stored
  <2> HIDE DEF h
  <2>2. h # << >> /\ Head(h) = h[1]
    BY <1>1, <2>1
  <2>3. t \in Seq(Elements) /\ Len(t) = N /\ \A k \in 1..N : t[k] = h[k + 1]
    BY <1>1, <2>1, <2>2
  <2> HIDE DEF t
  <2>4. t = [k \in 1..N |-> t[k]]
    BY <2>3
  <2>5. ASSUME NEW k \in 1..N PROVE t[k] = heap'[r[k]].element_
    <3>1. heap'[r[k]] = heap[q[k + 1]]
      BY <1>4, <1>5, <1>7
    <3>2. h[k + 1] = heap[q[k + 1]].element_
      BY <1>4, <2>1
    <3> QED BY <2>3, <3>1, <3>2
  <2>6. Stored(r)' = [k \in 1..N |-> heap'[r[k]].element_]
    BY <1>2 DEF Stored
  <2>7. Stored(r)' = t
    BY <2>4, <2>5, <2>6
  <2>8. out' = <<Head(h)>>
    BY <1>2, <1>3, <1>5, <2>1, <2>2
  <2> QED BY <2>2, <2>7, <2>8 DEF h, t
<1> QED BY <1>6, <1>13, <1>14 DEF r

(* Clear meets every node, so none stays allocated.                        *)
LEMMA ClearEmpties ==
  ASSUME ListTypes, WalkRight, NEW q, Chain(q), Clear, size_ # 0
  PROVE  ListTypes' /\ Chain(<< >>)' /\ Stored(<< >>)' = << >>
<1>1. size_ \in Nat /\ size_ > 0
  BY DEF ListTypes
<1>2. heap' = [m \in {n \in Allocated : \A k \in DOMAIN Reached : Reached[k] # n} |-> heap[m]]
      /\ head_' = NULL /\ last_' = NULL /\ size_' = 0
  BY <1>1 DEF Clear
<1>3. ASSUME NEW n \in Allocated PROVE \E k \in DOMAIN Reached : Reached[k] = n
  <2>1. PICK i \in 1..size_ : n = q[i]
    BY DEF Chain
  <2>2. i - 1 \in 0..size_ /\ i - 1 < size_ /\ (i - 1) + 1 = i
    BY <1>1
  <2>3. DOMAIN Reached = 0..size_
        /\ \A k \in 0..size_ : Reached[k] = IF k < size_ THEN q[k + 1] ELSE NULL
    BY Zenon DEF WalkRight
  <2> QED BY <2>1, <2>2, <2>3
<1>4. Allocated' = {}
  BY <1>2, <1>3 DEF Allocated
<1>5. ListTypes'
  <2>1. heap' \in [Allocated' -> NodeRecords]
    BY <1>2, <1>4 DEF Allocated
  <2>2. Cardinality(Allocated') = 0
    BY <1>4, FS_EmptySet
  <2> QED BY <1>2, <1>4, <2>1, <2>2 DEF ListTypes
<1>6. Chain(<< >>)'
  BY <1>2, <1>4 DEF Chain
<1>7. Stored(<< >>)' = << >>
  BY <1>2 DEF Stored
<1> QED BY <1>5, <1>6, <1>7

(* Every call leaves a list with a chain.                                  *)
LEMMA ListStep ==
  ASSUME ListTypes, NEW q, Chain(q), [ListNext]_listVars
  PROVE  ListTypes' /\ \E r : Chain(r)'
<1>1. ASSUME UNCHANGED <<heap, head_, last_, size_>> PROVE ListTypes' /\ \E r : Chain(r)'
  <2>1. ListTypes'
    BY <1>1 DEF ListTypes, Allocated
  <2>2. Chain(q)'
    BY <1>1 DEF Chain, Allocated
  <2> QED BY <2>1, <2>2
<1>2. ASSUME NEW e \in Elements, Enqueue(e) PROVE ListTypes' /\ \E r : Chain(r)'
  BY Zenon, <1>2, EnqueueAppends
<1>3. CASE Dequeue
  <2>1. CASE size_ = 0
    BY <1>1, <1>3, <2>1 DEF Dequeue
  <2>2. CASE size_ # 0
    BY Zenon, <1>3, <2>2, DequeueTakesFirst
  <2> QED BY <2>1, <2>2
<1>4. CASE Clear
  <2>1. CASE size_ = 0
    BY <1>1, <1>4, <2>1 DEF Clear
  <2>2. CASE size_ # 0
    BY Zenon, <1>4, <2>2, ClearEmpties, WalkIsRight
  <2> QED BY <2>1, <2>2
<1>5. CASE UNCHANGED listVars
  BY <1>1, <1>5 DEF listVars
<1> QED BY <1>2, <1>3, <1>4, <1>5 DEF ListNext

(* The invariant of the list.                                              *)
LEMMA ListInvariant == ListSpec => []ListInv
<1> DEFINE Core == ListTypes /\ \E q : Chain(q)
<1>1. ListInit => Core
  BY Zenon, ListInitRight
<1>2. Core /\ [ListNext]_listVars => Core'
  BY Zenon, ListStep
<1>3. Core => ListInv
  BY Zenon, WalkIsRight, ContentsAreRight, WalkIsWhole DEF ListInv
<1> HIDE DEF Core
<1> QED BY <1>1, <1>2, <1>3, PTL DEF ListSpec

(* Each call is the queue's operation on the contents.                     *)
LEMMA ListStepIsFifoStep ==
  ASSUME ListInv, ListInv', [ListNext]_listVars
  PROVE  [Abstract!FifoNext]_Abstract!fifoVars
<1>1. PICK q : Chain(q)
  BY Zenon DEF ListInv
<1>2. ListTypes /\ WalkRight /\ ContentsRight /\ Contents = Stored(q) /\ size_ \in Nat
  BY Zenon, <1>1 DEF ListInv, ContentsRight, ListTypes
<1>3. ASSUME NEW r, Chain(r)' PROVE Contents' = Stored(r)'
  BY Zenon, <1>3 DEF ListInv, ContentsRight
<1>4. ASSUME UNCHANGED <<heap, head_, last_, size_>> PROVE Contents' = Contents
  <2>1. Chain(q)' /\ Stored(q)' = Stored(q)
    BY <1>1, <1>4 DEF Chain, Allocated, Stored
  <2> QED BY <1>2, <1>3, <2>1
<1>5. Len(Contents) = size_ /\ (size_ = 0 => Contents = << >>)
  BY <1>2 DEF Contents
<1>6. ASSUME NEW e \in Elements, Enqueue(e) PROVE Abstract!FifoNext
  <2>1. PICK n \in Nodes : /\ Chain(Append(q, n))' /\ Stored(Append(q, n))' = Append(Stored(q), e)
                           /\ size_ < Cardinality(Nodes)
    BY Zenon, <1>1, <1>2, <1>6, EnqueueAppends
  <2>2. Contents' = Append(Contents, e)
    BY Zenon, <1>2, <1>3, <2>1
  <2>3. out' = out
    BY <1>6 DEF Enqueue
  <2> QED BY <1>5, <2>1, <2>2, <2>3 DEF Abstract!FifoNext, Abstract!Put
<1>7. CASE Dequeue
  <2>1. CASE size_ = 0
    BY <1>4, <1>5, <1>7, <2>1 DEF Dequeue, Abstract!FifoNext, Abstract!Take
  <2>2. CASE size_ # 0
    <3>1. /\ Chain(Tail(q))' /\ Stored(Tail(q))' = Tail(Stored(q))
          /\ Stored(q) # << >> /\ out' = <<Head(Stored(q))>>
      BY Zenon, <1>1, <1>2, <1>7, <2>2, DequeueTakesFirst
    <3>2. Contents' = Tail(Contents) /\ Contents # << >> /\ out' = <<Head(Contents)>>
      BY Zenon, <1>2, <1>3, <3>1
    <3> QED BY Zenon, <3>2 DEF Abstract!FifoNext, Abstract!Take
  <2> QED BY <2>1, <2>2
<1>8. CASE Clear
  <2>1. out' = out
    BY <1>8 DEF Clear
  <2>2. CASE size_ = 0
    BY <1>2, <1>4, <1>5, <1>8, <2>1, <2>2 DEF Clear, Abstract!FifoNext, Abstract!Empty
  <2>3. CASE size_ # 0
    <3>1. Chain(<< >>)' /\ Stored(<< >>)' = << >>
      BY Zenon, <1>1, <1>2, <1>8, <2>3, ClearEmpties
    <3> QED BY Zenon, <1>3, <2>1, <3>1 DEF Abstract!FifoNext, Abstract!Empty
  <2> QED BY <2>2, <2>3
<1>9. CASE UNCHANGED listVars
  BY <1>4, <1>9 DEF listVars, Abstract!fifoVars
<1> QED BY <1>6, <1>7, <1>8, <1>9 DEF ListNext

(* ImplementsFifo, for any elements and any finite heap: the linked list   *)
(* of sample3-inl.h is a first-in first-out queue, none of whose nodes is  *)
(* leaked or used after its deletion.                                      *)
THEOREM ListImplementsFifo == ListSpec => ImplementsFifo
<1>1. ListInit => Abstract!FifoInit
  <2> SUFFICES ASSUME ListInit PROVE Abstract!FifoInit
    OBVIOUS
  <2>1. Contents = << >>
    BY DEF ListInit, Contents
  <2> QED BY <2>1 DEF ListInit, Abstract!FifoInit
<1>2. ListInv /\ ListInv' /\ [ListNext]_listVars => [Abstract!FifoNext]_Abstract!fifoVars
  BY Zenon, ListStepIsFifoStep
<1>3. ListInv => NodesAreTheList
  BY Zenon DEF ListInv
<1> QED BY <1>1, <1>2, <1>3, ListInvariant, PTL DEF ListSpec, ImplementsFifo, Abstract!FifoSpec

-----------------------------------------------------------------------------
(***************************************************************************)
(* Threads that unlock in the reverse order of their locks, as lock_guard  *)
(* does, never wait for each other in a circle.  The invariant speaks of   *)
(* the mutexes of one thread: they were locked one above the other, their  *)
(* levels descend, and each remembers a level not above those below it, so *)
(* that an unlock restores a level that fits what is still held.           *)
(***************************************************************************)
(* The mutexes of one thread were locked one after the other, with falling *)
(* levels, and each remembers a level that fits those locked before it.    *)
Nested ==
  \A m \in Mutexes : internal_mutex[m] # None =>
    /\ \A n \in below[m] :
         /\ internal_mutex[n] = internal_mutex[m]
         /\ hierarchy_value[m] < hierarchy_value[n]
         /\ previous_hierarchy_value[m] <= hierarchy_value[n]
    /\ \A n \in Mutexes :
         internal_mutex[n] = internal_mutex[m] => n = m \/ n \in below[m] \/ m \in below[n]

(* What lock() checked still holds while the thread waits for the mutex.   *)
Checked ==
  \A t \in Threads :
    wants[t] # None => hierarchy_value[wants[t]] < this_thread_hierarchy_value[t]

MutexInv == MutexTypeOK /\ Nested /\ Checked /\ ThreadValueIsCurrent

(* The levels are natural numbers.                                         *)
LEMMA LevelType == \A m \in Mutexes : hierarchy_value[m] \in Nat
BY LevelAssumption

(* What a step that locks does, by lock() or by try_lock().                *)
LEMMA LockKeepsInv ==
  ASSUME MutexInv, NEW t \in Threads, NEW m \in Mutexes, internal_mutex[m] = None,
         hierarchy_value[m] < this_thread_hierarchy_value[t], Locked(t, m),
         wants' = [wants EXCEPT ![t] = None]
  PROVE  MutexInv'
<1>0. /\ internal_mutex' = [internal_mutex EXCEPT ![m] = t]
      /\ below' = [below EXCEPT ![m] = Held(t)]
      /\ previous_hierarchy_value' =
           [previous_hierarchy_value EXCEPT ![m] = this_thread_hierarchy_value[t]]
      /\ this_thread_hierarchy_value' =
           [this_thread_hierarchy_value EXCEPT ![t] = hierarchy_value[m]]
  BY DEF Locked, update_hierarchy_value
<1>1. MutexTypeOK'
  BY <1>0, LevelType DEF MutexInv, MutexTypeOK, Held
<1>2. ThreadValueIsCurrent'
  BY <1>0, LevelType DEF MutexInv, MutexTypeOK, ThreadValueIsCurrent
<1>3. Checked'
  BY <1>0 DEF MutexInv, MutexTypeOK, Checked
<1>4. Nested'
  <2> SUFFICES ASSUME NEW k \in Mutexes, internal_mutex'[k] # None
               PROVE  /\ \A n \in below'[k] :
                           /\ internal_mutex'[n] = internal_mutex'[k]
                           /\ hierarchy_value[k] < hierarchy_value[n]
                           /\ previous_hierarchy_value'[k] <= hierarchy_value[n]
                      /\ \A n \in Mutexes :
                           internal_mutex'[n] = internal_mutex'[k] =>
                             n = k \/ n \in below'[k] \/ k \in below'[n]
    BY Zenon DEF Nested
  <2>1. CASE k = m
    <3>1. below'[k] = Held(t) /\ internal_mutex'[k] = t
          /\ previous_hierarchy_value'[k] = this_thread_hierarchy_value[t]
      BY <1>0, <2>1 DEF MutexInv, MutexTypeOK
    <3>2. ASSUME NEW n \in Held(t)
          PROVE  /\ internal_mutex'[n] = t
                 /\ hierarchy_value[k] < hierarchy_value[n]
                 /\ this_thread_hierarchy_value[t] <= hierarchy_value[n]
      BY <1>0, <2>1, LevelType, NoneAssumption
      DEF MutexInv, MutexTypeOK, ThreadValueIsCurrent, Held
    <3>3. ASSUME NEW n \in Mutexes, internal_mutex'[n] = t, n # m
          PROVE  n \in Held(t)
      BY <1>0, <3>3 DEF Held, MutexInv, MutexTypeOK
    <3> QED BY <2>1, <3>1, <3>2, <3>3
  <2>2. CASE k # m
    <3>1. /\ internal_mutex'[k] = internal_mutex[k] /\ below'[k] = below[k]
          /\ previous_hierarchy_value'[k] = previous_hierarchy_value[k]
      BY <1>0, <2>2 DEF MutexInv, MutexTypeOK
    <3>2. ASSUME NEW n \in below[k]
          PROVE  /\ internal_mutex'[n] = internal_mutex[k]
                 /\ hierarchy_value[k] < hierarchy_value[n]
                 /\ previous_hierarchy_value[k] <= hierarchy_value[n]
      <4>1. internal_mutex[n] = internal_mutex[k] /\ n # m /\ n \in Mutexes
        <5>1. internal_mutex[k] # None
          BY Zenon, <3>1
        <5>2. internal_mutex[n] = internal_mutex[k]
          BY Zenon, <5>1 DEF MutexInv, Nested
        <5>3. n # m
          BY Zenon, <5>1, <5>2
        <5>4. n \in Mutexes
          BY DEF MutexInv, MutexTypeOK
        <5> QED BY Zenon, <5>2, <5>3, <5>4
      <4> QED BY <1>0, <3>1, <4>1 DEF MutexInv, MutexTypeOK, Nested
    <3>3. ASSUME NEW n \in Mutexes, internal_mutex'[n] = internal_mutex[k]
          PROVE  n = k \/ n \in below[k] \/ k \in below'[n]
      <4>1. CASE n = m
        <5>1. k \in Held(t) /\ below'[n] = Held(t)
          BY <1>0, <3>3, <4>1 DEF Held, MutexInv, MutexTypeOK
        <5> QED BY <5>1
      <4>2. CASE n # m
        <5>1. internal_mutex[n] = internal_mutex[k] /\ below'[n] = below[n]
          BY <1>0, <3>3, <4>2 DEF MutexInv, MutexTypeOK
        <5> QED BY Zenon, <5>1, <3>1 DEF MutexInv, Nested
      <4> QED BY Zenon, <4>1, <4>2
    <3> QED BY Zenon, <3>1, <3>2, <3>3
  <2> QED BY Zenon, <2>1, <2>2
<1> QED BY <1>1, <1>2, <1>3, <1>4 DEF MutexInv

(* An unlock in reverse order restores a level that is not above any of    *)
(* the mutexes the thread still holds: they are all below the unlocked one.*)
LEMMA UnlockKeepsInv ==
  ASSUME MutexInv, NEW t \in Threads, NEW m \in Mutexes, UnlockLast(t, m)
  PROVE  MutexInv'
<1>0. /\ wants[t] = None /\ internal_mutex[m] = t
      /\ internal_mutex' = [internal_mutex EXCEPT ![m] = None]
      /\ this_thread_hierarchy_value' =
           [this_thread_hierarchy_value EXCEPT ![t] = previous_hierarchy_value[m]]
      /\ UNCHANGED <<previous_hierarchy_value, wants, below>>
      /\ \A n \in Held(t) : m \notin below[n]
  BY DEF UnlockLast, unlock
<1>1. MutexTypeOK'
  BY <1>0 DEF MutexInv, MutexTypeOK
<1>2. Checked'
  BY <1>0 DEF MutexInv, MutexTypeOK, Checked
<1>3. ASSUME NEW n \in Mutexes, internal_mutex[n] = t, n # m
      PROVE  n \in below[m] /\ previous_hierarchy_value[m] <= hierarchy_value[n]
  <2>1. n \in below[m]
    BY <1>0, <1>3, NoneAssumption DEF MutexInv, Nested, Held
  <2> QED BY <1>0, <2>1, NoneAssumption DEF MutexInv, Nested
<1>4. ThreadValueIsCurrent'
  BY <1>0, <1>3, NoneAssumption DEF MutexInv, MutexTypeOK, ThreadValueIsCurrent
<1>5. Nested'
  <2> SUFFICES ASSUME NEW k \in Mutexes, internal_mutex'[k] # None
               PROVE  /\ \A n \in below[k] :
                           /\ internal_mutex'[n] = internal_mutex'[k]
                           /\ hierarchy_value[k] < hierarchy_value[n]
                           /\ previous_hierarchy_value[k] <= hierarchy_value[n]
                      /\ \A n \in Mutexes :
                           internal_mutex'[n] = internal_mutex'[k] =>
                             n = k \/ n \in below[k] \/ k \in below[n]
    BY <1>0 DEF Nested
  <2>1. k # m /\ internal_mutex'[k] = internal_mutex[k] /\ internal_mutex[k] # None
    BY <1>0 DEF MutexInv, MutexTypeOK
  <2>2. ASSUME NEW n \in below[k]
        PROVE  internal_mutex'[n] = internal_mutex[k]
    <3>1. internal_mutex[n] = internal_mutex[k] /\ n \in Mutexes
      BY <2>1 DEF MutexInv, MutexTypeOK, Nested
    <3>2. n # m
      BY <1>0, <3>1 DEF Held
    <3> QED BY <1>0, <3>1, <3>2 DEF MutexInv, MutexTypeOK
  <2>3. ASSUME NEW n \in Mutexes, internal_mutex'[n] = internal_mutex[k]
        PROVE  n = k \/ n \in below[k] \/ k \in below[n]
    <3>1. internal_mutex[n] = internal_mutex[k]
      BY <1>0, <2>1, <2>3 DEF MutexInv, MutexTypeOK
    <3> QED BY <2>1, <3>1 DEF MutexInv, Nested
  <2> QED BY Zenon, <2>1, <2>2, <2>3 DEF MutexInv, Nested
<1> QED BY <1>1, <1>2, <1>4, <1>5 DEF MutexInv

(* Every step keeps the invariant.                                         *)
LEMMA MutexStep == MutexInv /\ [MutexNext]_mutexVars => MutexInv'
<1> SUFFICES ASSUME MutexInv, [MutexNext]_mutexVars PROVE MutexInv'
  OBVIOUS
<1>1. ASSUME NEW t \in Threads, NEW m \in Mutexes, Check(t, m) PROVE MutexInv'
  <2>1. /\ hierarchy_value[m] < this_thread_hierarchy_value[t]
        /\ wants' = [wants EXCEPT ![t] = m]
        /\ UNCHANGED <<internal_mutex, previous_hierarchy_value,
                       this_thread_hierarchy_value, below>>
    BY <1>1, LevelType DEF Check, check_for_hierarchy_violation, MutexInv, MutexTypeOK
  <2>2. MutexTypeOK' /\ Checked'
    BY <2>1 DEF MutexInv, MutexTypeOK, Checked
  <2>3. Nested' /\ ThreadValueIsCurrent'
    BY <2>1 DEF MutexInv, Nested, ThreadValueIsCurrent
  <2> QED BY <2>2, <2>3 DEF MutexInv
<1>2. ASSUME NEW t \in Threads, NEW m \in Mutexes, Lock(t, m) PROVE MutexInv'
  <2>1. hierarchy_value[m] < this_thread_hierarchy_value[t]
    BY <1>2, NoneAssumption DEF Lock, MutexInv, Checked
  <2> QED BY Zenon, <1>2, <2>1, LockKeepsInv DEF Lock
<1>3. ASSUME NEW t \in Threads, NEW m \in Mutexes, try_lock(t, m) PROVE MutexInv'
  <2>1. hierarchy_value[m] < this_thread_hierarchy_value[t]
    BY <1>3, LevelType
    DEF try_lock, check_for_hierarchy_violation, MutexInv, MutexTypeOK
  <2>2. wants' = [wants EXCEPT ![t] = None]
    BY <1>3 DEF try_lock, MutexInv, MutexTypeOK
  <2> QED BY Zenon, <1>3, <2>1, <2>2, LockKeepsInv DEF try_lock
<1>4. ASSUME NEW t \in Threads, NEW m \in Mutexes, UnlockLast(t, m) PROVE MutexInv'
  BY <1>4, UnlockKeepsInv
<1>5. CASE UNCHANGED mutexVars
  BY <1>5 DEF mutexVars, MutexInv, MutexTypeOK, Nested, Checked, ThreadValueIsCurrent
<1> QED BY <1>1, <1>2, <1>3, <1>4, <1>5 DEF MutexNext, Acquire

(* The invariant holds throughout every run.                               *)
LEMMA MutexInvariance == MutexSpec => []MutexInv
<1>1. MutexInit => MutexInv
  BY LevelAssumption, NoneAssumption
  DEF MutexInit, MutexInv, MutexTypeOK, Nested, Checked, ThreadValueIsCurrent
<1> QED BY <1>1, MutexStep, PTL DEF MutexSpec

(* With guards, this_thread_hierarchy_value is at every moment at or below *)
(* the level of every mutex its thread holds.                              *)
THEOREM LevelIsCurrent == MutexSpec => []ThreadValueIsCurrent
<1>1. MutexInv => ThreadValueIsCurrent
  BY DEF MutexInv
<1> QED BY <1>1, MutexInvariance, PTL

(* A set of levels that is not empty has a lowest one.                     *)
LEMMA LowestLevel ==
  ASSUME NEW T \in SUBSET Nat, T # {}
  PROVE  \E x \in T : \A y \in T : x <= y
<1> DEFINE R == OpToRel(<, Nat)
<1>1. PICK x \in T : \A y \in T : ~(<<y, x>> \in R)
  <2>1. IsWellFoundedOn(R, Nat)
    BY Zenon, NatLessThanWellFounded
  <2> HIDE DEF R
  <2> QED BY Zenon, <2>1, WFMin
<1>2. ASSUME NEW y \in T PROVE x <= y
  <2>1. ~(y < x)
    BY Zenon, <1>1 DEF OpToRel
  <2> QED BY <2>1
<1> QED BY Zenon, <1>1, <1>2

(* The invariant excludes a circle: its member that waits for the lowest   *)
(* level would wait for an owner that itself waits for a lower one.        *)
LEMMA InvExcludesCircle == MutexInv => NoCircularWait
<1> SUFFICES ASSUME MutexInv, NEW S \in (SUBSET Threads) \ {{}},
                    \A t \in S : wants[t] # None /\ internal_mutex[wants[t]] \in S
             PROVE  FALSE
  BY DEF NoCircularWait
<1> DEFINE T == {hierarchy_value[wants[t]] : t \in S}
<1>1. \A t \in S : wants[t] \in Mutexes
  BY DEF MutexInv, MutexTypeOK
<1>2. T \in SUBSET Nat /\ T # {}
  BY <1>1, LevelType
<1>3. PICK t \in S : \A u \in S : hierarchy_value[wants[t]] <= hierarchy_value[wants[u]]
  <2>1. PICK x \in T : \A y \in T : x <= y
    <3> HIDE DEF T
    <3> QED BY <1>2, LowestLevel
  <2> QED BY <2>1
<1> DEFINE u == internal_mutex[wants[t]]
<1>4. u \in S /\ u \in Threads /\ wants[t] \in Mutexes /\ wants[u] \in Mutexes
  BY <1>1
<1>5. this_thread_hierarchy_value[u] <= hierarchy_value[wants[t]]
  BY <1>4 DEF MutexInv, ThreadValueIsCurrent
<1>6. hierarchy_value[wants[u]] < this_thread_hierarchy_value[u]
  BY <1>4 DEF MutexInv, Checked
<1>7. this_thread_hierarchy_value[u] \in Nat
  BY <1>4 DEF MutexInv, MutexTypeOK
<1> QED BY <1>3, <1>4, <1>5, <1>6, <1>7, LevelType

(* For any threads, mutexes and levels: threads that use the hierarchical  *)
(* mutex through guards never deadlock on it.                              *)
THEOREM NoDeadlock == MutexSpec => []NoCircularWait
BY MutexInvariance, InvExcludesCircle, PTL
=============================================================================
