---------------------------- MODULE MCContainers ----------------------------
(* The thread pool with two workers on its queue; the hierarchical mutex   *)
(* with three levels, one of them shared by two mutexes; and the linked    *)
(* queue.  They share no state; unit says which one runs.                  *)
EXTENDS ThreadPool, HierarchicalMutex, LinkedQueue, TLC

CONSTANTS w1, w2, t1, t2, t3, a, b, c, d, x, y, n1, n2, n3, n4

TwoConsumers == {w1, w2}
BothWorkers == <<w1, w2>>
ThreeThreads == {t1, t2, t3}
FourMutexes == {a, b, c, d}
Levels == a :> 3 @@ b :> 2 @@ c :> 2 @@ d :> 1
TwoElements == {x, y}
FourNodes == {n1, n2, n3, n4}

VARIABLE unit

containersVars == <<allVars, mutexVars, listVars, unit>>

ContainersInit ==
  /\ PoolInit /\ MutexInit /\ ListInit
  /\ unit \in {"pool", "mutex", "list"}
ContainersNext ==
  /\ UNCHANGED unit
  /\ \/ unit = "pool" /\ PoolNext /\ UNCHANGED <<mutexVars, listVars>>
     \/ unit = "mutex" /\ MutexNext /\ UNCHANGED <<allVars, listVars>>
     \/ unit = "list" /\ ListNext /\ UNCHANGED <<allVars, mutexVars>>
ContainersSpec ==
  /\ ContainersInit /\ [][ContainersNext]_containersVars
  /\ unit # "pool" \/ PoolFairness
=============================================================================
