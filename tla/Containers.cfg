SPECIFICATION ContainersSpec
CONSTANTS
  w1 = w1
  w2 = w2
  t1 = t1
  t2 = t2
  t3 = t3
  a = a
  b = b
  c = c
  d = d
  x = x
  y = y
  n1 = n1
  n2 = n2
  n3 = n3
  n4 = n4
  Consumers <- TwoConsumers
  LaunchOrder <- BothWorkers
  MaxPush = 4
  None = None
  Threads <- ThreeThreads
  Mutexes <- FourMutexes
  hierarchy_value <- Levels
  ULONG_MAX = 9
  Elements <- TwoElements
  Nodes <- FourNodes
  NULL = NULL
INVARIANTS
  TaskOnce
  DestroyedIsQuiet
  NoCircularWait
PROPERTIES
  SubmittedRuns
  DestructorReturns
  ImplementsFifo
CHECK_DEADLOCK FALSE
