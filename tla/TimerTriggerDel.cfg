SPECIFICATION ThreadsSpec
CONSTANTS
  t1 = t1
  t2 = t2
  t3 = t3
  t4 = t4
  u1 = u1
  o1 = o1
  o2 = o2
  Threads <- FourThreads
  kNumTasks = 2
  Users <- OneUser
  MaxStarts = 3
  MaxArms = 2
  Objs <- TwoObjs
  Ttl <- TwoTtls
  IdleDelay = 2
INVARIANT
  DeletedIsNotCalled
CHECK_DEADLOCK FALSE
