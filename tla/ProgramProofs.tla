--------------------------- MODULE ProgramProofs ----------------------------
(***************************************************************************)
(* The programs of threads, callbacks and connections beside ae.c, sds.c   *)
(* and zmalloc.c.                                                          *)
(*                                                                         *)
(* The reusable Barrier of barrier_cpp11 is safe, for any number of        *)
(* threads and of tasks, as long as no wait times out. count_ alone does   *)
(* not say which threads it counts; the invariant says that there is a set *)
(* of that many threads, those of the round in progress, and what sets it  *)
(* apart from the threads that were released and have yet to wake up.      *)
(*                                                                         *)
(* The delays of acl's timer thread are right for any objects, ttls and    *)
(* idle delay; the recurring Timer of timer/main2.cpp calls nothing once   *)
(* it is stopped, however often it is set; and the Timer of timer/timer.h  *)
(* has a worker exactly while it is started, if one thread owns it. The    *)
(* example thread of libnice misses no signal of the agent's callbacks,    *)
(* the descriptors of anet.c are all accounted for, the echo server closes *)
(* every Send channel once, and the epoll server overlooks no arrival.     *)
(***************************************************************************)
EXTENDS Barrier, ThreadTimer, RecurringTimer, TimerTrigger, ThreadedExample,
        Anet, EchoServer, EpollServer,
        FiniteSetTheorems, WellFoundedInduction, TLAPS

-----------------------------------------------------------------------------
BarrierTypes ==
  /\ count_ \in Nat
  /\ pc \in [Threads -> {"work", "blocked", "woken"}]
  /\ left \in [Threads -> Nat]

(* A is the set of threads count_ counts: nobody has left more barriers    *)
(* than they have.  A thread in wait that is not counted was released, so  *)
(* every thread has completed the task it waited for.                      *)
Round(A) ==
  /\ A \subseteq Threads /\ Cardinality(A) = count_
  /\ \A t, u \in Threads : left[t] <= Completed(u)
  /\ \A u \in A : pc[u] # "work" /\ \A v \in Threads : left[v] <= left[u]
  /\ \A t \in Threads \ A : pc[t] # "work" =>
       \A u \in Threads : Completed(t) <= Completed(u)

BarrierInv == BarrierTypes /\ (timedOut \/ \E A \in SUBSET Threads : Round(A))

(* Completed phases are counted by numbers.                                *)
LEMMA CompletedType == BarrierTypes => \A t \in Threads : Completed(t) \in Nat
BY DEF BarrierTypes, Completed

(* The thread that arrives is not counted yet, and is when it blocks.      *)
LEMMA ArriveBlocks ==
  ASSUME BarrierTypes, NEW A, Round(A), NEW t \in Threads, Arrive(t),
         count_ + 1 # num_threads_
  PROVE  BarrierTypes' /\ Round(A \cup {t})'
<1>1. /\ pc[t] = "work" /\ count_' = count_ + 1 /\ pc' = [pc EXCEPT ![t] = "blocked"]
      /\ left' = left
  BY DEF Arrive
<1>2. BarrierTypes'
  BY <1>1 DEF BarrierTypes
<1>3. A \cup {t} \subseteq Threads /\ Cardinality(A \cup {t}) = count_'
  <2>1. IsFiniteSet(A) /\ t \notin A
    BY <1>1, ThreadsAssumption, FS_Subset DEF Round
  <2> QED BY Zenon, <1>1, <2>1, FS_AddElement DEF Round
<1>4. ASSUME NEW u \in Threads
      PROVE  /\ Completed(u)' = IF u = t THEN left[t] + 1 ELSE Completed(u)
             /\ Completed(u) \in Nat /\ Completed(u)' \in Nat
             /\ Completed(u) <= Completed(u)'
  BY <1>1 DEF Completed, BarrierTypes
<1>5. \A v, u \in Threads : left'[v] <= Completed(u)'
  BY <1>1, <1>4 DEF Round, BarrierTypes
<1>6. \A v \in Threads : left[v] <= left[t]
  BY <1>1 DEF Round, Completed
<1>7. \A u \in A \cup {t} : pc'[u] # "work" /\ \A v \in Threads : left'[v] <= left'[u]
  BY <1>1, <1>6 DEF Round, BarrierTypes
<1>8. ASSUME NEW v \in Threads \ (A \cup {t}), pc'[v] # "work", NEW u \in Threads
      PROVE  Completed(v)' <= Completed(u)'
  <2>1. Completed(v)' = Completed(v) /\ Completed(v) <= Completed(u)
    BY <1>1, <1>4, <1>8 DEF Round, BarrierTypes
  <2> QED BY <1>4, <2>1
<1> QED BY <1>2, <1>3, <1>5, <1>7, <1>8 DEF Round

(* The last thread to arrive completes a round that counts every thread,   *)
(* so all threads have left the same number of barriers.                   *)
LEMMA ArriveOpens ==
  ASSUME BarrierTypes, NEW A, Round(A), NEW t \in Threads, Arrive(t),
         count_ + 1 = num_threads_
  PROVE  BarrierTypes' /\ Round({})'
<1>1. /\ pc[t] = "work" /\ count_' = 0 /\ left' = [left EXCEPT ![t] = @ + 1]
      /\ pc' = [u \in Threads |-> IF pc[u] = "blocked" THEN "woken" ELSE pc[u]]
  BY DEF Arrive
<1>2. BarrierTypes'
  BY <1>1 DEF BarrierTypes
<1>3. A \cup {t} = Threads
  <2>1. IsFiniteSet(A) /\ t \notin A
    BY <1>1, ThreadsAssumption, FS_Subset DEF Round
  <2>2. Cardinality(A \cup {t}) = Cardinality(Threads)
    BY Zenon, <2>1, FS_AddElement DEF Round, num_threads_
  <2> QED BY <2>2, ThreadsAssumption, FS_Subset DEF Round
<1>4. \A v \in Threads : left[v] <= left[t]
  BY <1>1 DEF Round, Completed
<1>5. \A v \in Threads : left[v] = left[t]
  BY <1>3, <1>4 DEF Round, BarrierTypes
<1>6. \A u \in Threads : pc'[u] = "work" => u = t
  BY <1>1, <1>3 DEF Round, BarrierTypes
<1>7. \A u \in Threads : Completed(u)' = left[t] + 1 /\ left'[u] <= left[t] + 1
  BY <1>1, <1>5, <1>6 DEF Completed, BarrierTypes
<1>8. left[t] + 1 \in Nat /\ Cardinality({}) = count_'
  BY <1>1, FS_EmptySet DEF BarrierTypes
<1> QED BY <1>2, <1>7, <1>8 DEF Round

(* A wake-up or going back to sleep changes nothing that Round looks at.   *)
LEMMA SleepsOrWakes ==
  ASSUME BarrierTypes, NEW A, Round(A), NEW t \in Threads,
         NEW status \in {"blocked", "woken"}, pc[t] # "work",
         pc' = [pc EXCEPT ![t] = status], UNCHANGED <<count_, left>>
  PROVE  BarrierTypes' /\ Round(A)'
<1>1. BarrierTypes'
  BY DEF BarrierTypes
<1>2. \A u \in Threads : (pc'[u] = "work" <=> pc[u] = "work") /\ Completed(u)' = Completed(u)
  BY DEF BarrierTypes, Completed
<1> QED BY <1>1, <1>2 DEF Round

(* count_ is 0 only when nobody is counted, so that the thread is one of   *)
(* those that were released.                                               *)
LEMMA ReleasedLeaves ==
  ASSUME BarrierTypes, NEW A, Round(A), NEW t \in Threads, Released(t)
  PROVE  BarrierTypes' /\ Round(A)'
<1>1. /\ pc[t] = "woken" /\ count_ = 0 /\ count_' = count_
      /\ pc' = [pc EXCEPT ![t] = "work"] /\ left' = [left EXCEPT ![t] = @ + 1]
  BY DEF Released, Leave
<1>2. BarrierTypes'
  BY <1>1 DEF BarrierTypes
<1>3. A = {}
  <2>1. IsFiniteSet(A)
    BY ThreadsAssumption, FS_Subset DEF Round
  <2> QED BY <1>1, <2>1, FS_EmptySet DEF Round
<1>4. \A u \in Threads : Completed(u)' = Completed(u) /\ Completed(u) \in Nat
  BY <1>1 DEF Completed, BarrierTypes
<1>5. left'[t] = Completed(t) /\ \A u \in Threads : Completed(t) <= Completed(u)
  BY <1>1, <1>3 DEF Round, Completed, BarrierTypes
<1>6. \A v, u \in Threads : left'[v] <= Completed(u)'
  BY <1>1, <1>4, <1>5 DEF Round, BarrierTypes
<1>7. \A v \in Threads : pc'[v] # "work" => pc[v] # "work"
  BY <1>1 DEF BarrierTypes
<1> QED BY <1>1, <1>2, <1>3, <1>4, <1>6, <1>7 DEF Round

(* As long as no wait has timed out, no thread leaves the barrier of a     *)
(* task before every thread has completed that task.                       *)
THEOREM BarrierIsSafe == BarrierSpec => []NoEarlyLeave
<1>1. BarrierInit => BarrierInv
  <2> SUFFICES ASSUME BarrierInit PROVE BarrierInv
    OBVIOUS
  <2>1. BarrierTypes
    BY DEF BarrierInit, BarrierTypes
  <2>2. Round({})
    BY FS_EmptySet DEF BarrierInit, Round, Completed
  <2> QED BY <2>1, <2>2 DEF BarrierInv
<1>2. BarrierInv /\ [BarrierNext]_barrierVars => BarrierInv'
  <2> SUFFICES ASSUME BarrierInv, [BarrierNext]_barrierVars PROVE BarrierInv'
    OBVIOUS
  <2>1. CASE UNCHANGED barrierVars
    BY <2>1 DEF barrierVars, BarrierInv, BarrierTypes, Round, Completed
  <2>2. ASSUME NEW t \in Threads, Arrive(t) PROVE BarrierInv'
    <3>1. timedOut' = timedOut
      BY <2>2 DEF Arrive
    <3>2. CASE timedOut
      BY <2>2, <3>1, <3>2 DEF BarrierInv, BarrierTypes, Arrive
    <3>3. CASE ~timedOut
      <4>1. PICK A \in SUBSET Threads : Round(A)
        BY <3>3 DEF BarrierInv
      <4>2. CASE count_ + 1 = num_threads_
        <5>1. BarrierTypes' /\ Round({})'
          BY <2>2, <4>1, <4>2, ArriveOpens DEF BarrierInv
        <5>2. {} \in SUBSET Threads
          OBVIOUS
        <5> QED BY <5>1, <5>2 DEF BarrierInv
      <4>3. CASE count_ + 1 # num_threads_
        <5>1. BarrierTypes' /\ Round(A \cup {t})'
          BY <2>2, <4>1, <4>3, ArriveBlocks DEF BarrierInv
        <5>2. A \cup {t} \in SUBSET Threads
          OBVIOUS
        <5> QED BY <5>1, <5>2 DEF BarrierInv
      <4> QED BY <4>2, <4>3
    <3> QED BY <3>2, <3>3
  <2>3. ASSUME NEW t \in Threads, Released(t) PROVE BarrierInv'
    <3>1. timedOut' = timedOut
      BY <2>3 DEF Released
    <3>2. CASE timedOut
      BY <2>3, <3>1, <3>2 DEF BarrierInv, BarrierTypes, Released, Leave
    <3>3. CASE ~timedOut
      BY <2>3, <3>3, ReleasedLeaves DEF BarrierInv
    <3> QED BY <3>2, <3>3
  <2>4. ASSUME NEW t \in Threads, BlockAgain(t) \/ WakeSpuriously(t) PROVE BarrierInv'
    <3>1. PICK status \in {"blocked", "woken"} :
             /\ pc[t] # "work" /\ pc' = [pc EXCEPT ![t] = status]
             /\ UNCHANGED <<count_, left>>
      BY <2>4 DEF BlockAgain, WakeSpuriously
    <3>2. timedOut' = timedOut
      BY <2>4 DEF BlockAgain, WakeSpuriously
    <3>3. CASE timedOut
      BY <3>1, <3>2, <3>3 DEF BarrierInv, BarrierTypes
    <3>4. CASE ~timedOut
      BY Zenon, <3>1, <3>4, SleepsOrWakes DEF BarrierInv
    <3> QED BY <3>3, <3>4
  <2>5. ASSUME NEW t \in Threads, TimesOut(t) PROVE BarrierInv'
    BY <2>5 DEF TimesOut, Leave, BarrierInv, BarrierTypes
  <2> QED BY <2>1, <2>2, <2>3, <2>4, <2>5 DEF BarrierNext, Joined, Prompt
<1>3. BarrierInv => NoEarlyLeave
  BY DEF BarrierInv, Round, NoEarlyLeave
<1> QED BY <1>1, <1>2, <1>3, PTL DEF BarrierSpec
-----------------------------------------------------------------------------
(* A set of integers from -1 up that is not empty has a least element.     *)
LEMMA LeastTime ==
  ASSUME NEW S, S # {}, \A i \in S : i \in Int /\ i >= -1
  PROVE  Lowest(S) \in S /\ \A e \in S : Lowest(S) <= e
<1> DEFINE T == {n \in Nat : n - 1 \in S}
           R == OpToRel(<, Nat)
<1>1. T # {}
  <2>1. PICK i \in S : i \in Int /\ i >= -1
    OBVIOUS
  <2>2. i + 1 \in Nat /\ (i + 1) - 1 = i
    BY <2>1
  <2> QED BY <2>2
<1>2. PICK x \in T : \A y \in T : ~(<<y, x>> \in R)
  <2>1. IsWellFoundedOn(R, Nat) /\ T \subseteq Nat
    BY Zenon, NatLessThanWellFounded
  <2> HIDE DEF R, T
  <2> QED BY Zenon, <2>1, <1>1, WFMin
<1>3. ASSUME NEW e \in S PROVE x - 1 <= e
  <2>1. e + 1 \in Nat /\ (e + 1) - 1 = e
    OBVIOUS
  <2>2. ~(e + 1 < x)
    BY Zenon, <2>1, <1>2 DEF OpToRel
  <2> QED BY <2>1, <2>2
<1>4. x - 1 \in S /\ \A e \in S : x - 1 <= e
  BY <1>3
<1> QED BY <1>4 DEF Lowest

-----------------------------------------------------------------------------
TriggerTypes ==
  /\ mbox \in Seq(Objs) /\ due \subseteq Objs
  /\ sched \in [Objs -> {i \in Int : i >= -2}]
  /\ delay \in Nat
  /\ trpc \in {"pop", "trigger", "fire", "delete"}

(* While the thread was never late, nothing is overdue, and what is left   *)
(* of the delay ends no later than the first object is due: from the       *)
(* moment the delay is computed until pop returns.                         *)
OnTime ==
  /\ \A o \in Objs : sched[o] # Off => sched[o] >= 0
  /\ trpc \in {"pop", "delete"} => \A o \in Objs : sched[o] # Off => delay <= sched[o]

TriggerInv == TriggerTypes /\ (slow \/ OnTime)

(* An action that leaves the history variable slow alone.                  *)
LEMMA NotLater ==
  ASSUME TriggerInv, slow' = slow, TriggerTypes', OnTime => OnTime'
  PROVE  TriggerInv'
BY Zenon DEF TriggerInv

(* Objects scheduled anew get a time of at least 1.                        *)
LEMMA TimerAddTypes ==
  ASSUME TriggerTypes, NEW o \in Objs
  PROVE  /\ TimerAdd(o) \in [Objs -> {i \in Int : i >= -2}]
         /\ \A x \in Objs : TimerAdd(o)[x] = sched[x] \/ TimerAdd(o)[x] >= 1
<1>1. Ttl[o] \in Nat /\ Ttl[o] >= 1
  BY TtlAssumption
<1> QED BY <1>1 DEF TriggerTypes, TimerAdd

(* Objects deleted, or taken out to be called, have no time left.          *)
LEMMA TimerDelTypes ==
  ASSUME TriggerTypes, NEW S
  PROVE  /\ TimerDel(S) \in [Objs -> {i \in Int : i >= -2}]
         /\ \A x \in Objs : TimerDel(S)[x] = sched[x] \/ TimerDel(S)[x] = Off
BY DEF TriggerTypes, TimerDel, Off

(* TriggerInv is inductive, one step per action.                           *)
LEMMA TriggerStepKeepsInv == TriggerInv /\ [TriggerNext]_triggerVars => TriggerInv'
<1> SUFFICES ASSUME TriggerInv, [TriggerNext]_triggerVars PROVE TriggerInv'
  OBVIOUS
<1> USE DEF TriggerInv
<1>1. ASSUME NEW o \in Objs, add(o) \/ del(o) PROVE TriggerInv'
  <2>1. UNCHANGED <<sched, delay, trpc, due>> /\ mbox' \in Seq(Objs)
    <3>1. UNCHANGED <<sched, delay, trpc, due>>
      BY <1>1, Zenon DEF add, del
    <3>2. mbox' = mbox \/ mbox' = Append(mbox, o)
      BY <1>1, Zenon DEF add, del
    <3>3. mbox \in Seq(Objs)
      BY DEF TriggerTypes
    <3> HIDE DEF TriggerInv
    <3> QED BY <3>1, <3>2, <3>3
  <2>2. slow' = slow
    BY <1>1, Zenon DEF add, del
  <2> QED BY <2>1, <2>2, NotLater DEF TriggerTypes, OnTime
<1>2. CASE PopObject
  <2>1. /\ Head(mbox) \in Objs /\ mbox' \in Seq(Objs) /\ sched' = TimerAdd(Head(mbox))
        /\ trpc' = "trigger" /\ delay' = delay /\ due' = due
    BY <1>2 DEF PopObject, TriggerTypes
  <2>2. slow' = slow
    BY <1>2, Zenon DEF PopObject
  <2>3. TriggerTypes'
    BY <2>1, TimerAddTypes DEF TriggerTypes
  <2>4. ASSUME OnTime PROVE OnTime'
    <3>1. \A o \in Objs : sched'[o] = sched[o] \/ sched'[o] >= 1
      BY <2>1, TimerAddTypes
    <3>2. \A o \in Objs : sched'[o] \in Int
      BY <2>3 DEF TriggerTypes
    <3> QED BY <2>1, <2>4, <3>1, <3>2 DEF OnTime
  <2> QED BY <2>2, <2>3, <2>4, NotLater
<1>3. CASE PopTimesOut
  <2>1. UNCHANGED <<mbox, sched, delay, due>> /\ trpc' = "trigger"
    BY <1>3 DEF PopTimesOut
  <2>2. slow' = slow
    BY <1>3, Zenon DEF PopTimesOut
  <2> QED BY <2>1, <2>2, NotLater DEF TriggerTypes, OnTime
<1>4. CASE TakeDue
  <2>1. /\ UNCHANGED <<mbox, delay>> /\ trpc' = "fire" /\ due' \subseteq Objs
        /\ sched' = TimerDel(due')
    BY <1>4 DEF TakeDue, Scheduled
  <2>2. slow' = slow
    BY <1>4, Zenon DEF TakeDue
  <2>3. TriggerTypes'
    BY <2>1, TimerDelTypes DEF TriggerTypes
  <2>4. OnTime => OnTime'
    BY <2>1, TimerDelTypes DEF OnTime
  <2> QED BY <2>2, <2>3, <2>4, NotLater
<1>5. ASSUME NEW o \in Objs, Fire(o) PROVE TriggerInv'
  <2>1. /\ UNCHANGED <<mbox, delay, trpc>> /\ trpc = "fire" /\ due' \subseteq due
        /\ sched' = TimerAdd(o) \/ sched' = sched
    BY <1>5 DEF Fire
  <2>2. slow' = slow
    BY <1>5, Zenon DEF Fire
  <2>3. TriggerTypes'
    BY SMTT(30), <2>1, TimerAddTypes DEF TriggerTypes
  <2>4. OnTime => OnTime'
    BY <2>1, TimerAddTypes DEF OnTime
  <2> QED BY <2>2, <2>3, <2>4, NotLater
<1>6. CASE NextDelay
  <2> DEFINE S == {sched[o] : o \in Scheduled}
  <2>1. UNCHANGED <<mbox, sched, due>> /\ trpc' = "delete"
    BY <1>6 DEF NextDelay
  <2>2. slow' = slow
    BY <1>6, Zenon DEF NextDelay
  <2>3. CASE Scheduled = {}
    <3>1. delay' = IdleDelay
      BY <1>6, <2>3 DEF NextDelay
    <3> QED BY <2>1, <2>2, <2>3, <3>1, NotLater, TtlAssumption
            DEF TriggerTypes, OnTime, Scheduled
  <2>4. CASE Scheduled # {}
    <3>1. delay' = IF Lowest(S) < 0 THEN 1 ELSE Lowest(S)
      BY <1>6, <2>4 DEF NextDelay
    <3>2. S # {} /\ \A i \in S : i \in Int /\ i >= -1
      <4>1. \A o \in Scheduled : sched[o] \in Int /\ sched[o] >= -1
        BY DEF Scheduled, TriggerTypes, Off
      <4> QED BY <2>4, <4>1
    <3>3. Lowest(S) \in S /\ \A e \in S : Lowest(S) <= e
      <4> HIDE DEF S
      <4> QED BY <3>2, LeastTime
    <3>4. Lowest(S) \in Int /\ \A o \in Objs : sched[o] # Off => Lowest(S) <= sched[o]
      BY <3>2, <3>3 DEF Scheduled
    <3>5. OnTime => Lowest(S) >= 0
      BY <3>3 DEF OnTime, Scheduled
    <3> HIDE DEF S
    <3>6. TriggerTypes'
      BY <2>1, <3>1, <3>4 DEF TriggerTypes
    <3>7. OnTime => OnTime'
      BY <2>1, <3>1, <3>4, <3>5 DEF OnTime
    <3> QED BY <2>2, <3>6, <3>7, NotLater
  <2> QED BY <2>3, <2>4
<1>7. CASE CarryOutDeletions
  <2>1. /\ UNCHANGED <<mbox, delay, due>> /\ trpc = "delete" /\ trpc' = "pop"
        /\ sched' = TimerDel(timer_del)
    BY <1>7 DEF CarryOutDeletions
  <2>2. slow' = slow
    BY <1>7, Zenon DEF CarryOutDeletions
  <2>3. TriggerTypes'
    BY <2>1, TimerDelTypes DEF TriggerTypes
  <2>4. OnTime => OnTime'
    BY <2>1, TimerDelTypes DEF OnTime
  <2> QED BY <2>2, <2>3, <2>4, NotLater
<1>8. CASE Tick
  <2>1. /\ UNCHANGED <<mbox, due, trpc>>
        /\ sched' = [o \in Objs |-> IF sched[o] >= 0 THEN sched[o] - 1 ELSE sched[o]]
        /\ delay' = IF trpc = "pop" /\ delay > 0 THEN delay - 1 ELSE delay
    BY <1>8 DEF Tick
  <2>2. slow' \/ (~slow /\ trpc = "pop" /\ delay > 0)
    BY <1>8, Zenon DEF Tick
  <2>3. TriggerTypes'
    BY <2>1 DEF TriggerTypes
  <2>4. ASSUME OnTime, trpc = "pop", delay > 0 PROVE OnTime'
    BY <2>1, <2>4 DEF OnTime, TriggerTypes, Off
  <2>5. CASE slow'
    BY <2>3, <2>5
  <2>6. CASE ~slow /\ trpc = "pop" /\ delay > 0
    BY <2>3, <2>4, <2>6
  <2> QED BY <2>2, <2>5, <2>6
<1>9. CASE UNCHANGED triggerVars
  <2>1. slow' = slow
    BY <1>9, Zenon DEF triggerVars
  <2> QED BY <1>9, <2>1, NotLater DEF triggerVars, TriggerTypes, OnTime
<1> QED BY <1>1, <1>2, <1>3, <1>4, <1>5, <1>6, <1>7, <1>8, <1>9, Zenon
        DEF TriggerNext, TriggerStep

(* As long as no time passes while the thread is busy, no scheduled object *)
(* of a thread_trigger is ever overdue.                                    *)
THEOREM TriggerIsOnTime == TriggerSpec => []NeverOverdue
<1>1. TriggerInit => TriggerInv
  BY TtlAssumption DEF TriggerInit, TriggerInv, TriggerTypes, OnTime, Off
<1>2. TriggerInv => NeverOverdue
  BY DEF TriggerInv, OnTime, NeverOverdue, Scheduled
<1> QED BY <1>1, <1>2, TriggerStepKeepsInv, PTL DEF TriggerSpec

-----------------------------------------------------------------------------
(* Once stop has set expired_ no callback runs or begins: the mutex keeps  *)
(* stop from setting it in a callback, and the thread tests it, with the   *)
(* mutex, before every one.                                                *)
THEOREM StopIsFinal == RecurringSpec => []StoppedNeverCalls
<1>1. RecurringInit => StoppedNeverCalls
  BY DEF RecurringInit, StoppedNeverCalls
<1>2. StoppedNeverCalls /\ [RecurringNext]_recurringVars => StoppedNeverCalls'
  <2> SUFFICES ASSUME StoppedNeverCalls, [RecurringNext]_recurringVars
               PROVE  StoppedNeverCalls'
    OBVIOUS
  <2> USE DEF StoppedNeverCalls
  <2>1. CASE \E r \in BOOLEAN : setTimer(r)
    BY <2>1 DEF setTimer
  <2>2. CASE StopSets
    BY <2>2 DEF StopSets, MutexFree
  <2>3. CASE StopNotifies
    BY <2>3 DEF StopNotifies
  <2>4. CASE StopJoins
    BY <2>4 DEF StopJoins
  <2>5. CASE EnterWait
    BY <2>5 DEF EnterWait
  <2>6. CASE Timeout
    BY <2>6 DEF Timeout
  <2>7. CASE CallbackReturns
    BY <2>7 DEF CallbackReturns
  <2>8. CASE ThreadWakes \/ StopCalled \/ UNCHANGED recurringVars
    BY <2>8 DEF ThreadWakes, StopCalled, recurringVars
  <2> QED BY <2>1, <2>2, <2>3, <2>4, <2>5, <2>6, <2>7, <2>8
          DEF RecurringNext, Owner, InOwnersStop, ThreadStep
<1> QED BY <1>1, <1>2, PTL DEF RecurringSpec

-----------------------------------------------------------------------------
(* Where the worker can be while the owner of a Timer of timer/timer.h is  *)
(* at each of its steps.                                                   *)
UserStates == {"idle", "dead", "start-store", "start-launch", "stop-test", "stop-store",
               "stop-lock", "stop-wait", "stop-reset"}
WorkerStates == {"none", "test", "task", "lock", "unlock", "gone"}
NoWorker == \A w \in Workers : wpc[w] \in {"none", "gone"}
OneWorker(w, S) ==
  wpc[w] \in S /\ \A v \in Workers \ {w} : wpc[v] \in {"none", "gone"}
Stopped == expired /\ NoWorker /\ mutex = Free
Running(S) == ~expired /\ mutex = Free /\ \E w \in Workers : OneWorker(w, S)
Ending == expired /\ \E w \in Workers : OneWorker(w, {"unlock"})

OwnerAt(p) ==
  \/ p \in {"idle", "dead", "start-store"} /\ ~tryToExpire /\ Stopped
  \/ p \in {"idle", "stop-test", "stop-store"} /\ ~tryToExpire /\ Running({"test", "task"})
  \/ p = "start-launch" /\ ~tryToExpire /\ ~expired /\ NoWorker /\ mutex = Free
  \/ /\ p \in {"stop-lock", "stop-wait"} /\ tryToExpire
     /\ Stopped \/ Running({"test", "task", "lock"}) \/ (Ending /\ mutex # Free)
  \/ p = "stop-reset" /\ tryToExpire /\ expired /\ NoWorker
TimerInv(u) ==
  /\ upc \in [{u} -> UserStates] /\ wpc \in [Workers -> WorkerStates]
  /\ OwnerAt(upc[u])

(* The timer of one owner that has not been started.                       *)
LEMMA ThreadTimerInitInv ==
  ASSUME NEW u, Users = {u}, ThreadTimerInit PROVE TimerInv(u)
<1>1. upc \in [{u} -> UserStates] /\ upc[u] = "idle"
  BY DEF ThreadTimerInit, UserStates
<1>2. wpc \in [Workers -> WorkerStates] /\ NoWorker
  BY DEF ThreadTimerInit, WorkerStates, NoWorker
<1>3. expired /\ ~tryToExpire /\ mutex = Free
  BY Zenon DEF ThreadTimerInit
<1> QED BY <1>1, <1>2, <1>3 DEF TimerInv, OwnerAt, Stopped

(* The steps of start and of stop.                                         *)
LEMMA OwnerStep ==
  ASSUME NEW u, Users = {u}, TimerInv(u), Begin(u) \/ InCall(u) \/ StopWakes(u)
  PROVE  TimerInv(u)'
<1>0. /\ upc \in [{u} -> UserStates] /\ wpc \in [Workers -> WorkerStates]
      /\ OwnerAt(upc[u])
  BY DEF TimerInv
<1>10. ASSUME NEW p \in UserStates, upc' = [upc EXCEPT ![u] = p],
             wpc' \in [Workers -> WorkerStates], OwnerAt(p)'
      PROVE  TimerInv(u)'
  <2>1. upc' \in [{u} -> UserStates] /\ upc'[u] = p
    BY <1>0, <1>10
  <2> QED BY <1>10, <2>1 DEF TimerInv
<1>1. CASE StartTest(u)
  <2>1. upc[u] = "idle" /\ expired /\ upc' = [upc EXCEPT ![u] = "start-store"]
        /\ UNCHANGED <<expired, tryToExpire, mutex, wpc>>
    BY <1>1 DEF StartTest
  <2>2. ~tryToExpire /\ Stopped
    BY <1>0, <2>1 DEF OwnerAt, Running
  <2>3. OwnerAt("start-store")'
    BY <2>1, <2>2 DEF OwnerAt, Stopped, NoWorker
  <2> QED BY <1>0, <1>10, <2>1, <2>3 DEF UserStates
<1>2. CASE StartStore(u)
  <2>1. upc[u] = "start-store" /\ ~expired' /\ upc' = [upc EXCEPT ![u] = "start-launch"]
        /\ UNCHANGED <<tryToExpire, mutex, wpc>>
    BY <1>2 DEF StartStore
  <2>2. ~tryToExpire /\ Stopped
    BY <1>0, <2>1 DEF OwnerAt, Running
  <2>3. OwnerAt("start-launch")'
    BY <2>1, <2>2 DEF OwnerAt, Stopped, NoWorker
  <2> QED BY <1>0, <1>10, <2>1, <2>3 DEF UserStates
<1>3. CASE StartLaunch(u)
  <2>1. upc[u] = "start-launch" /\ upc' = [upc EXCEPT ![u] = "idle"]
        /\ UNCHANGED <<expired, tryToExpire, mutex>>
    BY <1>3 DEF StartLaunch
  <2>2. ~tryToExpire /\ ~expired /\ NoWorker /\ mutex = Free
    BY <1>0, <2>1 DEF OwnerAt
  <2>3. PICK w \in Workers : wpc' = [wpc EXCEPT ![w] = "test"]
    BY Zenon, <1>3 DEF StartLaunch
  <2>4. OneWorker(w, {"test", "task"})'
    BY <1>0, <2>2, <2>3 DEF OneWorker, NoWorker
  <2>5. wpc' \in [Workers -> WorkerStates]
    BY <1>0, <2>3 DEF WorkerStates
  <2>6. OwnerAt("idle")'
    BY <2>1, <2>2, <2>4 DEF OwnerAt, Running
  <2> QED BY <1>10, <2>1, <2>5, <2>6 DEF UserStates
<1>4. CASE StopTestExpired(u)
  <2>1. upc[u] = "idle" /\ UNCHANGED <<expired, tryToExpire, mutex, wpc>>
    BY <1>4 DEF StopTestExpired
  <2>2. CASE expired
    <3>1. PICK p \in {"idle", "dead"} : upc' = [upc EXCEPT ![u] = p]
      BY Zenon, <1>4, <2>2 DEF StopTestExpired
    <3>2. ~tryToExpire /\ Stopped
      BY <1>0, <2>1, <2>2 DEF OwnerAt, Running
    <3>3. OwnerAt(p)'
      BY <2>1, <3>1, <3>2 DEF OwnerAt, Stopped, NoWorker
    <3> QED BY Zenon, <1>0, <1>10, <2>1, <3>1, <3>3 DEF UserStates
  <2>3. CASE ~expired
    <3>1. upc' = [upc EXCEPT ![u] = "stop-test"]
      BY <1>4, <2>3 DEF StopTestExpired
    <3>2. ~tryToExpire /\ Running({"test", "task"})
      BY <1>0, <2>1, <2>3 DEF OwnerAt, Stopped
    <3>3. OwnerAt("stop-test")'
      BY <2>1, <3>2 DEF OwnerAt, Running, OneWorker
    <3> QED BY <1>0, <1>10, <2>1, <3>1, <3>3 DEF UserStates
  <2> QED BY <2>2, <2>3
<1>5. CASE StopTestTrying(u)
  <2>1. upc[u] = "stop-test" /\ UNCHANGED <<expired, tryToExpire, mutex, wpc>>
    BY <1>5 DEF StopTestTrying
  <2>2. ~tryToExpire /\ Running({"test", "task"})
    BY <1>0, <2>1 DEF OwnerAt
  <2>3. upc' = [upc EXCEPT ![u] = "stop-store"]
    BY <1>5, <2>2 DEF StopTestTrying
  <2>4. OwnerAt("stop-store")'
    BY <2>1, <2>2 DEF OwnerAt, Running, OneWorker
  <2> QED BY <1>0, <1>10, <2>1, <2>3, <2>4 DEF UserStates
<1>6. CASE StopStore(u)
  <2>1. upc[u] = "stop-store" /\ tryToExpire' /\ UNCHANGED <<expired, mutex, wpc>>
        /\ upc' = [upc EXCEPT ![u] = "stop-lock"]
    BY <1>6 DEF StopStore
  <2>2. Running({"test", "task"})
    BY <1>0, <2>1 DEF OwnerAt
  <2>3. Running({"test", "task", "lock"})'
    BY <2>1, <2>2 DEF Running, OneWorker
  <2>4. OwnerAt("stop-lock")'
    BY <2>1, <2>3 DEF OwnerAt
  <2> QED BY <1>0, <1>10, <2>1, <2>4 DEF UserStates
<1>7. CASE StopLock(u)
  <2>1. upc[u] = "stop-lock" /\ mutex = Free /\ UNCHANGED <<expired, tryToExpire, wpc>>
    BY <1>7 DEF StopLock
  <2>2. tryToExpire /\ (Stopped \/ Running({"test", "task", "lock"}))
    BY <1>0, <2>1 DEF OwnerAt
  <2>3. CASE expired
    <3>1. upc' = [upc EXCEPT ![u] = "stop-reset"]
      BY <1>7, <2>3 DEF StopLock
    <3>2. Stopped
      BY <2>2, <2>3 DEF Running
    <3>3. OwnerAt("stop-reset")'
      BY <2>1, <2>2, <3>2 DEF OwnerAt, Stopped, NoWorker
    <3> QED BY <1>0, <1>10, <2>1, <3>1, <3>3 DEF UserStates
  <2>4. CASE ~expired
    <3>1. upc' = [upc EXCEPT ![u] = "stop-wait"] /\ mutex' = Free
      BY <1>7, <2>4 DEF StopLock
    <3>2. Running({"test", "task", "lock"})
      BY <2>2, <2>4 DEF Stopped
    <3>3. Running({"test", "task", "lock"})'
      BY <2>1, <3>1, <3>2 DEF Running, OneWorker
    <3>4. OwnerAt("stop-wait")'
      BY <2>1, <2>2, <3>3 DEF OwnerAt
    <3> QED BY <1>0, <1>10, <2>1, <3>1, <3>4 DEF UserStates
  <2> QED BY <2>3, <2>4
<1>8. CASE StopWakes(u)
  <2>1. upc[u] = "stop-wait" /\ UNCHANGED <<expired, tryToExpire, mutex, wpc>>
        /\ upc' = [upc EXCEPT ![u] = "stop-lock"]
    BY <1>8 DEF StopWakes
  <2>2. OwnerAt("stop-lock")
    BY <1>0, <2>1 DEF OwnerAt
  <2>3. OwnerAt("stop-lock")'
    BY Zenon, <2>1, <2>2 DEF OwnerAt, Stopped, Running, Ending, NoWorker, OneWorker
  <2> QED BY <1>0, <1>10, <2>1, <2>3 DEF UserStates
<1>9. CASE StopReset(u)
  <2>1. upc[u] = "stop-reset" /\ mutex' = Free /\ UNCHANGED <<expired, wpc>>
        /\ tryToExpire' = (tryToExpire /\ ~expired)
    BY <1>9 DEF StopReset
  <2>2. PICK p \in {"idle", "dead"} : upc' = [upc EXCEPT ![u] = p]
    BY Zenon, <1>9 DEF StopReset, StopReturned
  <2>3. tryToExpire /\ expired /\ NoWorker
    BY <1>0, <2>1 DEF OwnerAt
  <2>4. ~tryToExpire'
    BY Zenon, <2>1, <2>3
  <2>5. OwnerAt(p)'
    BY <2>1, <2>2, <2>3, <2>4 DEF OwnerAt, Stopped, NoWorker
  <2> QED BY Zenon, <1>0, <1>10, <2>1, <2>2, <2>5 DEF UserStates
<1> QED BY <1>1, <1>2, <1>3, <1>4, <1>5, <1>6, <1>7, <1>8, <1>9 DEF Begin, InCall

(* The worker that takes a step is the only one.                           *)
LEMMA TheWorker ==
  ASSUME NEW w \in Workers, wpc[w] \notin {"none", "gone"},
         NEW v \in Workers, NEW S, OneWorker(v, S)
  PROVE  v = w
BY DEF OneWorker

(* It stays the only one.                                                  *)
LEMMA WorkerMoves ==
  ASSUME wpc \in [Workers -> WorkerStates], NEW w \in Workers, NEW S, OneWorker(w, S),
         NEW q, wpc' = [wpc EXCEPT ![w] = q], NEW T, q \in T
  PROVE  OneWorker(w, T)'
BY DEF OneWorker

(* The steps of the worker.                                                *)
LEMMA WorkerStep ==
  ASSUME NEW u, Users = {u}, TimerInv(u), NEW w \in Workers, Work(w)
  PROVE  TimerInv(u)'
<1>0. /\ upc \in [{u} -> UserStates] /\ wpc \in [Workers -> WorkerStates]
      /\ OwnerAt(upc[u])
  BY DEF TimerInv
<1>1. wpc[w] \notin {"none", "gone"}
  BY DEF Work, LoopTest, RunTask, Announce, Unlock
<1>2. ~NoWorker
  BY <1>1 DEF NoWorker
<1>3. CASE LoopTest(w) \/ RunTask(w)
  <2>1. /\ UNCHANGED <<expired, tryToExpire, mutex, upc>> /\ wpc[w] \in {"test", "task"}
        /\ \/ wpc' = [wpc EXCEPT ![w] = "test"] \/ wpc' = [wpc EXCEPT ![w] = "task"]
           \/ tryToExpire /\ wpc' = [wpc EXCEPT ![w] = "lock"]
    BY <1>3 DEF LoopTest, RunTask
  <2>2. wpc' \in [Workers -> WorkerStates]
    BY <1>0, <2>1 DEF WorkerStates
  <2>3. CASE upc[u] \in {"idle", "stop-test", "stop-store"} /\ ~tryToExpire /\ Running({"test", "task"})
    <3>1. OneWorker(w, {"test", "task"})
      BY <1>1, <2>3, TheWorker DEF Running
    <3>2. PICK q \in {"test", "task"} : wpc' = [wpc EXCEPT ![w] = q]
      BY <2>1, <2>3
    <3>3. OneWorker(w, {"test", "task"})'
      BY Zenon, <1>0, <3>1, <3>2, WorkerMoves
    <3>4. OwnerAt(upc[u])'
      BY <2>1, <2>3, <3>3 DEF OwnerAt, Running
    <3> QED BY Zenon, <1>0, <2>1, <2>2, <3>4 DEF TimerInv
  <2>4. CASE /\ upc[u] \in {"stop-lock", "stop-wait"} /\ tryToExpire
             /\ Stopped \/ Running({"test", "task", "lock"}) \/ (Ending /\ mutex # Free)
    <3>0. ~Ending
      BY <1>1, <2>1, TheWorker DEF Ending, OneWorker
    <3>1. OneWorker(w, {"test", "task", "lock"}) /\ ~expired /\ mutex = Free
      BY <1>1, <1>2, <2>4, <3>0, TheWorker DEF Running, Stopped
    <3>2. PICK q \in {"test", "task", "lock"} : wpc' = [wpc EXCEPT ![w] = q]
      BY <2>1, <2>4
    <3>3. OneWorker(w, {"test", "task", "lock"})'
      BY Zenon, <1>0, <3>1, <3>2, WorkerMoves
    <3>4. OwnerAt(upc[u])'
      BY <2>1, <2>4, <3>1, <3>3 DEF OwnerAt, Running
    <3> QED BY Zenon, <1>0, <2>1, <2>2, <3>4 DEF TimerInv
  <2> QED BY <1>0, <1>2, <2>3, <2>4 DEF OwnerAt, Stopped
<1>4. CASE Announce(w)
  <2>1. /\ wpc[w] = "lock" /\ mutex = Free /\ mutex' = w /\ expired'
        /\ tryToExpire' = tryToExpire /\ wpc' = [wpc EXCEPT ![w] = "unlock"]
    BY <1>4 DEF Announce
  <2>2. ~Running({"test", "task"}) /\ ~Ending
    BY <1>1, <2>1, TheWorker DEF Running, Ending, OneWorker
  <2>3. /\ upc[u] \in {"stop-lock", "stop-wait"} /\ tryToExpire
        /\ Running({"test", "task", "lock"})
    BY <1>0, <1>2, <2>2 DEF OwnerAt, Stopped
  <2>4. OneWorker(w, {"test", "task", "lock"})
    BY <1>1, <2>3, TheWorker DEF Running
  <2>5. OneWorker(w, {"unlock"})'
    BY Zenon, <1>0, <2>1, <2>4, WorkerMoves
  <2>6. mutex' # Free
    BY <2>1 DEF Workers, Free
  <2>7. wpc' \in [Workers -> WorkerStates]
    BY <1>0, <2>1 DEF WorkerStates
  <2>8. upc' \in [{u} -> UserStates] /\ upc'[u] \in {"stop-lock", "stop-wait"}
    BY <1>0, <1>4, <2>3 DEF Announce, UserStates
  <2>9. OwnerAt(upc[u])'
    BY <2>1, <2>3, <2>5, <2>6, <2>8 DEF OwnerAt, Ending
  <2> QED BY <2>7, <2>8, <2>9 DEF TimerInv
<1>5. CASE Unlock(w)
  <2>1. /\ wpc[w] = "unlock" /\ mutex' = Free /\ UNCHANGED <<expired, tryToExpire, upc>>
        /\ wpc' = [wpc EXCEPT ![w] = "gone"]
    BY <1>5 DEF Unlock
  <2>2. ~Running({"test", "task"}) /\ ~Running({"test", "task", "lock"})
    BY <1>1, <2>1, TheWorker DEF Running, OneWorker
  <2>3. upc[u] \in {"stop-lock", "stop-wait"} /\ tryToExpire /\ Ending
    BY <1>0, <1>2, <2>2 DEF OwnerAt, Stopped
  <2>4. OneWorker(w, {"unlock"}) /\ expired
    BY <1>1, <2>3, TheWorker DEF Ending
  <2>5. NoWorker'
    BY <1>0, <2>1, <2>4 DEF OneWorker, NoWorker
  <2>6. wpc' \in [Workers -> WorkerStates]
    BY <1>0, <2>1 DEF WorkerStates
  <2>7. OwnerAt(upc[u])'
    BY <2>1, <2>3, <2>4, <2>5 DEF OwnerAt, Stopped
  <2> QED BY Zenon, <1>0, <2>1, <2>6, <2>7 DEF TimerInv
<1> QED BY <1>3, <1>4, <1>5 DEF Work

(* A Timer of timer/timer.h that one thread owns: when none of its calls   *)
(* is in progress, a stopped or destroyed timer has no worker left and its *)
(* mutex is free, and a started one has a worker that nobody has told to   *)
(* end, however often it was started and stopped.                          *)
THEOREM WorkerLivesWhileStarted ==
  ASSUME NEW u, Users = {u} PROVE ThreadTimerSpec => []WorkerMatchesTimer
<1>1. ThreadTimerInit => TimerInv(u)
  BY ThreadTimerInitInv
<1>2. TimerInv(u) /\ [ThreadTimerNext]_threadTimerVars => TimerInv(u)'
  <2> SUFFICES ASSUME TimerInv(u), [ThreadTimerNext]_threadTimerVars PROVE TimerInv(u)'
    OBVIOUS
  <2>1. CASE Begin(u) \/ InCall(u) \/ StopWakes(u)
    BY <2>1, OwnerStep
  <2>2. ASSUME NEW w \in Workers, Work(w) PROVE TimerInv(u)'
    BY <2>2, WorkerStep
  <2>3. CASE UNCHANGED threadTimerVars
    BY Zenon, <2>3 DEF threadTimerVars, TimerInv, OwnerAt, Stopped, Running, Ending,
                       NoWorker, OneWorker
  <2> QED BY <2>1, <2>2, <2>3 DEF ThreadTimerNext
<1>3. TimerInv(u) => WorkerMatchesTimer
  <2> SUFFICES ASSUME TimerInv(u), Calm(u)
               PROVE  IF expired \/ upc[u] = "dead" THEN LiveWorkers = {} /\ mutex = Free
                      ELSE ~tryToExpire /\ \E w \in Workers : wpc[w] \in {"test", "task"}
    BY Zenon DEF WorkerMatchesTimer
  <2>1. CASE ~tryToExpire /\ Stopped
    BY <2>1 DEF Stopped, NoWorker, LiveWorkers
  <2>2. CASE upc[u] = "idle" /\ ~tryToExpire /\ Running({"test", "task"})
    BY <2>2 DEF Running, OneWorker
  <2> QED BY <2>1, <2>2 DEF TimerInv, OwnerAt, Calm
<1> QED BY <1>1, <1>2, <1>3, PTL DEF ThreadTimerSpec

-----------------------------------------------------------------------------
(***************************************************************************)
(* threaded-example.c.  The thread never sleeps in a wait whose flag is    *)
(* already set: the callback's signal cannot fall between its test and its *)
(* sleep.                                                                  *)
(***************************************************************************)
NoSignalMissed ==
  /\ expc = "gatherWait" => ~candidate_gathering_done
  /\ expc = "negotiateWait" => ~negotiation_done

(* main leaves only after the thread, and the thread is told to stop only  *)
(* after the loop.                                                         *)
ExitInOrder ==
  /\ mainpc = "exited" => expc = "ended"
  /\ exit_thread => mainpc # "loop" /\ ~loopRuns
  /\ expc = "ended" => ~loopRuns

ExampleInv == NoSignalMissed /\ ExitInOrder

(* Every step of main, the callbacks and the thread keeps it.              *)
LEMMA ExampleStep == ExampleInv /\ [ExampleNext]_exampleVars => ExampleInv'
<1> SUFFICES ASSUME ExampleInv, [ExampleNext]_exampleVars PROVE ExampleInv'
  OBVIOUS
<1> USE DEF ExampleInv, NoSignalMissed, ExitInOrder
<1>1. CASE UNCHANGED exampleVars
  BY <1>1 DEF exampleVars
<1>2. CASE LoopReturns \/ ThreadJoined
  BY <1>2 DEF LoopReturns, ThreadJoined
<1>3. CASE cb_candidate_gathering_done
  BY <1>3 DEF cb_candidate_gathering_done, InLoop
<1>4. CASE cb_component_state_changed
  <2>1. CASE negotiation_done' = TRUE /\ expc' = IF expc = "negotiateWait" THEN "negotiate" ELSE expc
    BY <1>4, <2>1 DEF cb_component_state_changed, InLoop
  <2>2. CASE loopRuns' = FALSE /\ UNCHANGED <<negotiation_done, expc>>
    BY <1>4, <2>2 DEF cb_component_state_changed, InLoop
  <2> QED BY <1>4, <2>1, <2>2 DEF cb_component_state_changed
<1>5. CASE cb_nice_recv
  BY <1>5 DEF cb_nice_recv, InLoop
<1>6. CASE TestGathered
  BY <1>6 DEF TestGathered, Test
<1>7. CASE TestNegotiated
  BY <1>7 DEF TestNegotiated, Test
<1>8. CASE AfterWait \/ StopReading \/ End \/ WakeWithoutSignal \/ RemoteData \/ CtrlD
  BY <1>8 DEF AfterWait, StopReading, End, WakeWithoutSignal, RemoteData, CtrlD
<1> QED BY Zenon, <1>1, <1>2, <1>3, <1>4, <1>5, <1>6, <1>7, <1>8 DEF ExampleNext, ThreadRuns

(* No wakeup of the example thread is lost, and main does not leave while  *)
(* the thread still runs.                                                  *)
THEOREM ExampleSignalsKept == ExampleSpec => []NoSignalMissed /\ []ExitInOrder
<1>1. ExampleInit => ExampleInv
  BY DEF ExampleInit, ExampleInv, NoSignalMissed, ExitInOrder
<1> QED BY <1>1, ExampleStep, PTL DEF ExampleSpec, ExampleInv

-----------------------------------------------------------------------------
(***************************************************************************)
(* The descriptors of anet.c are all accounted for, with any number of     *)
(* descriptors and of addresses per name, and the echo server closes every *)
(* Send channel once, with any number of connections.                      *)
(***************************************************************************)
Statuses == {"closed", "new", "connecting", "connected", "listening"}
IsCall == anet = Call(anet.at, anet.kind, anet.nb, anet.src, anet.left, anet.s)
(* The call in progress has a socket of its own.                           *)
HasSocket == anet.at \in {"options", "bind", "connect", "listen"}
Own == IF HasSocket THEN {anet.s} ELSE {}

(* The socket of a call is open, new and not the caller's yet; apart from  *)
(* it the open descriptors are the caller's.                               *)
AnetInv ==
  /\ IsCall
  /\ sock \in [Fds -> Statuses] /\ held \subseteq Fds
  /\ HasSocket => anet.s \in Fds /\ anet.s \notin held /\ sock[anet.s] = "new"
  /\ \A fd \in held : sock[fd] # "closed"
  /\ ~optFailed => {fd \in Fds : sock[fd] # "closed"} = held \cup Own
  /\ ~bindFailed => \A fd \in held : sock[fd] # "new"

(* Handing the socket of the call to the caller, in a usable state.        *)
LEMMA ReturnKeepsInv ==
  ASSUME AnetInv, HasSocket, NEW status \in Statuses, status # "closed",
         status # "new" \/ bindFailed', Return(anet.s, status),
         optFailed' = optFailed, bindFailed => bindFailed'
  PROVE  AnetInv'
<1>1. /\ sock' = [sock EXCEPT ![anet.s] = status] /\ held' = held \cup {anet.s}
      /\ anet' = NoCall
  BY DEF Return, Set
<1>2. IsCall'
  BY <1>1 DEF NoCall, Call, IsCall
<1>3. ~HasSocket' /\ Own' = {}
  BY <1>1 DEF HasSocket, Own, NoCall, Call, IsCall
<1> QED BY Zenon, <1>1, <1>2, <1>3 DEF AnetInv, Own

(* Closing the socket of the call.                                         *)
LEMMA CloseKeepsInv ==
  ASSUME AnetInv, HasSocket, Set(anet.s, "closed"), held' = held,
         IsCall',
         ~HasSocket', optFailed => optFailed', bindFailed' = bindFailed
  PROVE  AnetInv'
<1>1. Own' = {} /\ Own = {anet.s}
  BY DEF Own
<1>2. sock' = [sock EXCEPT ![anet.s] = "closed"] /\ sock' \in [Fds -> Statuses]
  BY DEF Set, AnetInv, Statuses
<1>3. \A fd \in held' : sock'[fd] # "closed"
  BY <1>2 DEF AnetInv
<1>4. ASSUME ~optFailed'
      PROVE  {fd \in Fds : sock'[fd] # "closed"} = held' \cup Own'
  <2>1. {fd \in Fds : sock[fd] # "closed"} = held \cup {anet.s}
    BY <1>1, <1>4 DEF AnetInv
  <2> QED BY <2>1, <1>1, <1>2 DEF AnetInv
<1>5. ~bindFailed' => \A fd \in held' : sock'[fd] # "new"
  BY <1>2 DEF AnetInv
<1> QED BY Zenon, <1>1, <1>2, <1>3, <1>4, <1>5 DEF AnetInv

(* A step of a call that leaves all descriptors alone.                     *)
LEMMA MoveKeepsInv ==
  ASSUME AnetInv, UNCHANGED <<sock, held, optFailed, bindFailed>>,
         IsCall',
         HasSocket' <=> HasSocket, HasSocket => anet'.s = anet.s
  PROVE  AnetInv'
<1>1. Own' = Own
  BY DEF Own
<1> QED BY <1>1 DEF AnetInv

(* AnetInv is inductive, one step per system call.                         *)
LEMMA AnetStepKeepsInv == AnetInv /\ [AnetNext]_anetVars => AnetInv'
<1> SUFFICES ASSUME AnetInv, [AnetNext]_anetVars PROVE AnetInv'
  OBVIOUS
<1>1. CASE BeginCall
  <2>1. ~HasSocket /\ ~HasSocket'
    BY <1>1 DEF BeginCall, HasSocket, NoCall, Call, IsCall
  <2>2. IsCall'
    BY <1>1 DEF BeginCall, Call, IsCall
  <2> QED BY <1>1, <2>1, <2>2, MoveKeepsInv DEF BeginCall
<1>2. CASE Socket
  <2>1. ~HasSocket /\ Own = {}
    BY Zenon, <1>2 DEF Socket, HasSocket, Own
  <2>2. ASSUME NEW fd \in Closed, Set(fd, "new"), UNCHANGED held,
               anet' = [anet EXCEPT !.at = "options", !.s = fd]
        PROVE  AnetInv'
    <3>1. anet' = Call("options", anet.kind, anet.nb, anet.src, anet.left, fd)
      BY Zenon, <2>2 DEF AnetInv, Call, IsCall
    <3>2. /\ IsCall'
          /\ HasSocket' /\ anet'.s = fd
      BY <3>1 DEF Call, IsCall, HasSocket
    <3>3. Own' = {fd}
      BY <3>2 DEF Own
    <3>4. fd \in Fds /\ fd \notin held /\ sock[fd] = "closed"
      BY DEF Closed, AnetInv
    <3>5. sock' = [sock EXCEPT ![fd] = "new"] /\ sock' \in [Fds -> Statuses]
      BY <2>2, <3>4 DEF Set, AnetInv, Statuses
    <3>6. optFailed' = optFailed /\ bindFailed' = bindFailed
      BY Zenon, <1>2 DEF Socket
    <3>7. ASSUME ~optFailed
          PROVE  {x \in Fds : sock'[x] # "closed"} = held' \cup Own'
      <4>1. {x \in Fds : sock[x] # "closed"} = held
        BY <2>1, <3>7 DEF AnetInv
      <4> QED BY <4>1, <2>2, <3>3, <3>4, <3>5 DEF AnetInv
    <3> QED BY <2>2, <3>2, <3>4, <3>5, <3>6, <3>7 DEF AnetInv
  <2>3. ASSUME UNCHANGED <<sock, held>>,
               anet' = IF anet.left > 1 THEN [anet EXCEPT !.left = @ - 1] ELSE NoCall
        PROVE  AnetInv'
    <3>1. anet' \in {Call("socket", anet.kind, anet.nb, anet.src, anet.left - 1, anet.s), NoCall}
      BY <1>2, <2>3 DEF AnetInv, Call, IsCall, Socket
    <3>2. /\ IsCall'
          /\ ~HasSocket'
      BY <3>1 DEF Call, IsCall, NoCall, HasSocket
    <3> QED BY <1>2, <2>1, <2>3, <3>2, MoveKeepsInv DEF Socket
  <2> QED BY Zenon, <1>2, <2>2, <2>3 DEF Socket
<1>3. CASE Options
  <2>1. HasSocket
    BY <1>3 DEF Options, HasSocket
  <2>2. ASSUME NEW step \in {"bind", "connect", "listen"}, To(step), UNCHANGED optFailed
        PROVE  AnetInv'
    <3>1. anet' = Call(step, anet.kind, anet.nb, anet.src, anet.left, anet.s)
      BY <2>2 DEF To, AnetInv, Call, IsCall
    <3>2. /\ IsCall'
          /\ HasSocket' /\ anet'.s = anet.s
      BY <3>1 DEF Call, IsCall, HasSocket
    <3> QED BY <1>3, <2>1, <2>2, <3>2, MoveKeepsInv DEF Options, To
  <2>3. ASSUME Fail, optFailed' = TRUE
        PROVE  /\ IsCall'
               /\ ~HasSocket' /\ held' = held /\ optFailed'
    BY <2>3 DEF Fail, NoCall, Call, IsCall, HasSocket
  <2>4. CASE Set(anet.s, "closed") /\ Fail /\ optFailed' = TRUE
    BY <1>3, <2>1, <2>3, <2>4, CloseKeepsInv DEF Options
  <2>5. CASE UNCHANGED sock /\ Fail /\ optFailed' = TRUE
    BY Zenon, <1>3, <2>3, <2>5 DEF Options, AnetInv
  <2> QED BY Zenon, <1>3, <2>2, <2>4, <2>5 DEF Options
<1>4. CASE Bind
  <2>1. HasSocket
    BY <1>4 DEF Bind, HasSocket
  <2>2. CASE To("connect") /\ UNCHANGED bindFailed
    <3>1. anet' = Call("connect", anet.kind, anet.nb, anet.src, anet.left, anet.s)
      BY <2>2 DEF To, AnetInv, Call, IsCall
    <3>2. /\ IsCall'
          /\ HasSocket' /\ anet'.s = anet.s
      BY <3>1 DEF Call, IsCall, HasSocket
    <3> QED BY <1>4, <2>1, <2>2, <3>2, MoveKeepsInv DEF Bind, To
  <2>3. CASE Return(anet.s, "new") /\ bindFailed' = TRUE
    BY <1>4, <2>1, <2>3, ReturnKeepsInv DEF Statuses, Bind
  <2> QED BY Zenon, <1>4, <2>2, <2>3 DEF Bind
<1>5. CASE Connect
  <2>1. HasSocket /\ UNCHANGED <<optFailed, bindFailed>>
    BY <1>5 DEF Connect, HasSocket
  <2>2. CASE Return(anet.s, "connected") \/ Return(anet.s, "connecting")
    BY <2>1, <2>2, ReturnKeepsInv DEF Statuses
  <2>3. CASE Set(anet.s, "closed") /\ NextAddress /\ UNCHANGED held
    <3>1. anet' \in {Call("socket", anet.kind, anet.nb, anet.src, anet.left - 1, 0), NoCall}
      BY Zenon, <2>3 DEF NextAddress, AnetInv, Call, IsCall
    <3>2. /\ IsCall'
          /\ ~HasSocket'
      BY <3>1 DEF Call, IsCall, NoCall, HasSocket
    <3> QED BY <2>1, <2>3, <3>2, CloseKeepsInv
  <2> QED BY <1>5, <2>2, <2>3 DEF Connect
<1>6. CASE Listen
  <2>1. HasSocket /\ UNCHANGED <<optFailed, bindFailed>>
    BY <1>6 DEF Listen, HasSocket
  <2>2. CASE Return(anet.s, "listening")
    BY <2>1, <2>2, ReturnKeepsInv DEF Statuses
  <2>3. CASE Set(anet.s, "closed") /\ Fail
    <3>1. /\ IsCall'
          /\ ~HasSocket' /\ held' = held
      BY <2>3 DEF Fail, Call, IsCall, NoCall, HasSocket
    <3> QED BY <2>1, <2>3, <3>1, CloseKeepsInv
  <2> QED BY <1>6, <2>2, <2>3 DEF Listen
<1>7. ASSUME NEW fd \in Fds, CloseHeld(fd) PROVE AnetInv'
  <2>1. /\ anet = NoCall /\ anet' = anet /\ fd \in held /\ held' = held \ {fd}
        /\ sock' = [sock EXCEPT ![fd] = "closed"]
        /\ optFailed' = optFailed /\ bindFailed' = bindFailed
    BY <1>7 DEF CloseHeld, Set
  <2>2. ~HasSocket /\ ~HasSocket' /\ Own = {} /\ Own' = {}
    BY <2>1 DEF HasSocket, Own, NoCall, Call, IsCall
  <2>3. ASSUME ~optFailed
        PROVE  {x \in Fds : sock'[x] # "closed"} = held' \cup Own'
    <3>1. {x \in Fds : sock[x] # "closed"} = held
      BY <2>2, <2>3 DEF AnetInv
    <3> QED BY <3>1, <2>1, <2>2 DEF AnetInv
  <2> QED BY <2>1, <2>2, <2>3 DEF AnetInv, Statuses, IsCall
<1>8. ASSUME NEW fd \in Fds, Accept(fd) PROVE AnetInv'
  <2>1. PICK conn \in Closed : Return(conn, "connected")
    BY <1>8 DEF Accept
  <2>2. /\ anet = NoCall /\ anet' = anet /\ held' = held \cup {conn}
        /\ sock' = [sock EXCEPT ![conn] = "connected"]
        /\ optFailed' = optFailed /\ bindFailed' = bindFailed
        /\ conn \in Fds
    BY Zenon, <1>8, <2>1 DEF Accept, Return, Set, Closed
  <2>3. ~HasSocket /\ ~HasSocket' /\ Own = {} /\ Own' = {}
    BY <2>2 DEF HasSocket, Own, NoCall, Call, IsCall
  <2>4. ASSUME ~optFailed
        PROVE  {x \in Fds : sock'[x] # "closed"} = held' \cup Own'
    <3>1. {x \in Fds : sock[x] # "closed"} = held
      BY <2>3, <2>4 DEF AnetInv
    <3> QED BY <3>1, <2>2, <2>3 DEF AnetInv
  <2> QED BY <2>2, <2>3, <2>4 DEF AnetInv, Statuses, IsCall
<1>9. CASE UNCHANGED anetVars
  BY <1>9 DEF anetVars, AnetInv, HasSocket, Own, IsCall, Call
<1> QED BY <1>1, <1>2, <1>3, <1>4, <1>5, <1>6, <1>7, <1>8, <1>9 DEF AnetNext

(* With any number of descriptors and addresses, no path through a call of *)
(* anet.c loses a descriptor between calls as long as no socket option     *)
(* fails, and unless a source address cannot be bound every descriptor     *)
(* returned is usable.                                                     *)
THEOREM NoSocketIsLost == AnetSpec => []DescriptorsAccounted
<1>1. AnetInit => AnetInv
  <2> SUFFICES ASSUME AnetInit PROVE AnetInv
    OBVIOUS
  <2>1. /\ IsCall
        /\ ~HasSocket
    BY DEF AnetInit, NoCall, Call, IsCall, HasSocket
  <2>2. Own = {}
    BY <2>1 DEF Own
  <2> QED BY <2>1, <2>2 DEF AnetInit, AnetInv, Statuses
<1>2. AnetInv => DescriptorsAccounted
  <2> SUFFICES ASSUME AnetInv PROVE DescriptorsAccounted
    OBVIOUS
  <2>1. ASSUME anet = NoCall, ~optFailed PROVE held = Fds \ Closed
    <3>1. Own = {}
      BY <2>1 DEF Own, HasSocket, NoCall, Call, IsCall
    <3>2. {fd \in Fds : sock[fd] # "closed"} = held
      BY <2>1, <3>1 DEF AnetInv
    <3> QED BY <3>2 DEF Closed
  <2>2. ReturnedIsUsable
    BY DEF ReturnedIsUsable, AnetInv
  <2> QED BY <2>1, <2>2 DEF DescriptorsAccounted, NoDescriptorLost
<1> QED BY <1>1, <1>2, AnetStepKeepsInv, PTL DEF AnetSpec

-----------------------------------------------------------------------------
(* Where the goroutine of a connection can be.                             *)
EchoTypes ==
  /\ client \in [Sockets -> {"new", "register", "refused", "read", "unregister",
                             "deferred", "returned"}]
  /\ closes \in [Sockets -> Nat]

(* With any number of connections, the two Unregisters of a client close   *)
(* its Send channel once, and the manager forgets it with the first.       *)
THEOREM SendIsClosedOnce == EchoSpec => []SendClosedOnce
<1> DEFINE Inv == EchoTypes /\ SendClosedOnce
<1>1. EchoInit => Inv
  BY DEF EchoInit, EchoTypes, SendClosedOnce
<1>2. Inv /\ [EchoNext]_echoVars => Inv'
  <2> SUFFICES ASSUME Inv, [EchoNext]_echoVars PROVE Inv'
    OBVIOUS
  <2>1. ASSUME NEW c \in Sockets, handleEcho(c) PROVE Inv'
    BY <2>1 DEF handleEcho, Goes, EchoTypes, SendClosedOnce
  <2>2. ASSUME NEW c \in Sockets, Register(c) PROVE Inv'
    BY <2>2 DEF Register, Goes, EchoTypes, SendClosedOnce
  <2>3. ASSUME NEW c \in Sockets, ReadFails(c) PROVE Inv'
    BY <2>3 DEF ReadFails, Goes, EchoTypes, SendClosedOnce
  <2>4. ASSUME NEW c \in Sockets, Unregister(c) PROVE Inv'
    BY <2>4 DEF Unregister, Goes, EchoTypes, SendClosedOnce
  <2>5. CASE UNCHANGED echoVars
    BY <2>5 DEF echoVars, EchoTypes, SendClosedOnce
  <2> QED BY <2>1, <2>2, <2>3, <2>4, <2>5 DEF EchoNext
<1> QED BY <1>1, <1>2, PTL DEF EchoSpec

-----------------------------------------------------------------------------
(***************************************************************************)
(* epoll/server.c.  In either mode a connection with something to receive  *)
(* will be looked at: it is in the batch in progress, or the next          *)
(* epoll_wait reports it.  Level-triggered that is the kernel's business;  *)
(* edge-triggered it rests on et receiving until nothing is left, since no *)
(* edge comes for what it leaves.                                          *)
(***************************************************************************)
ArrivedIsPending ==
  \A c \in Peers : peer[c] = "open" /\ Readable(c) => c \in Reported \cup events

(* A connection is closed at the end of its stream and no sooner: all the  *)
(* client ever sent was received.                                          *)
ClosedIsComplete ==
  \A c \in Peers : peer[c] = "closed" => eof[c] /\ got[c] = sent[c]

EpollTypes ==
  /\ isEt \in BOOLEAN
  /\ peer \in [Peers -> {"none", "backlog", "open", "closed"}]
  /\ sent \in [Peers -> Nat] /\ got \in [Peers -> Nat]
  /\ eof \in [Peers -> BOOLEAN]
  /\ edges \subseteq Peers \cup {"listen"} /\ events \subseteq Peers \cup {"listen"}

(* A socket waits in a batch or for a report only while it is open; lt     *)
(* still finds something on every socket of its batch.                     *)
ConnectionRight(c) ==
  /\ got[c] <= sent[c]
  /\ c \in edges \cup events => peer[c] = "open"
  /\ ~isEt /\ c \in events => Readable(c)
  /\ isEt /\ peer[c] = "open" /\ Readable(c) => c \in edges \cup events
  /\ peer[c] = "closed" => eof[c] /\ got[c] = sent[c]
EpollInv == EpollTypes /\ \A c \in Peers : ConnectionRight(c)

(* The invariant says what is meant, in both modes.                        *)
LEMMA EpollMeaning == EpollInv => ArrivedIsPending /\ ClosedIsComplete
BY DEF EpollInv, EpollTypes, ConnectionRight, ArrivedIsPending, ClosedIsComplete, Reported

(* What one recv takes is what was sent, up to the buffer.                 *)
LEMMA ReceivedSome ==
  ASSUME EpollTypes, NEW c \in Peers, got[c] <= sent[c], sent[c] > got[c], Received(c)
  PROVE  /\ got' \in [Peers -> Nat] /\ got'[c] <= sent[c]
         /\ \A d \in Peers : d # c => got'[d] = got[d]
BY EpollAssumption DEF EpollTypes, Received

(* Every step of the clients, the kernel and the server keeps it.          *)
LEMMA EpollStep == EpollInv /\ [EpollNext]_epollVars => EpollInv'
<1> SUFFICES ASSUME EpollInv, [EpollNext]_epollVars PROVE EpollInv'
  OBVIOUS
<1>0. EpollTypes /\ (\A d \in Peers : ConnectionRight(d)) /\ "listen" \notin Peers
  BY EpollAssumption DEF EpollInv
<1> USE DEF ConnectionRight, Readable
<1>1. CASE UNCHANGED epollVars
  BY Zenon, <1>0, <1>1 DEF EpollInv, EpollTypes, epollVars
<1>2. ASSUME NEW c \in Peers, Dial(c) PROVE EpollInv'
  BY Zenon, <1>0, <1>2 DEF EpollInv, EpollTypes, Dial
<1>3. ASSUME NEW c \in Peers, Send(c) PROVE EpollInv'
  <2>1. EpollTypes'
    BY <1>0, <1>3 DEF EpollTypes, Send, Edge
  <2>2. ASSUME NEW d \in Peers PROVE ConnectionRight(d)'
    BY <1>0, <1>3 DEF EpollTypes, Send, Edge
  <2> QED BY Zenon, <2>1, <2>2 DEF EpollInv
<1>4. ASSUME NEW c \in Peers, Hangup(c) PROVE EpollInv'
  <2>1. EpollTypes'
    BY <1>0, <1>4 DEF EpollTypes, Hangup, Edge
  <2>2. ASSUME NEW d \in Peers PROVE ConnectionRight(d)'
    BY <1>0, <1>4 DEF EpollTypes, Hangup, Edge
  <2> QED BY Zenon, <2>1, <2>2 DEF EpollInv
<1>5. CASE epoll_wait
  <2>1. EpollTypes'
    BY <1>0, <1>5 DEF EpollTypes, epoll_wait, Reported
  <2>2. ASSUME NEW d \in Peers PROVE ConnectionRight(d)'
    BY <1>0, <1>5 DEF EpollTypes, epoll_wait, Reported
  <2> QED BY Zenon, <2>1, <2>2 DEF EpollInv
<1>6. CASE AcceptOne
  <2>1. PICK c \in Peers :
          /\ peer[c] = "backlog" /\ peer' = [peer EXCEPT ![c] = "open"]
          /\ edges' = IF isEt /\ Readable(c) THEN edges \cup {c} ELSE edges
    BY Zenon, <1>6 DEF AcceptOne
  <2>2. events' = events \ {"listen"} /\ UNCHANGED <<isEt, sent, eof, got>>
    BY Zenon, <1>6 DEF AcceptOne
  <2>3. EpollTypes'
    BY <1>0, <2>1, <2>2 DEF EpollTypes
  <2>4. ASSUME NEW d \in Peers PROVE ConnectionRight(d)'
    BY <1>0, <2>1, <2>2 DEF EpollTypes
  <2> QED BY Zenon, <2>3, <2>4 DEF EpollInv
<1>7. ASSUME NEW c \in Peers, LtRecv(c) PROVE EpollInv'
  <2>1. CASE sent[c] > got[c]
    <3>1. /\ Received(c) /\ UNCHANGED <<peer, isEt, sent, eof>> /\ ~isEt
          /\ events' = events \ {c} /\ edges' \subseteq edges
      BY Zenon, <1>7, <2>1 DEF LtRecv
    <3>2. /\ got' \in [Peers -> Nat] /\ got'[c] <= sent[c] /\ c \in events
          /\ \A d \in Peers : d # c => got'[d] = got[d]
      BY <1>0, <1>7, <2>1, <3>1, ReceivedSome DEF LtRecv
    <3>3. EpollTypes'
      BY <1>0, <3>1, <3>2 DEF EpollTypes
    <3>4. ASSUME NEW d \in Peers PROVE ConnectionRight(d)'
      BY <1>0, <3>1, <3>2 DEF EpollTypes
    <3> QED BY Zenon, <3>3, <3>4 DEF EpollInv
  <2>2. CASE ~(sent[c] > got[c])
    <3>1. /\ peer' = [peer EXCEPT ![c] = "closed"] /\ UNCHANGED <<got, isEt, sent, eof>>
          /\ ~isEt /\ c \in events /\ events' = events \ {c} /\ edges' = edges \ {c}
      BY <1>0, <1>7, <2>2 DEF LtRecv, EpollTypes
    <3>2. eof[c] /\ got[c] = sent[c]
      BY <1>0, <2>2, <3>1 DEF EpollTypes
    <3>3. EpollTypes'
      BY <1>0, <3>1 DEF EpollTypes
    <3>4. ASSUME NEW d \in Peers PROVE ConnectionRight(d)'
      BY <1>0, <3>1, <3>2 DEF EpollTypes
    <3> QED BY Zenon, <3>3, <3>4 DEF EpollInv
  <2> QED BY <2>1, <2>2
<1>8. ASSUME NEW c \in Peers, EtRecv(c) PROVE EpollInv'
  <2>1. CASE sent[c] > got[c]
    <3>1. Received(c) /\ UNCHANGED <<peer, isEt, sent, eof, edges, events>> /\ isEt /\ c \in events
      BY Zenon, <1>8, <2>1 DEF EtRecv
    <3>2. /\ got' \in [Peers -> Nat] /\ got'[c] <= sent[c]
          /\ \A d \in Peers : d # c => got'[d] = got[d]
      BY <1>0, <2>1, <3>1, ReceivedSome
    <3>3. EpollTypes'
      BY <1>0, <3>1, <3>2 DEF EpollTypes
    <3>4. ASSUME NEW d \in Peers PROVE ConnectionRight(d)'
      BY <1>0, <3>1, <3>2 DEF EpollTypes
    <3> QED BY Zenon, <3>3, <3>4 DEF EpollInv
  <2>2. CASE ~(sent[c] > got[c])
    <3>1. /\ peer' = [peer EXCEPT ![c] = IF eof[c] THEN "closed" ELSE @]
          /\ edges' = (IF eof[c] THEN edges \ {c} ELSE edges)
          /\ events' = events \ {c} /\ UNCHANGED <<got, isEt, sent, eof>> /\ isEt
      BY Zenon, <1>8, <2>2 DEF EtRecv
    <3>2. got[c] = sent[c]
      BY <1>0, <2>2 DEF EpollTypes
    <3>3. EpollTypes'
      BY <1>0, <3>1 DEF EpollTypes
    <3>4. ASSUME NEW d \in Peers PROVE ConnectionRight(d)'
      BY <1>0, <3>1, <3>2 DEF EpollTypes
    <3> QED BY Zenon, <3>3, <3>4 DEF EpollInv
  <2> QED BY <2>1, <2>2
<1> QED BY <1>1, <1>2, <1>3, <1>4, <1>5, <1>6, <1>7, <1>8 DEF EpollNext, ServerStep

(* For any number of clients, any buffer and any amount sent: no arrival   *)
(* is overlooked, and no connection is closed before all was received.     *)
THEOREM NoArrivalOverlooked == EpollSpec => []ArrivedIsPending /\ []ClosedIsComplete
<1>1. EpollInit => EpollInv
  BY EpollAssumption DEF EpollInit, EpollInv, EpollTypes, ConnectionRight, Readable
<1> QED BY <1>1, EpollStep, EpollMeaning, PTL DEF EpollSpec
=============================================================================
