-------------------------- MODULE ThreadSafeQueue ---------------------------
(***************************************************************************)
(* The queues of C++11/Cpp-Concurrency-in-Action: thread_safe_queue, which *)
(* stores shared pointers, and threadsafe_queue (chap6, and the same class *)
(* in chap4/4_5.cpp), whose wait_and_pop allocates its result.  Everything *)
(* a call does with the queue happens under the mutex, so a call is one    *)
(* step, and wait_and_pop two: up to its wait, and after it.               *)
(* Items are numbered in the order in which push gets the mutex.           *)
(***************************************************************************)
EXTENDS Naturals, Sequences, FiniteSets

CONSTANTS
  Consumers,    \* the threads that pop
  MaxPush       \* bound: items pushed in a run

ASSUME QueueAssumption == IsFiniteSet(Consumers) /\ MaxPush \in Nat

VARIABLES
  queue,        \* m_queue
  cpc,          \* each consumer: "idle", "blocked" in the wait, or "woken"
  pushed, last, \* history: items pushed so far, the item popped last
  thrown        \* history: a wait_and_pop has thrown

queueVars == <<queue, cpc, pushed, last, thrown>>

Blocked == {c \in Consumers : cpc[c] = "blocked"}
Woken == {c \in Consumers : cpc[c] = "woken"}

-----------------------------------------------------------------------------
notify_one ==
  IF Blocked = {} THEN UNCHANGED cpc
  ELSE \E c \in Blocked : cpc' = [cpc EXCEPT ![c] = "woken"]

(* Mutants: the notification is given for the first item of an empty queue *)
(* only; the item goes to the wrong end.                                   *)
PushNotifyingFirst ==
  /\ pushed < MaxPush
  /\ queue' = Append(queue, pushed + 1) /\ pushed' = pushed + 1
  /\ IF queue = <<>> THEN notify_one ELSE UNCHANGED cpc
  /\ UNCHANGED <<last, thrown>>
PushFront ==
  /\ pushed < MaxPush
  /\ queue' = <<pushed + 1>> \o queue /\ pushed' = pushed + 1
  /\ notify_one
  /\ UNCHANGED <<last, thrown>>
push ==
  /\ pushed < MaxPush
  /\ queue' = Append(queue, pushed + 1) /\ pushed' = pushed + 1
  /\ notify_one
  /\ UNCHANGED <<last, thrown>>

Take(c) ==
  /\ last' = Head(queue) /\ queue' = Tail(queue)
  /\ cpc' = [cpc EXCEPT ![c] = "idle"]
  /\ UNCHANGED <<pushed, thrown>>
(* The allocation of the result fails: only in threadsafe_queue.           *)
Throw(c) ==
  /\ thrown' = TRUE
  /\ cpc' = [cpc EXCEPT ![c] = "idle"]
  /\ UNCHANGED <<queue, pushed, last>>

(* With the mutex, before the wait and after a wake-up.                    *)
TestAndPop(c) ==
  IF queue = <<>>
    THEN cpc' = [cpc EXCEPT ![c] = "blocked"] /\ UNCHANGED <<queue, pushed, last, thrown>>
    ELSE Take(c) \/ Throw(c)
wait_and_pop(c) == cpc[c] = "idle" /\ TestAndPop(c)
Resume(c) == cpc[c] = "woken" /\ TestAndPop(c)
WakeSpuriously(c) ==
  /\ cpc[c] = "blocked"
  /\ cpc' = [cpc EXCEPT ![c] = "woken"]
  /\ UNCHANGED <<queue, pushed, last, thrown>>

(* try_pop of an empty queue changes nothing.                              *)
try_pop(c) == cpc[c] = "idle" /\ queue # <<>> /\ Take(c)

-----------------------------------------------------------------------------
QueueInit ==
  /\ queue = <<>> /\ pushed = 0 /\ last = 0 /\ thrown = FALSE
  /\ cpc = [c \in Consumers |-> "idle"]
QueueNext ==
  \/ push
  \/ \E c \in Consumers : wait_and_pop(c) \/ Resume(c) \/ WakeSpuriously(c) \/ try_pop(c)
QueueSpec == QueueInit /\ [][QueueNext]_queueVars

-----------------------------------------------------------------------------
QueueTypeOK ==
  /\ queue \in Seq(Nat) /\ pushed \in Nat /\ last \in Nat
  /\ thrown \in BOOLEAN
  /\ cpc \in [Consumers -> {"idle", "blocked", "woken"}]

(* First in, first out: the queue holds, in order, exactly the items that  *)
(* come after the one popped last; none is lost, also when wait_and_pop    *)
(* throws, and none is popped twice.                                       *)
InOrder ==
  /\ Len(queue) = pushed - last
  /\ \A i \in 1..Len(queue) : queue[i] = last + i

(* As long as no wait_and_pop has thrown, and so always in the queue of    *)
(* pointers: while a thread sleeps in it, every item in the queue has a    *)
(* thread that was woken and will come for it, although push notifies one  *)
(* thread only, try_pop and late callers take items from the woken ones,   *)
(* and threads wake without reason.                                        *)
NoLostWakeup == ~thrown /\ Blocked # {} => Cardinality(Woken) >= Len(queue)

=============================================================================
