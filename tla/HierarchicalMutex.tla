------------------------- MODULE HierarchicalMutex --------------------------
(***************************************************************************)
(* The hierarchical_mutex of chap3/3_8.cpp: a thread may lock a mutex only *)
(* if its level is below the thread's current one, which the lock lowers   *)
(* and the unlock restores.  A call that breaks the rule throws before it  *)
(* changes anything, and is no step here.                                  *)
(***************************************************************************)
EXTENDS Naturals

CONSTANTS
  Threads, Mutexes,
  hierarchy_value,   \* the level of each mutex
  ULONG_MAX,         \* the level of a thread that holds nothing
  None               \* no thread, or no mutex

ASSUME LevelAssumption ==
  /\ ULONG_MAX \in Nat
  /\ hierarchy_value \in [Mutexes -> 0..ULONG_MAX]
ASSUME NoneAssumption == None \notin Threads /\ None \notin Mutexes

VARIABLES
  internal_mutex,              \* the thread that holds each mutex
  previous_hierarchy_value,
  this_thread_hierarchy_value,
  wants,        \* the mutex a thread in lock() waits for, after the check
  below         \* history: what its owner held when it locked a mutex

mutexVars == <<internal_mutex, previous_hierarchy_value,
               this_thread_hierarchy_value, wants, below>>

Held(t) == {m \in Mutexes : internal_mutex[m] = t}

-----------------------------------------------------------------------------
(* Mutant: the check lets the same level through.                          *)
CheckSameLevel(t, m) == this_thread_hierarchy_value[t] >= hierarchy_value[m]
check_for_hierarchy_violation(t, m) ==
  this_thread_hierarchy_value[t] > hierarchy_value[m]

update_hierarchy_value(t, m) ==
  /\ previous_hierarchy_value' =
       [previous_hierarchy_value EXCEPT ![m] = this_thread_hierarchy_value[t]]
  /\ this_thread_hierarchy_value' =
       [this_thread_hierarchy_value EXCEPT ![t] = hierarchy_value[m]]

Locked(t, m) ==
  /\ internal_mutex' = [internal_mutex EXCEPT ![m] = t]
  /\ below' = [below EXCEPT ![m] = Held(t)]
  /\ update_hierarchy_value(t, m)

(* lock(): the check, and the lock with the update once the mutex is free. *)
Check(t, m) ==
  /\ wants[t] = None /\ check_for_hierarchy_violation(t, m)
  /\ wants' = [wants EXCEPT ![t] = m]
  /\ UNCHANGED <<internal_mutex, previous_hierarchy_value,
                 this_thread_hierarchy_value, below>>
Lock(t, m) ==
  /\ wants[t] = m /\ internal_mutex[m] = None
  /\ wants' = [wants EXCEPT ![t] = None]
  /\ Locked(t, m)
(* A try_lock that finds the mutex taken changes nothing.                  *)
try_lock(t, m) ==
  /\ wants[t] = None /\ check_for_hierarchy_violation(t, m)
  /\ internal_mutex[m] = None
  /\ Locked(t, m)
  /\ UNCHANGED wants

unlock(t, m) ==
  /\ wants[t] = None /\ internal_mutex[m] = t
  /\ this_thread_hierarchy_value' =
       [this_thread_hierarchy_value EXCEPT ![t] = previous_hierarchy_value[m]]
  /\ internal_mutex' = [internal_mutex EXCEPT ![m] = None]
  /\ UNCHANGED <<previous_hierarchy_value, wants, below>>

-----------------------------------------------------------------------------
MutexInit ==
  /\ internal_mutex = [m \in Mutexes |-> None]
  /\ previous_hierarchy_value = [m \in Mutexes |-> 0]
  /\ this_thread_hierarchy_value = [t \in Threads |-> ULONG_MAX]
  /\ wants = [t \in Threads |-> None]
  /\ below = [m \in Mutexes |-> {}]

Acquire(t, m) == Check(t, m) \/ Lock(t, m) \/ try_lock(t, m)
(* lock_guard unlocks the mutex that was locked last.                      *)
UnlockLast(t, m) == (\A n \in Held(t) : m \notin below[n]) /\ unlock(t, m)
MutexNext == \E t \in Threads, m \in Mutexes : Acquire(t, m) \/ UnlockLast(t, m)
MutexSpec == MutexInit /\ [][MutexNext]_mutexVars

-----------------------------------------------------------------------------
MutexTypeOK ==
  /\ internal_mutex \in [Mutexes -> Threads \cup {None}]
  /\ previous_hierarchy_value \in [Mutexes -> Nat]
  /\ this_thread_hierarchy_value \in [Threads -> Nat]
  /\ wants \in [Threads -> Mutexes \cup {None}]
  /\ below \in [Mutexes -> SUBSET Mutexes]

(* The comment on this_thread_hierarchy_value: it is the level of the      *)
(* thread, that is, the lowest of the mutexes it holds.                    *)
ThreadValueIsCurrent ==
  \A t \in Threads, m \in Mutexes :
    internal_mutex[m] = t => this_thread_hierarchy_value[t] <= hierarchy_value[m]

(* A thread waits only for a mutex below all that it holds: what the check *)
(* established still holds when the mutex becomes free.                    *)
WaitsDownward ==
  \A t \in Threads, m \in Mutexes :
    wants[t] # None /\ internal_mutex[m] = t =>
      hierarchy_value[wants[t]] < hierarchy_value[m]

(* The purpose of the hierarchy: there is no set of threads each of which  *)
(* waits for a mutex that another of them holds.                           *)
NoCircularWait ==
  ~\E S \in (SUBSET Threads) \ {{}} :
     \A t \in S : wants[t] # None /\ internal_mutex[wants[t]] \in S
=============================================================================
