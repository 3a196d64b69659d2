---------------------------- MODULE TimerTrigger ----------------------------
(***************************************************************************)
(* acl/include/acl_cpp/stdlib/trigger.hpp: thread_trigger, a thread that   *)
(* takes timed objects from a mailbox and calls on_trigger when they are   *)
(* due, and the timer_trigger it keeps them in.  Other threads add objects *)
(* through the mailbox and delete them through a list under lock_.  Times  *)
(* are relative to the clock: Tick lowers them.  The items of one time are *)
(* not kept apart; an object's key is the time it is scheduled for.        *)
(***************************************************************************)
EXTENDS Integers, Sequences, FiniteSets

CONSTANTS
  Objs,         \* the timed objects
  Ttl,          \* get_ttl of each object
  IdleDelay     \* the delay with no object scheduled (100 ms in the code)

ASSUME TtlAssumption == Ttl \in [Objs -> Nat \ {0}] /\ IdleDelay \in Nat \ {0}

VARIABLES
  mbox,         \* mbox_: objects added and not yet taken
  timer_del,    \* timer_del_: deletions requested and not yet carried out
  sched,        \* the time left for each scheduled object; -1 is overdue
  delay,        \* what is left of delay_ while the thread waits in pop
  trpc,         \* the thread: in "pop", before "trigger", in "fire" with the
                \* objects due, or before "delete"
  due,          \* the objects taken out of items_ and not called yet
  used,         \* history: objects whose owner has added them and not yet
                \* deleted them
  deleted,      \* history: objects whose deletion was carried out
  slow          \* history: time has passed while the thread was busy

triggerVars == <<mbox, timer_del, sched, delay, trpc, due, used, deleted, slow>>

Off == -2
Scheduled == {o \in Objs : sched[o] # Off}
Waiting == {mbox[i] : i \in DOMAIN mbox}
Lowest(S) == CHOOSE d \in S : \A e \in S : d <= e
(* timer_trigger::add, and ::del of several objects: one that is not       *)
(* scheduled is not found.                                                 *)
TimerAdd(o) == [sched EXCEPT ![o] = Ttl[o]]
TimerDel(S) == [o \in Objs |-> IF o \in S THEN Off ELSE sched[o]]

-----------------------------------------------------------------------------
(* The owner of an object: thread_trigger::add and ::del.  An object is    *)
(* added once at a time and deleted at most once after that.               *)
add(o) ==
  /\ o \notin used \cup Scheduled \cup due \cup timer_del \cup Waiting
  /\ mbox' = Append(mbox, o) /\ used' = used \cup {o} /\ deleted' = deleted \ {o}
  /\ UNCHANGED <<timer_del, sched, delay, trpc, due, slow>>
del(o) ==
  /\ o \in used
  /\ timer_del' = timer_del \cup {o} /\ used' = used \ {o}
  /\ UNCHANGED <<mbox, sched, delay, trpc, due, deleted, slow>>

(* mbox_.pop(delay_), one object per round.                                *)
PopObject ==
  /\ trpc = "pop" /\ mbox # << >>
  /\ sched' = TimerAdd(Head(mbox))
  /\ mbox' = Tail(mbox) /\ trpc' = "trigger"
  /\ UNCHANGED <<timer_del, delay, due, used, deleted, slow>>
PopTimesOut ==
  /\ trpc = "pop" /\ mbox = << >> /\ delay = 0
  /\ trpc' = "trigger"
  /\ UNCHANGED <<mbox, timer_del, sched, delay, due, used, deleted, slow>>

(* timer_trigger::trigger: everything due leaves items_ first.             *)
TakeDue ==
  /\ trpc = "trigger"
  /\ due' = {o \in Scheduled : sched[o] <= 0}
  /\ sched' = TimerDel(due')
  /\ trpc' = "fire"
  /\ UNCHANGED <<mbox, timer_del, delay, used, deleted, slow>>
(* on_trigger, which says whether the object wants to be called again.     *)
Fire(o) ==
  /\ trpc = "fire" /\ o \in due
  /\ due' = due \ {o}
  /\ \/ sched' = TimerAdd(o) /\ UNCHANGED used
     \/ UNCHANGED sched /\ used' = used \ {o}
  /\ UNCHANGED <<mbox, timer_del, delay, trpc, deleted, slow>>
(* Mutant: the thread sleeps its idle delay whatever is scheduled.         *)
NextDelayIdle ==
  /\ trpc = "fire" /\ due = {}
  /\ delay' = IdleDelay
  /\ trpc' = "delete"
  /\ UNCHANGED <<mbox, timer_del, sched, due, used, deleted, slow>>
NextDelay ==
  /\ trpc = "fire" /\ due = {}
  /\ delay' = IF Scheduled = {} THEN IdleDelay
              ELSE LET next == Lowest({sched[o] : o \in Scheduled})
                   IN  IF next < 0 THEN 1 ELSE next
  /\ trpc' = "delete"
  /\ UNCHANGED <<mbox, timer_del, sched, due, used, deleted, slow>>
(* Mutant: the deletions are taken off the list and not carried out.       *)
DropDeletions ==
  /\ trpc = "delete"
  /\ timer_del' = {} /\ trpc' = "pop"
  /\ deleted' = deleted \cup timer_del
  /\ UNCHANGED <<sched, mbox, delay, due, used, slow>>
(* The list of deletions, all of them in each round.                       *)
CarryOutDeletions ==
  /\ trpc = "delete"
  /\ sched' = TimerDel(timer_del)
  /\ timer_del' = {} /\ trpc' = "pop"
  /\ deleted' = deleted \cup timer_del
  /\ UNCHANGED <<mbox, delay, due, used, slow>>

Tick ==
  /\ sched' = [o \in Objs |-> IF sched[o] >= 0 THEN sched[o] - 1 ELSE sched[o]]
  /\ delay' = IF trpc = "pop" /\ delay > 0 THEN delay - 1 ELSE delay
  /\ slow' = (slow \/ ~(trpc = "pop" /\ mbox = << >> /\ delay > 0))
  /\ UNCHANGED <<mbox, timer_del, trpc, due, used, deleted>>

-----------------------------------------------------------------------------
TriggerInit ==
  /\ mbox = << >> /\ timer_del = {} /\ due = {} /\ used = {} /\ deleted = {}
  /\ sched = [o \in Objs |-> Off] /\ delay = IdleDelay /\ trpc = "pop" /\ slow = FALSE
TriggerStep ==
  \/ PopObject \/ PopTimesOut \/ TakeDue \/ (\E o \in Objs : Fire(o))
  \/ NextDelay \/ CarryOutDeletions
TriggerNext == (\E o \in Objs : add(o) \/ del(o)) \/ TriggerStep \/ Tick
(* The thread runs, and time passes.                                       *)
TriggerFairness == WF_triggerVars(TriggerStep) /\ WF_triggerVars(Tick)
TriggerSpec == TriggerInit /\ [][TriggerNext]_triggerVars /\ TriggerFairness

-----------------------------------------------------------------------------
(* As long as no time passes while the thread is busy, no object is ever   *)
(* overdue: the delay always ends at the next time to call one, also when  *)
(* adds and deletions change which one that is.                            *)
NeverOverdue == ~slow => \A o \in Scheduled : sched[o] >= 0

(* An object that was added is called, or its owner deletes it first,      *)
(* although a round of the thread takes one object from the mailbox; and a *)
(* deletion requested once its object has left the mailbox is carried out, *)
(* although on_trigger may ask for another call each time until then.      *)
RequestsAreServed ==
  \A o \in Objs :
    /\ (o \in used) ~> (o \in due \/ o \notin used)
    /\ (o \in timer_del /\ o \notin Waiting) ~> (o \notin Scheduled \cup due)

(* The comment on thread_trigger::del says that the object is put on a     *)
(* list and then deleted from the timer: after that it is not called.      *)
DeletedIsNotCalled == due \cap deleted = {}
=============================================================================
