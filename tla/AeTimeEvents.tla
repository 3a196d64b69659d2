---------------------------- MODULE AeTimeEvents ----------------------------
(***************************************************************************)
(* The time events of ae.c: the unsorted list timeEventHead, the pass that *)
(* processTimeEvents makes over it while handlers create and delete time   *)
(* events, and the sleep that aeProcessEvents derives from the nearest     *)
(* timer.  The wall clock is read anew for every event; it may advance and *)
(* may be set, forwards or back, between any two steps.                    *)
(*                                                                         *)
(* A handler that deletes its own event returns AE_NOMORE: after any other *)
(* result processTimeEvents writes the next deadline into the event.       *)
(***************************************************************************)
EXTENDS Integers, Sequences

CONSTANTS
  MsPerSec,     \* 1000 in the code
  FirstSec,     \* the clock runs from this second, which is after 0,
  LastSec,      \* to this one
  Delays,       \* the delays, in milliseconds, that timers are armed with
  MaxEvents     \* bound: time events created in a run

ASSUME MsPerSecAssumption == MsPerSec \in Nat \ {0}
ASSUME FirstSecAssumption == FirstSec \in Nat \ {0}
ASSUME LastSecAssumption == LastSec \in Nat
ASSUME DelaysAssumption == Delays \subseteq Nat

VARIABLES
  now,          \* the wall clock: seconds and milliseconds
  timers,       \* the list from timeEventHead on
  nextId,       \* eventLoop->timeEventNextId
  lastTime,     \* eventLoop->lastTime
  tpc,          \* "idle", "scan", or "call" inside a handler
  te,           \* the position of te in the list
  cur,          \* the id whose handler runs
  maxId,        \* the largest id this pass handles
  owed,         \* history: ids that this pass has still to run
  skew,         \* history: this pass found the clock set back
  setback,      \* history: the clock was set back during this pass
  bornFrom      \* history: the ids from here on were created in this pass

passVars == <<tpc, te, cur, maxId, owed, skew, setback, bornFrom>>
timeVars == <<now, timers, nextId, lastTime, tpc, te, cur, maxId, owed,
              skew, setback, bornFrom>>

-----------------------------------------------------------------------------
TotalMs(t) == t.sec * MsPerSec + t.ms
Ids == {timers[k].id : k \in DOMAIN timers}

(* Mutant: the carry into the seconds is dropped.                          *)
aeAddMillisecondsToNowNoCarry(milliseconds) ==
  [sec |-> now.sec + (milliseconds \div MsPerSec),
   ms |-> now.ms + (milliseconds % MsPerSec)]
aeAddMillisecondsToNow(milliseconds) ==
  LET when_sec == now.sec + (milliseconds \div MsPerSec)
      when_ms == now.ms + (milliseconds % MsPerSec)
  IN IF when_ms >= MsPerSec THEN [sec |-> when_sec + 1, ms |-> when_ms - MsPerSec]
                            ELSE [sec |-> when_sec, ms |-> when_ms]

(* An event carries its deadline; due is the time, in milliseconds, before *)
(* which it must not run.                                                  *)
Armed(id, milliseconds) ==
  LET when == aeAddMillisecondsToNow(milliseconds)
  IN [id |-> id, sec |-> when.sec, ms |-> when.ms,
      due |-> TotalMs(now) + milliseconds]

(* The new event goes to the head of the list.                             *)
aeCreateTimeEvent(milliseconds) ==
  /\ nextId < MaxEvents
  /\ nextId' = nextId + 1
  /\ timers' = <<Armed(nextId, milliseconds)>> \o timers

(* The list without its k-th event.                                        *)
Unlink(list, k) == SubSeq(list, 1, k - 1) \o SubSeq(list, k + 1, Len(list))

(* The first event with the id is unlinked and freed.                      *)
aeDeleteTimeEvent(id) ==
  \E k \in DOMAIN timers :
    /\ timers[k].id = id
    /\ \A m \in 1..(k - 1) : timers[m].id # id
    /\ timers' = Unlink(timers, k)

-----------------------------------------------------------------------------
(***************************************************************************)
(* aeSearchNearestTimer finds the first event of the list none other is    *)
(* earlier than, and aeProcessEvents turns its deadline into a timeval: a  *)
(* borrow when the milliseconds do not suffice, then each of the two       *)
(* fields clamped at 0.                                                    *)
(***************************************************************************)
Earlier(a, b) == a.sec < b.sec \/ (a.sec = b.sec /\ a.ms < b.ms)
(* Mutant: the milliseconds are compared although the seconds differ.      *)
aeSearchNearestTimerByMs(k) ==
  /\ k \in DOMAIN timers
  /\ \A m \in DOMAIN timers : timers[k].ms <= timers[m].ms
aeSearchNearestTimer(k) ==
  /\ k \in DOMAIN timers
  /\ \A m \in DOMAIN timers : ~Earlier(timers[m], timers[k])
  /\ \A m \in 1..(k - 1) : Earlier(timers[k], timers[m])

Clamp(n) == IF n < 0 THEN 0 ELSE n
SleepFor(shortest) ==
  LET borrow == shortest.ms < now.ms
  IN IF borrow
       THEN [sec |-> Clamp(shortest.sec - now.sec - 1),
             ms |-> Clamp(shortest.ms + MsPerSec - now.ms)]
       ELSE [sec |-> Clamp(shortest.sec - now.sec),
             ms |-> Clamp(shortest.ms - now.ms)]

-----------------------------------------------------------------------------
Due(e) == ~Earlier(now, e)

(* processTimeEvents up to its loop.  A clock behind lastTime makes every  *)
(* event due at once: second 0 is long past.                               *)
ResetDeadlines(list) ==
  [k \in DOMAIN list |-> [list[k] EXCEPT !.sec = 0, !.due = 0]]
(* Mutant: the events that the handlers of this pass create belong to it.  *)
BeginPassMaxIdLate ==
  /\ tpc = "idle"
  /\ skew' = (now.sec < lastTime)
  /\ timers' = IF skew' THEN ResetDeadlines(timers) ELSE timers
  /\ owed' = {timers[k].id : k \in {k \in DOMAIN timers : skew' \/ Due(timers[k])}}
  /\ lastTime' = now.sec
  /\ maxId' = nextId /\ bornFrom' = nextId
  /\ te' = 1 /\ tpc' = "scan" /\ setback' = FALSE
  /\ UNCHANGED <<now, nextId, cur>>
BeginPass ==
  /\ tpc = "idle"
  /\ skew' = (now.sec < lastTime)
  /\ timers' = IF skew' THEN ResetDeadlines(timers) ELSE timers
  /\ owed' = {timers[k].id : k \in {k \in DOMAIN timers : skew' \/ Due(timers[k])}}
  /\ lastTime' = now.sec
  /\ maxId' = nextId - 1 /\ bornFrom' = nextId
  /\ te' = 1 /\ tpc' = "scan" /\ setback' = FALSE
  /\ UNCHANGED <<now, nextId, cur>>

(* The event at te is newer than the pass or not due: te = te->next.       *)
SkipEvent ==
  /\ tpc = "scan" /\ te <= Len(timers)
  /\ timers[te].id > maxId \/ ~Due(timers[te])
  /\ te' = te + 1
  /\ UNCHANGED <<now, timers, nextId, lastTime, tpc, cur, maxId, owed, skew,
                 setback, bornFrom>>
CallTimeProc ==
  /\ tpc = "scan" /\ te <= Len(timers)
  /\ timers[te].id <= maxId /\ Due(timers[te])
  /\ tpc' = "call" /\ cur' = timers[te].id /\ owed' = owed \ {cur'}
  /\ UNCHANGED <<now, timers, nextId, lastTime, te, maxId, skew, setback, bornFrom>>

(* The handler returns AE_NOMORE, and its event is deleted unless the      *)
(* handler has done that itself, or it returns the delay to its next run.  *)
(* Either way the scan restarts from the head.                             *)
(* Mutant: the scan goes on behind the place where the event was.          *)
ReturnNoMoreGoOn ==
  /\ tpc = "call"
  /\ IF cur \in Ids THEN aeDeleteTimeEvent(cur) ELSE UNCHANGED timers
  /\ te' = te + 1 /\ tpc' = "scan" /\ cur' = -1
  /\ UNCHANGED <<now, nextId, lastTime, maxId, owed, skew, setback, bornFrom>>
ReturnNoMore ==
  /\ tpc = "call"
  /\ IF cur \in Ids THEN aeDeleteTimeEvent(cur) ELSE UNCHANGED timers
  /\ te' = 1 /\ tpc' = "scan" /\ cur' = -1
  /\ UNCHANGED <<now, nextId, lastTime, maxId, owed, skew, setback, bornFrom>>
ReturnAgain(milliseconds) ==
  /\ tpc = "call" /\ cur \in Ids
  /\ timers' = [k \in DOMAIN timers |->
       IF timers[k].id = cur THEN Armed(cur, milliseconds) ELSE timers[k]]
  /\ te' = 1 /\ tpc' = "scan" /\ cur' = -1
  /\ UNCHANGED <<now, nextId, lastTime, maxId, owed, skew, setback, bornFrom>>
EndPass ==
  /\ tpc = "scan" /\ te > Len(timers)
  /\ tpc' = "idle" /\ te' = 1 /\ maxId' = -1
  /\ owed' = {} /\ skew' = FALSE /\ setback' = FALSE /\ bornFrom' = 0
  /\ UNCHANGED <<now, timers, nextId, lastTime, cur>>

(* Calls of the application, between passes or from a handler.             *)
TimerCall ==
  /\ tpc \in {"idle", "call"}
  /\ \/ \E d \in Delays : aeCreateTimeEvent(d) /\ UNCHANGED owed
     \/ \E id \in Ids : /\ aeDeleteTimeEvent(id) /\ owed' = owed \ {id}
                        /\ UNCHANGED nextId
  /\ UNCHANGED <<now, lastTime, tpc, te, cur, maxId, skew, setback, bornFrom>>

(* The clock advances or is set.                                           *)
ClockMoves ==
  /\ now' \in [sec : FirstSec..LastSec, ms : 0..(MsPerSec - 1)]
  /\ setback' = (setback \/ (tpc # "idle" /\ Earlier(now', now)))
  /\ UNCHANGED <<timers, nextId, lastTime, tpc, te, cur, maxId, owed, skew, bornFrom>>

-----------------------------------------------------------------------------
TimeInit ==
  /\ now \in [sec : FirstSec..LastSec, ms : 0..(MsPerSec - 1)]
  /\ lastTime = now.sec
  /\ timers = <<>> /\ nextId = 0
  /\ tpc = "idle" /\ te = 1 /\ cur = -1 /\ maxId = -1
  /\ owed = {} /\ skew = FALSE /\ setback = FALSE /\ bornFrom = 0
ProcessStep ==
  \/ BeginPass \/ SkipEvent \/ CallTimeProc \/ EndPass
  \/ ReturnNoMore \/ \E d \in Delays : ReturnAgain(d)
TimeNext == ProcessStep \/ TimerCall \/ ClockMoves
TimeSpec == TimeInit /\ [][TimeNext]_timeVars

-----------------------------------------------------------------------------
(* An event that a time event handler created does not run in the pass     *)
(* that was under way, however often the scan restarts from the head.      *)
NewEventsWait == [][tpc' = "call" /\ tpc # "call" => cur' < bornFrom]_timeVars

(* No handler runs before the time its event was armed for, unless a clock *)
(* set back made the event due at once.                                    *)
NeverEarly ==
  [][tpc' = "call" /\ tpc # "call" => TotalMs(now) >= timers[te].due]_timeVars

EndsPass == tpc = "scan" /\ tpc' = "idle"
(* A pass runs every event that was due when it began, except those its    *)
(* handlers deleted, although each call restarts the scan on a list that   *)
(* has changed.  A pass that finds the clock behind lastTime runs every    *)
(* event of the list, whatever the clock does from there on; in any other  *)
(* only a clock set back meanwhile excuses it.                             *)
PassServesDue == [][EndsPass /\ (skew \/ ~setback) => owed = {}]_timeVars

(* The sleep of aeProcessEvents: exactly the time that is left to the      *)
(* earliest event if none is due, and less than a second if one is.        *)
SleepIsBounded ==
  \A k \in DOMAIN timers : aeSearchNearestTimer(k) =>
    LET sleep == TotalMs(SleepFor(timers[k]))
    IN IF \E m \in DOMAIN timers : Due(timers[m])
         THEN sleep < MsPerSec
         ELSE /\ sleep = TotalMs(timers[k]) - TotalMs(now)
              /\ \A m \in DOMAIN timers : TotalMs(now) + sleep <= TotalMs(timers[m])

(* The comment on the clamping: with an event that is already due, seconds *)
(* and milliseconds are set to 0, and the poll does not block.             *)
OverdueTimerDoesNotBlock ==
  tpc = "idle" =>
    \A k \in DOMAIN timers :
      aeSearchNearestTimer(k) /\ Due(timers[k]) => TotalMs(SleepFor(timers[k])) = 0
=============================================================================
