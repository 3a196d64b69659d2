------------------------------- MODULE AeLoop -------------------------------
(***************************************************************************)
(* aeMain: the event loop put together from AeDispatch and AeTimeEvents.   *)
(* One turn runs beforesleep, sleeps in epoll_wait until a file is ready   *)
(* or the nearest timer is near, serves the file events and then makes a   *)
(* pass over the time events.  Handlers of both kinds and beforesleep may  *)
(* change both tables and stop the loop.  The loop starts as               *)
(* aeCreateEventLoop leaves it; the clock only advances here.              *)
(***************************************************************************)
EXTENDS AeDispatch, AeTimeEvents

CONSTANT Forever       \* the timeout of a poll that has no timer to wait for

VARIABLES
  lpc,       \* "out" of aeMain, "before", "sleep", "files" or "time"
  stop,      \* eventLoop->stop
  wake,      \* in a poll: when it times out, in milliseconds, or Forever
  ready      \* the files with input to read (the kernel's, level triggered)

mainVars == <<lpc, stop, wake, ready>>
loopVars == <<vars, timeVars, mainVars>>

(* Bounds: no timer is armed beyond Horizon, where the clock stops; there  *)
(* the rest of a timeout passes unseen by the clock.                       *)
Horizon == TotalMs([sec |-> LastSec, ms |-> MsPerSec - 1])
InHorizon(list) == \A k \in DOMAIN list : list[k].due <= Horizon

(* Code of the application runs outside aeMain, in beforesleep and in the  *)
(* handlers.                                                               *)
InFileHandler == fpc \in {"rcall", "wcall"}
InApp == lpc \in {"out", "before"} \/ InFileHandler \/ tpc = "call"

-----------------------------------------------------------------------------
StartMain ==
  /\ lpc = "out"
  /\ stop' = FALSE /\ lpc' = "before"
  /\ UNCHANGED <<vars, timeVars, wake, ready>>

(* beforesleep has returned: aeProcessEvents computes the timeout.         *)
(* Mutant: without file events the poll has no timeout.                    *)
SleepUnlessIdle ==
  /\ lpc = "before"
  /\ lpc' = "sleep"
  /\ IF timers = <<>> \/ maxfd = -1 THEN wake' = Forever
     ELSE \E k \in DOMAIN timers :
            aeSearchNearestTimer(k) /\ wake' = TotalMs(now) + TotalMs(SleepFor(timers[k]))
  /\ UNCHANGED <<vars, timeVars, stop, ready>>
Sleep ==
  /\ lpc = "before"
  /\ lpc' = "sleep"
  /\ IF timers = <<>> THEN wake' = Forever
     ELSE \E k \in DOMAIN timers :
            aeSearchNearestTimer(k) /\ wake' = TotalMs(now) + TotalMs(SleepFor(timers[k]))
  /\ UNCHANGED <<vars, timeVars, stop, ready>>

(* epoll_wait is level triggered and has room for every descriptor: it     *)
(* reports all that is ready.  With nothing ready it returns none when the *)
(* timeout is over, or when a signal interrupts it.                        *)
ReadyFds == {fd \in ready : AE_READABLE \in interest[fd]}
(* Mutant: the poll may leave a ready descriptor out.                      *)
PollFilesSome ==
  /\ lpc = "sleep"
  /\ aeApiPoll
  /\ lpc' = "files" /\ wake' = Forever
  /\ UNCHANGED <<timeVars, stop, ready>>
PollFiles ==
  /\ lpc = "sleep"
  /\ aeApiPoll
  /\ \A fd \in ReadyFds : \E i \in DOMAIN fired' :
       fired'[i].fd = fd /\ AE_READABLE \in fired'[i].mask
  /\ lpc' = "files" /\ wake' = Forever
  /\ UNCHANGED <<timeVars, stop, ready>>
PollNone ==
  /\ lpc = "sleep" /\ ReadyFds = {}
  /\ lpc' = "time" /\ wake' = Forever
  /\ UNCHANGED <<vars, timeVars, stop, ready>>
TimedOut == wake # Forever /\ (TotalMs(now) >= wake \/ TotalMs(now) = Horizon)

FileStep ==
  /\ lpc = "files"
  /\ Dispatcher
  /\ lpc' = IF fpc' = "idle" THEN "time" ELSE "files"
  /\ UNCHANGED <<timeVars, stop, wake, ready>>

(* The pass over the time events, and the loop test behind it.             *)
(* Mutant: stop is cleared on every turn.                                  *)
LoopTestForgets ==
  IF tpc' = "idle" THEN lpc' = "before" /\ stop' = FALSE
                   ELSE UNCHANGED <<lpc, stop>>
LoopTest ==
  /\ lpc' = IF tpc' # "idle" THEN "time" ELSE IF stop THEN "out" ELSE "before"
  /\ UNCHANGED stop
TimeStep ==
  /\ lpc = "time"
  /\ ProcessStep
  /\ InHorizon(timers')
  /\ LoopTest
  /\ UNCHANGED <<vars, wake, ready>>

aeStop ==
  /\ InApp
  /\ stop' = TRUE
  /\ UNCHANGED <<vars, timeVars, lpc, wake, ready>>
FileCall(fd) ==
  /\ InApp
  /\ IF InFileHandler THEN HandlerCall(fd) ELSE FdCall(fd) /\ UNCHANGED dispatchVars
  /\ ready' = ready \cap open'
  /\ UNCHANGED <<timeVars, lpc, stop, wake>>
AppTimerCall ==
  /\ InApp
  /\ TimerCall
  /\ InHorizon(timers')
  /\ UNCHANGED <<vars, mainVars>>
ReadInput ==
  /\ fpc = "rcall" /\ Entry.fd \in ready
  /\ ready' = ready \ {Entry.fd}
  /\ UNCHANGED <<vars, timeVars, lpc, stop, wake>>

InputArrives(fd) ==
  /\ fd \in open \ ready
  /\ ready' = ready \cup {fd}
  /\ UNCHANGED <<vars, timeVars, lpc, stop, wake>>
Tick ==
  /\ TotalMs(now) < Horizon
  /\ now' = aeAddMillisecondsToNow(1)
  /\ UNCHANGED <<vars, mainVars, timers, nextId, lastTime, passVars>>

-----------------------------------------------------------------------------
LoopInit ==
  /\ setsize \in SetSizes
  /\ maxfd = -1
  /\ events = [fd \in 0..(setsize - 1) |-> EmptySlot]
  /\ interest = [fd \in Fd |-> AE_NONE]
  /\ open = {}
  /\ fired = <<>> /\ j = 1 /\ fpc = "idle"
  /\ touched = {} /\ reopened = {} /\ ran = {}
  /\ TimeInit
  /\ lpc = "out" /\ stop = FALSE /\ wake = Forever /\ ready = {}
LoopNext ==
  \/ StartMain \/ Sleep \/ PollFiles \/ PollNone \/ FileStep \/ TimeStep
  \/ aeStop \/ AppTimerCall \/ ReadInput \/ Tick
  \/ \E fd \in Fd : FileCall(fd) \/ InputArrives(fd)
(* The thread in aeMain keeps running, its handlers return, and epoll_wait *)
(* returns once something is ready or the timeout is over.                 *)
LoopProgress ==
  \/ Sleep \/ FileStep \/ TimeStep
  \/ ReadyFds # {} /\ PollFiles
  \/ TimedOut /\ PollNone
LoopSpec == /\ LoopInit /\ [][LoopNext]_loopVars
            /\ WF_loopVars(LoopProgress) /\ WF_loopVars(Tick)

-----------------------------------------------------------------------------

(* A registered file with input is served, if it stays so, while aeMain    *)
(* runs: neither timers nor other files, nor handlers that change the      *)
(* tables, keep its read handler from being called.                        *)
ReadyFileServed ==
  \A fd \in Fd :
    (lpc # "out" /\ fd \in ready /\ AE_READABLE \in interest[fd]) ~>
      \/ fpc = "rcall" /\ Entry.fd = fd
      \/ fd \notin ready \/ AE_READABLE \notin interest[fd] \/ lpc = "out"

(* A time event runs, unless it is deleted or the loop is stopped: the     *)
(* poll does not sleep through it, and no handler can postpone it.         *)
TimerRuns ==
  \A id \in 0..(MaxEvents - 1) :
    (lpc # "out" /\ id \in Ids) ~>
      (tpc = "call" /\ cur = id) \/ id \notin Ids \/ lpc = "out"

(* aeStop called by a handler, of a file or of a timer, makes aeMain       *)
(* return.                                                                 *)
LoopStops == (stop /\ lpc \in {"files", "time"}) ~> lpc = "out"
=============================================================================
