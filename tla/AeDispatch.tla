----------------------------- MODULE AeDispatch -----------------------------
(***************************************************************************)
(* The file-event half of aeProcessEvents on top of AeTable: aeApiPoll     *)
(* fills fired[], the loop then serves its entries one by one, and every   *)
(* handler may create and delete file events and open and close files, of  *)
(* its own descriptor and of descriptors that are still waiting in         *)
(* fired[].  The application resizes or deletes the loop only between two  *)
(* calls of aeProcessEvents.                                               *)
(***************************************************************************)
EXTENDS AeTable, Sequences

VARIABLES
  fired,      \* eventLoop->fired[0..numevents-1], one based
  j,          \* the entry being served
  fpc,        \* "idle", "scan", or "rcall" or "wcall" inside a handler
  touched,    \* history: descriptors the handlers used in this batch
  reopened,   \* history: descriptors the handlers opened in this batch
  ran         \* history: handlers that were called for the current entry

dispatchVars == <<fired, j, fpc, touched, reopened, ran>>
vars == <<setsize, maxfd, events, interest, open,
          fired, j, fpc, touched, reopened, ran>>

-----------------------------------------------------------------------------
(***************************************************************************)
(* epoll_wait reports a descriptor once, with events it was asked for, or  *)
(* with an error or a hang-up, which need not be asked for and which       *)
(* aeApiPoll turns into AE_WRITABLE.  fired[] has room for setsize.        *)
(***************************************************************************)
Report == [fd : Fd, mask : Masks]
PollMayReturn(batch) ==
  /\ \A i \in DOMAIN batch :
       /\ interest[batch[i].fd] # AE_NONE
       /\ AE_READABLE \in batch[i].mask => AE_READABLE \in interest[batch[i].fd]
  /\ \A i, k \in DOMAIN batch : batch[i].fd = batch[k].fd => i = k
aeApiPoll ==
  /\ fpc = "idle"
  /\ maxfd # -1
  /\ \E n \in 1..setsize : \E batch \in [1..n -> Report] :
       PollMayReturn(batch) /\ fired' = batch
  /\ fpc' = "scan"
  /\ UNCHANGED <<tableVars, j, touched, reopened, ran>>

-----------------------------------------------------------------------------
Entry == fired[j]
Fe == events[Entry.fd]

(* Mutant: the mask of the slot is not consulted again.                    *)
WantsStale(bit) == bit \in Entry.mask
(* fe->mask & mask & bit, read again before each of the two calls.         *)
Wants(bit) == bit \in Fe.mask \cap Entry.mask

NextEntry ==
  /\ fpc' = "scan"
  /\ ran' = {}
  /\ j' = j + 1

(* Mutants: a read handler that ran suppresses every write handler; the    *)
(* write handler runs although the same function served the read.          *)
WritePhaseReadOnly(rfired) ==
  IF Wants(AE_WRITABLE) /\ ~rfired
    THEN fpc' = "wcall" /\ ran' = ran \cup {Fe.wfileProc} /\ UNCHANGED j
    ELSE NextEntry
WritePhaseAlways(rfired) ==
  IF Wants(AE_WRITABLE)
    THEN fpc' = "wcall" /\ ran' = ran \cup {Fe.wfileProc} /\ UNCHANGED j
    ELSE NextEntry
(* The write handler runs unless the same function has served the read.    *)
WritePhase(rfired) ==
  IF Wants(AE_WRITABLE) /\ (~rfired \/ Fe.wfileProc # Fe.rfileProc)
    THEN fpc' = "wcall" /\ ran' = ran \cup {Fe.wfileProc} /\ UNCHANGED j
    ELSE NextEntry

CallRead ==
  /\ fpc = "scan" /\ j <= Len(fired) /\ Wants(AE_READABLE)
  /\ fpc' = "rcall"
  /\ ran' = {Fe.rfileProc}
  /\ UNCHANGED <<tableVars, fired, j, touched, reopened>>
SkipRead ==
  /\ fpc = "scan" /\ j <= Len(fired) /\ ~Wants(AE_READABLE)
  /\ WritePhase(FALSE)
  /\ UNCHANGED <<tableVars, fired, touched, reopened>>
ReadReturns ==
  /\ fpc = "rcall"
  /\ WritePhase(TRUE)
  /\ UNCHANGED <<tableVars, fired, touched, reopened>>
WriteReturns ==
  /\ fpc = "wcall"
  /\ NextEntry
  /\ UNCHANGED <<tableVars, fired, touched, reopened>>
BatchDone ==
  /\ fpc = "scan" /\ j > Len(fired)
  /\ fired' = <<>> /\ j' = 1 /\ fpc' = "idle"
  /\ touched' = {} /\ reopened' = {} /\ ran' = {}
  /\ UNCHANGED tableVars

(* The application outside aeProcessEvents, and its handlers inside.       *)
IdleCall ==
  /\ fpc = "idle"
  /\ TableNext
  /\ UNCHANGED dispatchVars
HandlerCall(fd) ==
  /\ fpc \in {"rcall", "wcall"}
  /\ FdCall(fd)
  /\ touched' = touched \cup {fd}
  /\ reopened' = IF fd \in open' \ open THEN reopened \cup {fd} ELSE reopened
  /\ UNCHANGED <<fired, j, fpc, ran>>

-----------------------------------------------------------------------------
DispatchInit ==
  /\ TableInit
  /\ fired = <<>> /\ j = 1 /\ fpc = "idle"
  /\ touched = {} /\ reopened = {} /\ ran = {}
Dispatcher ==
  CallRead \/ SkipRead \/ ReadReturns \/ WriteReturns \/ BatchDone
DispatchNext ==
  \/ IdleCall
  \/ aeApiPoll
  \/ Dispatcher
  \/ \E fd \in Fd : HandlerCall(fd)
DispatchSpec == DispatchInit /\ [][DispatchNext]_vars

-----------------------------------------------------------------------------
DispatchTypeOK ==
  /\ fired \in Seq(Report)
  /\ j \in 1..(Len(fired) + 1)
  /\ fpc \in {"idle", "scan", "rcall", "wcall"}
  /\ touched \in SUBSET Fd
  /\ reopened \in SUBSET Fd
  /\ ran \in SUBSET (Procs \cup {NoProc})

CallsHandler == fpc' \in {"rcall", "wcall"} /\ fpc' # fpc
LeavesEntry == j' = j + 1

(* A handler is called only for an event that is registered at that        *)
(* moment, on an open file, with a handler that was assigned: what the     *)
(* handlers of earlier entries deleted or closed is never dispatched.      *)
CallsRegistered ==
  [][CallsHandler =>
       /\ Entry.fd \in open
       /\ (IF fpc' = "rcall" THEN AE_READABLE ELSE AE_WRITABLE) \in interest[Entry.fd]
       /\ ran' \ ran \subseteq Procs]_vars

(* When the loop leaves an entry whose descriptor no handler has used      *)
(* since the poll, the handler of every reported and registered event has  *)
(* run: neither the rfired test nor the other entries' handlers lose one.  *)
FiredEventServed ==
  [][LeavesEntry /\ Entry.fd \notin touched =>
       /\ Wants(AE_READABLE) => Fe.rfileProc \in ran
       /\ Wants(AE_WRITABLE) => Fe.wfileProc \in ran]_vars

(* A function registered for both events is called once for an entry that  *)
(* reports both, if its descriptor was not used since the poll.            *)
OncePerEntry ==
  [][CallsHandler /\ Entry.fd \notin touched => ran' # ran]_vars

(* The comment on fe->mask & mask: the event is checked to be still valid. *)
(* An event reported for a file that a handler closed is not delivered to  *)
(* the file that got its descriptor number next.                           *)
DispatchedFileIsCurrent == [][CallsHandler => Entry.fd \notin reopened]_vars
=============================================================================
