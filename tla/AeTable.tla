------------------------------ MODULE AeTable -------------------------------
(***************************************************************************)
(* The registration side of the ae event loop (redis-3.0-network/src/ae.c) *)
(* on its epoll backend (ae_epoll.c): the table events[] with maxfd and    *)
(* setsize, and the kernel's interest list.  The loop is single-threaded,  *)
(* so each call of the application is one step.  A call that returns early *)
(* or fails changes nothing and is a stuttering step.                      *)
(***************************************************************************)
EXTENDS Integers

CONSTANTS
  MaxFd,      \* the largest descriptor number the process can hold
  SetSizes,   \* the values of setsize the application asks for
  Procs,      \* the application's file handlers
  NoProc      \* the content of a handler field that was never assigned

ASSUME MaxFdAssumption == MaxFd \in Nat
ASSUME SetSizesAssumption == SetSizes \subseteq Nat \ {0}
ASSUME NoProcAssumption == NoProc \notin Procs

VARIABLES
  setsize,    \* eventLoop->setsize; 0 while there is no event loop
  maxfd,      \* eventLoop->maxfd
  events,     \* eventLoop->events: slot -> mask and handlers
  interest,   \* the kernel's epoll interest list: fd -> mask, {} if absent
  open        \* the descriptors that are open files of the process

tableVars == <<setsize, maxfd, events, interest, open>>

-----------------------------------------------------------------------------
AE_READABLE == "readable"
AE_WRITABLE == "writable"
Bits == {AE_READABLE, AE_WRITABLE}
AE_NONE == {}
Masks == (SUBSET Bits) \ {AE_NONE}

Fd == 0..MaxFd
Slot == [mask : SUBSET Bits,
         rfileProc : Procs \cup {NoProc}, wfileProc : Procs \cup {NoProc}]
EmptySlot == [mask |-> AE_NONE, rfileProc |-> NoProc, wfileProc |-> NoProc]

Alive == setsize # 0
Registered == {fd \in Fd : fd < setsize /\ events[fd].mask # AE_NONE}

(***************************************************************************)
(* The epoll backend.  epoll_ctl refuses a closed descriptor, an ADD of a  *)
(* descriptor it has and a MOD or DEL of one it has not.                   *)
(***************************************************************************)
CtlAccepts(op, fd) ==
  /\ fd \in open
  /\ op = "ADD" <=> interest[fd] = AE_NONE

(* Mutant: the events the descriptor already has are not merged in.        *)
aeApiAddEventNoMerge(fd, mask) ==
  /\ CtlAccepts(IF events[fd].mask = AE_NONE THEN "ADD" ELSE "MOD", fd)
  /\ interest' = [interest EXCEPT ![fd] = mask]
(* Whether to ADD or to MOD is decided from the slot, and the old events   *)
(* are merged into the mask.                                               *)
AddOp(fd) == IF events[fd].mask = AE_NONE THEN "ADD" ELSE "MOD"
aeApiAddEvent(fd, mask) ==
  /\ CtlAccepts(AddOp(fd), fd)
  /\ interest' = [interest EXCEPT ![fd] = mask \cup events[fd].mask]

(* A MOD to the bits that remain in the slot once its mask was narrowed,   *)
(* or a DEL when none remains.  The result of epoll_ctl is dropped.        *)
aeApiDelEvent(fd, rest) ==
  interest' = IF CtlAccepts("MOD", fd) THEN [interest EXCEPT ![fd] = rest]
                                       ELSE interest

-----------------------------------------------------------------------------
aeCreateEventLoop(size) ==
  /\ ~Alive
  /\ setsize' = size
  /\ maxfd' = -1
  /\ events' = [fd \in 0..(size - 1) |-> EmptySlot]
  /\ UNCHANGED <<interest, open>>

(* aeApiFree closes the epoll descriptor, and with it the interest list.   *)
aeDeleteEventLoop ==
  /\ Alive
  /\ setsize' = 0
  /\ maxfd' = -1
  /\ events' = [fd \in 0..-1 |-> EmptySlot]
  /\ interest' = [fd \in Fd |-> AE_NONE]
  /\ UNCHANGED open

(* aeResizeSetSize, when the size differs and maxfd fits.  A slot beyond   *)
(* the old array holds whatever the allocator left there (junk) until the  *)
(* last loop of the function clears every slot above maxfd.                *)
Realloc(old, size, junk) ==
  [fd \in 0..(size - 1) |->
     IF fd \in DOMAIN old THEN old[fd] ELSE [EmptySlot EXCEPT !.mask = junk]]
(* Mutant: the clearing loop starts one slot too late.                     *)
ClearFromNext(ev, first) ==
  [fd \in DOMAIN ev |-> IF fd > first THEN [ev[fd] EXCEPT !.mask = AE_NONE]
                                      ELSE ev[fd]]
ClearFrom(ev, first) ==
  [fd \in DOMAIN ev |-> IF fd >= first THEN [ev[fd] EXCEPT !.mask = AE_NONE]
                                       ELSE ev[fd]]
aeResizeSetSize(size) ==
  /\ Alive
  /\ size # setsize
  /\ maxfd < size
  /\ setsize' = size
  /\ \E junk \in SUBSET Bits :
       events' = ClearFrom(Realloc(events, size, junk), maxfd + 1)
  /\ UNCHANGED <<maxfd, interest, open>>

(* aeCreateFileEvent, when the descriptor is in range and epoll_ctl does   *)
(* not fail.                                                               *)
aeCreateFileEvent(fd, mask, proc) ==
  /\ fd < setsize
  /\ aeApiAddEvent(fd, mask)
  /\ events' = [events EXCEPT ![fd] =
       [mask |-> @.mask \cup mask,
        rfileProc |-> IF AE_READABLE \in mask THEN proc ELSE @.rfileProc,
        wfileProc |-> IF AE_WRITABLE \in mask THEN proc ELSE @.wfileProc]]
  /\ maxfd' = IF fd > maxfd THEN fd ELSE maxfd
  /\ UNCHANGED <<setsize, open>>

(* The descending scan for the new maxfd, started below n, stops at m: m   *)
(* carries an event or is -1, and nothing between m and n does.            *)
ScanStopsAt(ev, n, m) ==
  /\ m # -1 => ev[m].mask # AE_NONE
  /\ \A i \in (m + 1)..(n - 1) : ev[i].mask = AE_NONE
aeDeleteFileEvent(fd, mask) ==
  /\ fd \in Registered
  /\ LET rest == events[fd].mask \ mask
     IN /\ events' = [events EXCEPT ![fd].mask = rest]
        /\ IF fd = maxfd /\ rest = AE_NONE
             THEN \E m \in -1..(maxfd - 1) :
                    ScanStopsAt(events', maxfd, m) /\ maxfd' = m
             ELSE UNCHANGED maxfd
        /\ aeApiDelEvent(fd, rest)
  /\ UNCHANGED <<setsize, open>>

(* The application opens and closes files.  It follows the order the API   *)
(* asks for: no event of a descriptor is registered when it is closed.     *)
OpenFile(fd) ==
  /\ fd \notin open
  /\ open' = open \cup {fd}
  /\ UNCHANGED <<setsize, maxfd, events, interest>>
CloseFile(fd) ==
  /\ fd \in open \ Registered
  /\ open' = open \ {fd}
  /\ UNCHANGED <<setsize, maxfd, events, interest>>

-----------------------------------------------------------------------------
(* The calls that never happen inside a handler, and those that may.       *)
LoopCall ==
  \/ \E size \in SetSizes : aeCreateEventLoop(size) \/ aeResizeSetSize(size)
  \/ aeDeleteEventLoop
FdCall(fd) ==
  \/ OpenFile(fd)
  \/ CloseFile(fd)
  \/ \E mask \in Masks : \/ aeDeleteFileEvent(fd, mask)
                         \/ \E proc \in Procs : aeCreateFileEvent(fd, mask, proc)

TableInit ==
  /\ setsize = 0
  /\ maxfd = -1
  /\ events = [fd \in 0..-1 |-> EmptySlot]
  /\ interest = [fd \in Fd |-> AE_NONE]
  /\ open = {}
TableNext == LoopCall \/ \E fd \in Fd : FdCall(fd)
TableSpec == TableInit /\ [][TableNext]_tableVars

-----------------------------------------------------------------------------
(* Every variable of the table keeps its type, and setsize is the length   *)
(* of events[].                                                            *)
TableTypeOK ==
  /\ setsize \in SetSizes \cup {0}
  /\ maxfd \in -1..MaxFd
  /\ events \in [0..(setsize - 1) -> Slot]
  /\ interest \in [Fd -> SUBSET Bits]
  /\ open \in SUBSET Fd

(* The kernel's interest list and events[] agree after every call, and     *)
(* only open files are in it.  So the choice aeApiAddEvent makes between   *)
(* ADD and MOD, from events[] alone, is never the one the kernel refuses.  *)
InterestMatches ==
  \A fd \in Fd :
    /\ interest[fd] = IF fd < setsize THEN events[fd].mask ELSE AE_NONE
    /\ interest[fd] # AE_NONE => fd \in open

(* maxfd is the highest slot with an event, -1 if there is none: what      *)
(* aeResizeSetSize relies on to drop slots, and aeProcessEvents to skip    *)
(* the poll.                                                               *)
MaxfdExact ==
  /\ maxfd < setsize \/ maxfd = -1
  /\ maxfd # -1 => events[maxfd].mask # AE_NONE
  /\ \A fd \in DOMAIN events : fd > maxfd => events[fd].mask = AE_NONE

(* A slot with a bit in its mask has a handler for that bit, through any   *)
(* sequence of partial deletes, re-creations and resizes: the dispatcher   *)
(* never calls a field that was not assigned.                              *)
HandlersAssigned ==
  \A fd \in DOMAIN events :
    /\ AE_READABLE \in events[fd].mask => events[fd].rfileProc \in Procs
    /\ AE_WRITABLE \in events[fd].mask => events[fd].wfileProc \in Procs
=============================================================================
