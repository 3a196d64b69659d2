-------------------------------- MODULE Anet --------------------------------
(***************************************************************************)
(* redis-3.0-network/src/anet.c: the calls that make sockets (TCP and Unix *)
(* connect, listen and accept).  A call is followed from one system call   *)
(* to the next, each of which may fail; what is watched is which           *)
(* descriptors are open and which of them the caller was given.            *)
(***************************************************************************)
EXTENDS Integers, FiniteSets

CONSTANTS
  Fds,          \* the descriptors of the process
  MaxAddrs      \* bound: addresses getaddrinfo finds for a name

ASSUME AnetAssumption ==
  Fds \subseteq Nat /\ IsFiniteSet(Fds) /\ MaxAddrs \in Nat \ {0}

VARIABLES
  sock,         \* each descriptor: "closed", "new", "connecting", "connected"
                \* or "listening"
  held,         \* the descriptors the caller was given and has not closed
  anet,         \* the call in progress: its step, kind, flags, addresses left
                \* (p and what follows it) and socket
  optFailed,    \* history: a setsockopt or fcntl on a new socket failed
  bindFailed    \* history: a source address could not be resolved or bound

anetVars == <<sock, held, anet, optFailed, bindFailed>>

Call(step, kind, nb, src, left, s) ==
  [at |-> step, kind |-> kind, nb |-> nb, src |-> src, left |-> left, s |-> s]
NoCall == Call("idle", "none", FALSE, FALSE, 0, 0)
Closed == {fd \in Fds : sock[fd] = "closed"}

Set(fd, status) == sock' = [sock EXCEPT ![fd] = status]
Return(fd, status) == Set(fd, status) /\ held' = held \cup {fd} /\ anet' = NoCall
Fail == anet' = NoCall /\ UNCHANGED held
To(step) == anet' = [anet EXCEPT !.at = step] /\ UNCHANGED <<sock, held>>

-----------------------------------------------------------------------------
(* The caller.  A source address is only given to a non-blocking TCP       *)
(* connect, and a Unix socket has one address; when a name cannot be       *)
(* resolved nothing happens.                                               *)
BeginCall ==
  /\ anet = NoCall
  /\ \/ \E nb, src \in BOOLEAN, n \in 1..MaxAddrs :
          (src => nb) /\ anet' = Call("socket", "connect", nb, src, n, 0)
     \/ \E nb \in BOOLEAN : anet' = Call("socket", "unix", nb, FALSE, 1, 0)
     \/ \E kind \in {"server", "server6"}, n \in 1..MaxAddrs :
          anet' = Call("socket", kind, FALSE, FALSE, n, 0)
     \/ anet' = Call("socket", "unixserver", FALSE, FALSE, 1, 0)
  /\ UNCHANGED <<sock, held, optFailed, bindFailed>>
CloseHeld(fd) ==
  /\ anet = NoCall /\ fd \in held
  /\ Set(fd, "closed") /\ held' = held \ {fd}
  /\ UNCHANGED <<anet, optFailed, bindFailed>>

(* socket(2): when it fails the TCP calls try the next address.            *)
Socket ==
  /\ anet.at = "socket"
  /\ \/ \E fd \in Closed :
          /\ Set(fd, "new")
          /\ anet' = [anet EXCEPT !.at = "options", !.s = fd] /\ UNCHANGED held
     \/ /\ anet' = IF anet.left > 1 THEN [anet EXCEPT !.left = @ - 1] ELSE NoCall
        /\ UNCHANGED <<sock, held>>
  /\ UNCHANGED <<optFailed, bindFailed>>

(* anetSetReuseAddr, anetV6Only and anetNonBlock.  Not every failure       *)
(* closes the socket: anetUnixGenericConnect returns from a failed         *)
(* anetNonBlock, _anetTcpServer from a failed anetSetReuseAddr, without.   *)
Options ==
  /\ anet.at = "options"
  /\ \/ /\ To(IF anet.kind \in {"connect", "unix"}
              THEN IF anet.src THEN "bind" ELSE "connect" ELSE "listen")
        /\ UNCHANGED optFailed
     \/ /\ Set(anet.s, "closed") /\ Fail /\ optFailed' = TRUE
        /\ anet.kind # "server"
     \/ /\ anet.kind \in {"server", "server6"} \/ (anet.kind = "unix" /\ anet.nb)
        /\ UNCHANGED sock /\ Fail /\ optFailed' = TRUE
  /\ UNCHANGED bindFailed

(* The source address: the socket is returned when it cannot be bound.     *)
Bind ==
  /\ anet.at = "bind"
  /\ \/ To("connect") /\ UNCHANGED bindFailed
     \/ Return(anet.s, "new") /\ bindFailed' = TRUE
  /\ UNCHANGED optFailed

NextAddress ==
  anet' = IF anet.left > 1 THEN [anet EXCEPT !.at = "socket", !.left = @ - 1, !.s = 0]
          ELSE NoCall
(* Mutant: the next address is tried without closing the failed socket.    *)
ConnectKeepsSocket ==
  /\ anet.at = "connect"
  /\ \/ Return(anet.s, "connected")
     \/ anet.nb /\ Return(anet.s, "connecting")
     \/ NextAddress /\ UNCHANGED <<sock, held>>
  /\ UNCHANGED <<optFailed, bindFailed>>
Connect ==
  /\ anet.at = "connect"
  /\ \/ Return(anet.s, "connected")
     \/ anet.nb /\ Return(anet.s, "connecting")
     \/ Set(anet.s, "closed") /\ NextAddress /\ UNCHANGED held
  /\ UNCHANGED <<optFailed, bindFailed>>

(* anetListen: bind and listen.  A failure ends _anetTcpServer, too.       *)
Listen ==
  /\ anet.at = "listen"
  /\ Return(anet.s, "listening") \/ (Set(anet.s, "closed") /\ Fail)
  /\ UNCHANGED <<optFailed, bindFailed>>

(* anetGenericAccept, which tries again after a signal.                    *)
Accept(fd) ==
  /\ anet = NoCall /\ fd \in held /\ sock[fd] = "listening"
  /\ \E conn \in Closed : Return(conn, "connected")
  /\ UNCHANGED <<optFailed, bindFailed>>

-----------------------------------------------------------------------------
AnetInit ==
  /\ sock = [fd \in Fds |-> "closed"] /\ held = {} /\ anet = NoCall
  /\ optFailed = FALSE /\ bindFailed = FALSE
AnetNext ==
  \/ BeginCall \/ Socket \/ Options \/ Bind \/ Connect \/ Listen
  \/ \E fd \in Fds : CloseHeld(fd) \/ Accept(fd)
AnetSpec == AnetInit /\ [][AnetNext]_anetVars

-----------------------------------------------------------------------------
(* Between calls every open descriptor is one the caller was given: as     *)
(* long as no socket option could not be set, no path through the address  *)
(* loops, with some sockets made and some connects failed, leaves one open. *)
(* And what the caller was given is connected, connecting or listening,    *)
(* unless the source address of a connect could not be used.               *)
NoDescriptorLost == (anet = NoCall /\ ~optFailed) => held = Fds \ Closed
ReturnedIsUsable == ~bindFailed => \A fd \in held : sock[fd] \notin {"closed", "new"}
DescriptorsAccounted == NoDescriptorLost /\ ReturnedIsUsable
=============================================================================
