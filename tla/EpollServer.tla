---------------------------- MODULE EpollServer -----------------------------
(***************************************************************************)
(* epoll/server.c: the loop of main with lt or et, against clients that    *)
(* connect, send bytes and close.  The kernel reports a level-triggered    *)
(* socket while it is readable and an edge-triggered one once after each   *)
(* arrival; the listening socket is edge-triggered in both modes.          *)
(***************************************************************************)
EXTENDS Naturals

CONSTANTS
  Peers,        \* the clients
  MaxBytes,     \* bound: bytes a client sends
  Chunk         \* BUFFER_SIZE - 1, the most one recv takes

ASSUME EpollAssumption ==
  MaxBytes \in Nat /\ Chunk \in Nat \ {0} /\ "listen" \notin Peers

VARIABLES
  isEt,         \* the mode, from the command line
  peer,         \* each client's connection: "none", "backlog", "open", "closed"
  sent, eof,    \* what each client has sent, and whether it has closed
  got,          \* what the server received on each connection
  edges,        \* sockets with an edge not reported yet ("listen" is listenfd)
  events        \* the reported sockets lt or et has still to look at

epollVars == <<isEt, peer, sent, eof, got, edges, events>>

Readable(c) == sent[c] > got[c] \/ eof[c]
(* A new edge is seen when the socket is in the epoll set.                 *)
Edge(c) == edges' = IF peer[c] = "open" THEN edges \cup {c} ELSE edges

-----------------------------------------------------------------------------
(* The clients and the kernel.                                             *)
Dial(c) ==
  /\ peer[c] = "none"
  /\ peer' = [peer EXCEPT ![c] = "backlog"] /\ edges' = edges \cup {"listen"}
  /\ UNCHANGED <<isEt, sent, eof, got, events>>
Send(c) ==
  /\ peer[c] \in {"backlog", "open"} /\ ~eof[c] /\ sent[c] < MaxBytes
  /\ sent' = [sent EXCEPT ![c] = @ + 1] /\ Edge(c)
  /\ UNCHANGED <<isEt, peer, eof, got, events>>
Hangup(c) ==
  /\ peer[c] \in {"backlog", "open"} /\ ~eof[c]
  /\ eof' = [eof EXCEPT ![c] = TRUE] /\ Edge(c)
  /\ UNCHANGED <<isEt, peer, sent, got, events>>

-----------------------------------------------------------------------------
Reported ==
  IF isEt THEN edges
  ELSE (edges \cap {"listen"}) \cup {c \in Peers : peer[c] = "open" /\ Readable(c)}
epoll_wait ==
  /\ events = {} /\ Reported # {}
  /\ events' = Reported /\ edges' = {}
  /\ UNCHANGED <<isEt, peer, sent, eof, got>>
(* One accept per report of listenfd; adding the socket to the epoll set   *)
(* reports what has already arrived.                                       *)
AcceptOne ==
  /\ "listen" \in events
  /\ \E c \in Peers :
       /\ peer[c] = "backlog" /\ peer' = [peer EXCEPT ![c] = "open"]
       /\ edges' = IF isEt /\ Readable(c) THEN edges \cup {c} ELSE edges
  /\ events' = events \ {"listen"}
  /\ UNCHANGED <<isEt, sent, eof, got>>
(* recv takes what is there, up to the buffer.                             *)
Received(c) == got' = [got EXCEPT ![c] =
  IF sent[c] - got[c] > Chunk THEN @ + Chunk ELSE sent[c]]
(* lt: one recv per report.                                                *)
LtRecv(c) ==
  /\ ~isEt /\ c \in events
  /\ IF sent[c] > got[c]
     THEN Received(c) /\ UNCHANGED peer
     ELSE peer' = [peer EXCEPT ![c] = "closed"] /\ UNCHANGED got
  /\ events' = events \ {c} /\ edges' = edges \ (IF peer'[c] = "closed" THEN {c} ELSE {})
  /\ UNCHANGED <<isEt, sent, eof>>
(* Mutant: et receives once per report, as lt does.                        *)
EtRecvOnce(c) ==
  /\ isEt /\ c \in events
  /\ IF sent[c] > got[c]
     THEN Received(c) /\ UNCHANGED <<peer, edges>>
     ELSE /\ peer' = [peer EXCEPT ![c] = IF eof[c] THEN "closed" ELSE @]
          /\ edges' = (IF eof[c] THEN edges \ {c} ELSE edges) /\ UNCHANGED got
  /\ events' = events \ {c}
  /\ UNCHANGED <<isEt, sent, eof>>
(* et: recv until there is nothing more.  At the end of the stream the     *)
(* socket is closed; the loop's next recv and close then fail.             *)
EtRecv(c) ==
  /\ isEt /\ c \in events
  /\ IF sent[c] > got[c]
     THEN Received(c) /\ UNCHANGED <<peer, edges, events>>
     ELSE /\ peer' = [peer EXCEPT ![c] = IF eof[c] THEN "closed" ELSE @]
          /\ edges' = (IF eof[c] THEN edges \ {c} ELSE edges)
          /\ events' = events \ {c} /\ UNCHANGED got
  /\ UNCHANGED <<isEt, sent, eof>>

-----------------------------------------------------------------------------
EpollInit ==
  /\ isEt \in BOOLEAN /\ edges = {} /\ events = {}
  /\ peer = [c \in Peers |-> "none"] /\ eof = [c \in Peers |-> FALSE]
  /\ sent = [c \in Peers |-> 0] /\ got = [c \in Peers |-> 0]
ServerStep == epoll_wait \/ AcceptOne \/ \E c \in Peers : LtRecv(c) \/ EtRecv(c)
EpollNext == ServerStep \/ \E c \in Peers : Dial(c) \/ Send(c) \/ Hangup(c)
(* The server's loop runs; clients owe nothing.                            *)
EpollFairness == WF_epollVars(ServerStep)
EpollSpec == EpollInit /\ [][EpollNext]_epollVars /\ EpollFairness

-----------------------------------------------------------------------------
(* Everything a client sends on an accepted connection is received, and    *)
(* when the client closes the server closes too, in either mode, although  *)
(* an edge is reported once and data may arrive at any point of the loop   *)
(* that handles an earlier edge.                                           *)
SentIsReceived ==
  \A c \in Peers :
    /\ \A n \in 1..MaxBytes : (peer[c] = "open" /\ sent[c] >= n) ~> (got[c] >= n)
    /\ (peer[c] = "open" /\ eof[c]) ~> (peer[c] = "closed")
=============================================================================
