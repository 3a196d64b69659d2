----------------------------- MODULE MCServices -----------------------------
(* Parts that serve other threads, processes or peers: the thread-safe     *)
(* queue with three consumers, so that one can be asleep while one was     *)
(* woken and one steals; anet with three descriptors and names of up to    *)
(* three addresses; zmalloc with two threads, two blocks and sizes on both *)
(* sides of a word; the epoll server with two clients that send more than  *)
(* one recv takes; and the echo server.  They share no state; unit says    *)
(* which one runs.                                                         *)
EXTENDS ThreadSafeQueue, Anet, Zmalloc, EpollServer, EchoServer

CONSTANTS c1, c2, c3, p1, p2

ThreeConsumers == {c1, c2, c3}
TwoPeers == {p1, p2}

VARIABLE unit

servicesVars ==
  <<queueVars, anetVars, zmallocVars, epollVars, echoVars, unit>>

ServicesInit ==
  /\ QueueInit /\ AnetInit /\ ZmallocInit /\ EpollInit /\ EchoInit
  /\ unit \in {"queue", "anet", "zmalloc", "epoll", "echo"}
  /\ unit # "epoll" => isEt = FALSE
ServicesNext ==
  /\ UNCHANGED unit
  /\ \/ unit = "queue" /\ QueueNext /\ UNCHANGED <<anetVars, zmallocVars, epollVars, echoVars>>
     \/ unit = "anet" /\ AnetNext /\ UNCHANGED <<queueVars, zmallocVars, epollVars, echoVars>>
     \/ unit = "zmalloc" /\ ZmallocNext /\ UNCHANGED <<queueVars, anetVars, epollVars, echoVars>>
     \/ unit = "epoll" /\ EpollNext /\ UNCHANGED <<queueVars, anetVars, zmallocVars, echoVars>>
     \/ unit = "echo" /\ EchoNext /\ UNCHANGED <<queueVars, anetVars, zmallocVars, epollVars>>
ServicesSpec ==
  /\ ServicesInit /\ [][ServicesNext]_servicesVars
  /\ unit # "epoll" \/ EpollFairness
=============================================================================
