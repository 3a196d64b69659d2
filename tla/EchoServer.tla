----------------------------- MODULE EchoServer -----------------------------
(***************************************************************************)
(* acl/websocket/server/main.go: the goroutine of ClientManager.Start, one *)
(* request handler and one Read goroutine per client.  Register and        *)
(* Unregister are unbuffered channels, so a send is one step with the      *)
(* receive of Start.  The echoed messages do not matter here.              *)
(***************************************************************************)
EXTENDS Naturals

CONSTANT Sockets        \* the connections clients make

VARIABLES
  Clients,      \* manager.Clients
  client,       \* where each connection's goroutine is
  closes        \* how often each client's Send channel was closed

echoVars == <<Clients, client, closes>>

Goes(c, from, to) == client[c] = from /\ client' = [client EXCEPT ![c] = to]

-----------------------------------------------------------------------------
(* handleEcho: the upgrade succeeds or the request is answered with 404.   *)
handleEcho(c) ==
  /\ Goes(c, "new", "register") \/ Goes(c, "new", "refused")
  /\ UNCHANGED <<Clients, closes>>
(* Start: case conn := <-manager.Register, and go client.Read().           *)
Register(c) ==
  /\ Goes(c, "register", "read")
  /\ Clients' = Clients \cup {c} /\ UNCHANGED closes
(* Read: ReadMessage fails; the first of the two sends to Unregister is    *)
(* the loop's, the second the deferred function's, each with a Close.      *)
ReadFails(c) == Goes(c, "read", "unregister") /\ UNCHANGED <<Clients, closes>>
(* Mutant: Unregister closes Send without looking the client up.           *)
UnregisterAnyway(c) ==
  /\ Goes(c, "unregister", "deferred") \/ Goes(c, "deferred", "returned")
  /\ Clients' = Clients \ {c}
  /\ closes' = [closes EXCEPT ![c] = @ + 1]
(* Start: case conn := <-manager.Unregister.                               *)
Unregister(c) ==
  /\ Goes(c, "unregister", "deferred") \/ Goes(c, "deferred", "returned")
  /\ Clients' = Clients \ {c}
  /\ closes' = IF c \in Clients THEN [closes EXCEPT ![c] = @ + 1] ELSE closes

-----------------------------------------------------------------------------
EchoInit ==
  /\ Clients = {} /\ client = [c \in Sockets |-> "new"] /\ closes = [c \in Sockets |-> 0]
EchoNext ==
  \E c \in Sockets : handleEcho(c) \/ Register(c) \/ ReadFails(c) \/ Unregister(c)
EchoSpec == EchoInit /\ [][EchoNext]_echoVars

-----------------------------------------------------------------------------
(* Every client whose socket failed unregisters twice, but its Send        *)
(* channel is closed exactly once (a second close would panic and end the  *)
(* server) and the manager has forgotten it when its goroutine returns.    *)
SendClosedOnce ==
  \A c \in Sockets :
    /\ closes[c] = (IF client[c] \in {"deferred", "returned"} THEN 1 ELSE 0)
    /\ (c \in Clients) = (client[c] \in {"read", "unregister"})
=============================================================================
