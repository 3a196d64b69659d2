-------------------------- MODULE ThreadedExample ---------------------------
(***************************************************************************)
(* libnice/examples/threaded-example.c (sdp-example.c has the same two     *)
(* threads): main runs the GLib loop, in which the agent's callbacks are   *)
(* called; the example thread waits on a condition variable first for the  *)
(* candidates, then for the negotiation, and polls stdin in between and    *)
(* after.  exit_thread and the two flags are plain globals.  The agent,    *)
(* the user and the remote client are the environment.                     *)
(***************************************************************************)
EXTENDS Naturals

VARIABLES
  loopRuns,     \* g_main_loop_run has not been told to quit
  mainpc,       \* main: in the "loop", at the "join", or "exited"
  expc,         \* the example thread: at the test of a wait ("gather" or
                \* "negotiate"), asleep in it (-Wait), past it (-Done); reading
                \* the "remote" data, in the "chat", at the "end", or "ended"
  exit_thread, candidate_gathering_done, negotiation_done,
  agent         \* the agent: "gathering", "gathered", "checking", "ready",
                \* "failed"
exampleVars == <<loopRuns, mainpc, expc, exit_thread, candidate_gathering_done,
                 negotiation_done, agent>>

-----------------------------------------------------------------------------
(* main: the loop ends, exit_thread is set, the thread is joined.  Nobody  *)
(* is signalled.                                                           *)
LoopReturns ==
  /\ mainpc = "loop" /\ ~loopRuns
  /\ exit_thread' = TRUE /\ mainpc' = "join"
  /\ UNCHANGED <<loopRuns, expc, candidate_gathering_done, negotiation_done, agent>>
ThreadJoined ==
  /\ mainpc = "join" /\ expc = "ended"
  /\ mainpc' = "exited"
  /\ UNCHANGED <<loopRuns, expc, exit_thread, candidate_gathering_done, negotiation_done, agent>>

(* The callbacks, each called by the running loop.  A signal under the     *)
(* mutex sends a waiting thread back to its test.                          *)
InLoop == mainpc = "loop" /\ loopRuns
(* Mutant: the flag without the signal.                                    *)
GatheringDoneUnsignalled ==
  /\ InLoop /\ agent = "gathering"
  /\ agent' = "gathered" /\ candidate_gathering_done' = TRUE
  /\ UNCHANGED <<expc, loopRuns, mainpc, exit_thread, negotiation_done>>
cb_candidate_gathering_done ==
  /\ InLoop /\ agent = "gathering"
  /\ agent' = "gathered" /\ candidate_gathering_done' = TRUE
  /\ expc' = IF expc = "gatherWait" THEN "gather" ELSE expc
  /\ UNCHANGED <<loopRuns, mainpc, exit_thread, negotiation_done>>
cb_component_state_changed ==
  /\ InLoop /\ agent \in {"checking", "ready"}
  /\ \/ /\ agent = "checking" /\ agent' = "ready"
        /\ negotiation_done' = TRUE
        /\ expc' = IF expc = "negotiateWait" THEN "negotiate" ELSE expc
        /\ UNCHANGED loopRuns
     \/ /\ agent' = "failed"
        /\ loopRuns' = FALSE
        /\ UNCHANGED <<negotiation_done, expc>>
  /\ UNCHANGED <<mainpc, exit_thread, candidate_gathering_done>>
(* The remote client says goodbye; it may be ready before we are.          *)
cb_nice_recv ==
  /\ InLoop /\ agent \in {"checking", "ready"}
  /\ loopRuns' = FALSE
  /\ UNCHANGED <<mainpc, expc, exit_thread, candidate_gathering_done, negotiation_done, agent>>

(* The test of a wait with the mutex held, and what follows the wait.      *)
Test(flag, at, sleep, past) ==
  /\ expc = at
  /\ expc' = IF exit_thread \/ flag THEN past ELSE sleep
  /\ UNCHANGED <<loopRuns, mainpc, exit_thread, candidate_gathering_done, negotiation_done, agent>>
TestGathered == Test(candidate_gathering_done, "gather", "gatherWait", "gatherDone")
TestNegotiated == Test(negotiation_done, "negotiate", "negotiateWait", "negotiateDone")
AfterWait ==
  /\ expc \in {"gatherDone", "negotiateDone"}
  /\ expc' = IF exit_thread THEN "end" ELSE IF expc = "gatherDone" THEN "remote" ELSE "chat"
  /\ UNCHANGED <<loopRuns, mainpc, exit_thread, candidate_gathering_done, negotiation_done, agent>>
WakeWithoutSignal ==
  /\ expc \in {"gatherWait", "negotiateWait"}
  /\ expc' = IF expc = "gatherWait" THEN "gather" ELSE "negotiate"
  /\ UNCHANGED <<loopRuns, mainpc, exit_thread, candidate_gathering_done, negotiation_done, agent>>
(* The remote candidates: parse_remote_data starts the negotiation.        *)
RemoteData ==
  /\ expc = "remote" /\ ~exit_thread
  /\ expc' = "negotiate"
  /\ agent' = IF agent = "gathered" THEN "checking" ELSE agent
  /\ UNCHANGED <<loopRuns, mainpc, exit_thread, candidate_gathering_done, negotiation_done>>
(* The polling loops see exit_thread; the first falls through to the wait. *)
StopReading ==
  /\ exit_thread /\ expc \in {"remote", "chat"}
  /\ expc' = IF expc = "remote" THEN "negotiate" ELSE "end"
  /\ UNCHANGED <<loopRuns, mainpc, exit_thread, candidate_gathering_done, negotiation_done, agent>>
CtrlD ==
  /\ expc = "chat" /\ ~exit_thread
  /\ expc' = "end"
  /\ UNCHANGED <<loopRuns, mainpc, exit_thread, candidate_gathering_done, negotiation_done, agent>>
(* Mutant: the thread ends without telling the loop.                       *)
EndSilently ==
  /\ expc = "end"
  /\ expc' = "ended"
  /\ UNCHANGED <<loopRuns, mainpc, exit_thread, candidate_gathering_done, negotiation_done, agent>>
End ==
  /\ expc = "end"
  /\ expc' = "ended" /\ loopRuns' = FALSE
  /\ UNCHANGED <<mainpc, exit_thread, candidate_gathering_done, negotiation_done, agent>>

-----------------------------------------------------------------------------
ExampleInit ==
  /\ loopRuns = TRUE /\ mainpc = "loop" /\ expc = "gather" /\ agent = "gathering"
  /\ exit_thread = FALSE /\ candidate_gathering_done = FALSE /\ negotiation_done = FALSE
ThreadRuns == TestGathered \/ TestNegotiated \/ AfterWait \/ StopReading \/ End
ExampleNext ==
  \/ LoopReturns \/ ThreadJoined
  \/ cb_candidate_gathering_done \/ cb_component_state_changed \/ cb_nice_recv
  \/ ThreadRuns \/ WakeWithoutSignal \/ RemoteData \/ CtrlD
(* Both threads run; the user and the network may do nothing.              *)
ExampleFairness ==
  /\ WF_exampleVars(LoopReturns \/ ThreadJoined) /\ WF_exampleVars(ThreadRuns)
ExampleSpec == ExampleInit /\ [][ExampleNext]_exampleVars /\ ExampleFairness

-----------------------------------------------------------------------------
(* Candidates that are gathered are read, and a negotiation that succeeds  *)
(* is seen: the callback's signal is not lost between the thread's test    *)
(* and its wait.                                                           *)
SignalsArrive ==
  /\ candidate_gathering_done ~> expc \notin {"gather", "gatherWait"}
  /\ (negotiation_done /\ expc \in {"negotiate", "negotiateWait"}) ~> expc \in {"chat", "end", "ended"}

(* When the loop has been told to quit, by a callback or by the thread, or *)
(* when the thread has ended, the program ends, unless the thread sleeps   *)
(* in the negotiation wait, which exit_thread does not end.                *)
ProgramEnds == (~loopRuns \/ expc = "ended") ~> (mainpc = "exited" \/ expc = "negotiateWait")

(* The thread's message before the wait, "waiting for state READY or       *)
(* FAILED signal...": after either state it goes on.                       *)
FailureEndsTheWait == agent = "failed" ~> expc # "negotiateWait"
=============================================================================
