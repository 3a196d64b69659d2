--------------------------- MODULE MCAeRegistries ----------------------------
(* The two registries of the event loop, which share no state: unit says   *)
(* which of them a behaviour is about.                                     *)
(* The file events: three descriptors, tables of one to three slots, so    *)
(* that descriptors beyond the table, gaps below maxfd, growing and        *)
(* shrinking all occur.                                                    *)
(* The time events: seconds of three milliseconds, delays of less and of   *)
(* more than a second, and three events, so that a handler can create one  *)
(* event and delete another while it runs.                                 *)
EXTENDS AeTable, AeTimeEvents, TLC

CONSTANTS p, q

MCProcs == {p, q}
MCSetSizes == 1..3
MCDelays == {2, 4}
ProcSymmetry == Permutations(Procs)

VARIABLE unit

RegistriesInit == TableInit /\ TimeInit /\ unit \in {"file", "time"}
RegistriesNext ==
  /\ UNCHANGED unit
  /\ \/ unit = "file" /\ TableNext /\ UNCHANGED timeVars
     \/ unit = "time" /\ TimeNext /\ UNCHANGED tableVars
RegistriesSpec ==
  RegistriesInit /\ [][RegistriesNext]_<<tableVars, timeVars, unit>>
=============================================================================
