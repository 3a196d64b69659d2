------------------------------ MODULE MCAeLoop ------------------------------
(* Values for AeLoop: one descriptor with one handler, two time events.    *)
EXTENDS AeLoop

CONSTANT p

MCProcs == {p}
MCSetSizes == {1}
MCDelays == {1}
=============================================================================
