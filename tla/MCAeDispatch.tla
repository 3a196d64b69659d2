---------------------------- MODULE MCAeDispatch ----------------------------
(* Values for AeDispatch: two descriptors, so that the handler of one      *)
(* entry can reach the entry behind it, and two handlers.                  *)
EXTENDS AeDispatch, TLC

CONSTANTS p, q

MCProcs == {p, q}
MCOneProc == {p}
MCSetSizes == {2}
ProcSymmetry == Permutations(Procs)
=============================================================================
