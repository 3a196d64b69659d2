SPECIFICATION DispatchSpec
CONSTANTS
  MaxFd = 1
  SetSizes <- MCSetSizes
  Procs <- MCProcs
  NoProc = NoProc
  p = p
  q = q
SYMMETRY ProcSymmetry
PROPERTIES
  CallsRegistered
  
  
