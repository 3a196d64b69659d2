SPECIFICATION LoopSpec
CONSTANTS
  MaxFd = 0
  SetSizes <- MCSetSizes
  Procs <- MCProcs
  NoProc = NoProc
  p = p
  MsPerSec = 2
  FirstSec = 1
  LastSec = 2
  Delays <- MCDelays
  MaxEvents = 2
  Forever = Forever
PROPERTIES
  
  
  LoopStops
CHECK_DEADLOCK FALSE
