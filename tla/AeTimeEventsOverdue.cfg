SPECIFICATION RegistriesSpec
CONSTANTS
  MaxFd = 2
  SetSizes <- MCSetSizes
  Procs <- MCProcs
  NoProc = NoProc
  p = p
  q = q
  MsPerSec = 3
  FirstSec = 1
  LastSec = 2
  Delays <- MCDelays
  MaxEvents = 3
INVARIANT
  OverdueTimerDoesNotBlock
