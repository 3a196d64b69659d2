SPECIFICATION ServicesSpec
CONSTANTS
  c1 = c1
  c2 = c2
  c3 = c3
  p1 = p1
  p2 = p2
  Consumers <- ThreeConsumers
  MaxPush = 5
  Fds = {3, 4, 5}
  MaxAddrs = 3
  Allocators = {1, 2}
  MainThread = 1
  Blocks = {1, 2}
  Sizes = {0, 3, 4}
  Word = 4
  SizeT = 64
  Peers <- TwoPeers
  MaxBytes = 3
  Chunk = 2
  Sockets = {1, 2}
INVARIANTS
  InOrder
  NoLostWakeup
  DescriptorsAccounted
  UsedMemoryIsExact
  SendClosedOnce
PROPERTIES
  SentIsReceived
CHECK_DEADLOCK FALSE
