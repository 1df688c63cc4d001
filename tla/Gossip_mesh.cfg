SPECIFICATION FairSpec
CONSTANTS
  Node <- MCNode
  Peers <- MCTriangle
  Leader = "a"
  NoSender = "nobody"
  TTL = 3
  SeenMax = 1
  BufferDistance = 2
  MaxHeight = 2
  MaxMessages = 1
  MaxLosses = 1
  Apart = TRUE
  Lag = 2
INVARIANTS TypeOK BlockRelayedOnce
PROPERTIES DiesOut 
\* Every block is proposed and every copy is gone: nothing is left to do.
CHECK_DEADLOCK FALSE
