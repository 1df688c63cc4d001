SPECIFICATION FairSpec
CONSTANTS
  Peer = {L}
  Leader = L
  Nobody = Nobody
  Chunk = 2
  BufferDistance = 2
  SuppressAfter = 2
  Burst = 3
  Refill = 3
  MaxHeight = 2
  MaxFaults = 1
  MaxOutages = 1
  MaxRestarts = 1
  MaxLosses = 1
  MaxPulls = 1
  MaxTrouble = 3
INVARIANTS TypeOK AheadIsHeard
PROPERTY ReachesParity
