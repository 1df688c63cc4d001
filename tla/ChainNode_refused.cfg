SPECIFICATION Spec
CONSTANTS
  Height <- MCHeight
  Prev <- MCPrev
  Time <- MCTime
  Producer <- MCProducer
  Verdict <- MCVerdict
  Genesis = "gen"
  NoBlock = "none"
  Self = "me"
  FinalityDepth = 2
  BufferDistance = 2
  FutureSkew = 1
  Block <- MCSmallBlock
  BestEffort = FALSE
  OperatorRestarts = FALSE
  FaultCallers = {}
  MaxTime = 2
  MaxCrashes = 0
  MaxFaults = 0
  MaxRot = 0
INVARIANTS StartupSucceeds
