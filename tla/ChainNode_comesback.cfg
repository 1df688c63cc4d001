SPECIFICATION FairSpec
CONSTANTS
  Height <- MCHeight
  Prev <- MCPrev
  Time <- MCTime
  Producer <- MCProducer
  Verdict <- MCVerdict
  Genesis = "gen"
  NoBlock = "none"
  Self = "me"
  FinalityDepth = 2
  BufferDistance = 2
  FutureSkew = 1
  Block <- MCSmallBlock
  BestEffort = FALSE
  OperatorRestarts = TRUE
  FaultCallers = {"handler", "drain", "replay"}
  MaxTime = 2
  MaxCrashes = 2
  MaxFaults = 1
  MaxRot = 1
PROPERTIES ComesBack
