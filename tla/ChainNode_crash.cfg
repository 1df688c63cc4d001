SPECIFICATION Spec
CONSTANTS
  Height <- MCHeight
  Prev <- MCPrev
  Time <- MCTime
  Producer <- MCProducer
  Verdict <- MCVerdict
  Genesis = "gen"
  NoBlock = "none"
  Self = "me"
  FinalityDepth = 2
  BufferDistance = 2
  FutureSkew = 1
  Block <- MCBlock
  BestEffort = FALSE
  OperatorRestarts = TRUE
  FaultCallers = {"handler", "drain"}
  MaxTime = 4
  MaxCrashes = 2
  MaxFaults = 2
  MaxRot = 0
INVARIANTS TypeOK ChainSound  ServedIsDurable OneFileAhead NotAheadOfClock FinalityLag
PROPERTIES LogSpec
