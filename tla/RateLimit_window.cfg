SPECIFICATION Spec
CONSTANTS
  r1 = r1
  r2 = r2
  local = local
  h1 = h1
  h2 = h2
  Ips <- MCIps
  Loopback = {local}
  Paths <- MCPaths
  Handlers = {h1, h2}
  RPS = 5
  BurstOption = 15
  TTL = 5
  MaxDelay = 1
  MaxTime = 6
  None = None
SYMMETRY Alike
INVARIANTS TypeOK WindowBound
PROPERTIES RefusedForAReason
\* The clock ends.
CHECK_DEADLOCK FALSE
