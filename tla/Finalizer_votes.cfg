SPECIFICATION Spec
CONSTANTS
  v1 = v1
  v2 = v2
  outsider = outsider
  n1 = n1
  n2 = n2
  x1 = x1
  x2 = x2
  Hash = {x1, x2}
  NoHash = NoHash
  Torn = Torn
  Node = {n1, n2}
  Validator = {v1, v2}
  Faulty = {outsider}
  Height = {1, 2}
  MaxFaults = 1
  MaxRestarts = 2
INVARIANTS TypeOK Agreement NoReorg
SYMMETRY Symmetry
