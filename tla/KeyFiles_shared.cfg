SPECIFICATION KeySpec
CONSTANTS
  Node = {n1, n2, n3}
  Absent = Absent
  Torn = Torn
  MaxCAs = 2
SYMMETRY Symmetry
INVARIANTS KeysKept  TrustUnlessRaced
