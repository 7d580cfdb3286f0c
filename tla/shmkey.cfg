SPECIFICATION Spec
CONSTANTS
  Process = {p1, p2}
  Pair = {a, b, c}
  KeyId = {k1, k2}
  MaxNode = 2
  MaxSeg = 2
  MaxPut = 3
  None = None
SYMMETRY Symmetry
CHECK_DEADLOCK FALSE
INVARIANTS NameLeadsToNothing
PROPERTIES GetFindsKept
