SPECIFICATION Spec
CONSTANTS
  Writer = {p1}
  Reader = {r1}
  Pair = {q1, q2, q3}
  MaxNode = 2
  MaxWrite = 3
  NoPair = NoPair
  Segment = {g1, g2}
  NoSegment = NoSegment
SYMMETRY Symmetry
INVARIANTS TypeOK UniquePair FailsOnlyIfFull ReadFindsStored StoredStays
PROPERTY RefinesKeyTable
