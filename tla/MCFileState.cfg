SPECIFICATION Spec
CONSTANTS
  Files = {a, b, c}
  MaxBatch = 2
  MaxDepth = 2
SYMMETRY Symmetry
CHECK_DEADLOCK FALSE
INVARIANTS
  TypeOK
  SlotsMatchIndices
  IndicesOrderFiles
  ListenersKnowFiles
  MirrorMatches
PROPERTY KeepsLoadOrder
