SPECIFICATION MCSpec
CONSTANTS
  Root = root
  Collections = {c1, c2}
  Features = {f1, f2}
  NULL = NULL
  MaxOps = 4
SYMMETRY Symmetry
CHECK_DEADLOCK FALSE
INVARIANTS
  TypeOK
  RemoveFindsItsOwn
  HeldNewsIsTold
  UnsavedCoversChanges
  FlushedOnce
