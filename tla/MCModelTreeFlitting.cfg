SPECIFICATION Spec
CONSTANTS
  Root = root
  Collections = {c1}
  Features = {f1}
  NULL = NULL
  MaxOps = 3
CHECK_DEADLOCK FALSE
INVARIANT NoFlittingChild
