SPECIFICATION Spec
CONSTANTS
  MaxOps = 2
  MaxDepth = 2
CHECK_DEADLOCK FALSE
INVARIANT NotReentered
