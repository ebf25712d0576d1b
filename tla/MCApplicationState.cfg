SPECIFICATION Spec
CONSTANTS
  MaxOps = 5
  MaxDepth = 4
CHECK_DEADLOCK FALSE
INVARIANTS TypeOK ChangesRemembered ShownWhenIdle SectionsRightWhenIdle
PROPERTIES CallsReturn
