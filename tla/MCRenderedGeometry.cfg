SPECIFICATION Spec
CONSTANTS
  None = None
  VisualLayers = {k, l}
  Workflows = {inspection, poles}
  MaxOps = 6
  MaxDepth = 2
  MaxCalls = 20
CHECK_DEADLOCK FALSE
INVARIANTS TypeOK ChangesTold FocusHighlighted
PROPERTIES CallsReturn
