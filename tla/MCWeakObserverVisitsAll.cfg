CONSTANTS
  o1 = o1
  o2 = o2
  o3 = o3
  p1 = p1
  p2 = p2
  NULL = NULL
  Observer <- MCObserver
  Publisher <- MCPublisher
  MaxClock = 3
  MaxDepth = 2
SPECIFICATION Spec
INVARIANT VisitsAllObservers
SYMMETRY Symmetry
