SPECIFICATION Spec
CONSTANTS
  Files = {f, g}
  Rotations = {r, s}
  Reconstructs = {c}
  Velocities = {v}
  Topologies = {t}
  Rasters = {a}
  Contents = {{"rotation"}, {"reconstruct", "velocity"}, {"topology"}, {"raster"}}
  NoFile = NoFile
  Duplicates = FALSE
  MaxOps = 3
  MaxDepth = 1
SYMMETRY Symmetry
CHECK_DEADLOCK FALSE
INVARIANTS
  TypeOK
  OutputsMatchConnections
  AssertionsHold
  TasksKnowInputs
  DefaultsExist
  GroupsNest
PROPERTIES AutoLayersGoWithFile ImplementsLayerGraph
