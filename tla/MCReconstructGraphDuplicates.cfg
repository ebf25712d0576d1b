SPECIFICATION Spec
CONSTANTS
  Files = {f, g}
  Rotations = {r, s}
  Reconstructs = {c}
  Velocities = {v}
  Topologies = {t}
  Rasters = {a}
  Contents = {{"rotation"}, {"reconstruct", "velocity"}, {"topology"}, {"raster"}}
  NoFile = NoFile
  Duplicates = TRUE
  MaxOps = 3
  MaxDepth = 0
SYMMETRY Symmetry
CHECK_DEADLOCK FALSE
INVARIANT TasksKnowInputs
