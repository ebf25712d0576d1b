SPECIFICATION Spec
CONSTANTS
  p = p
  q = q
  a = a
  b = b
  t1 = t1
  t2 = t2
  t3 = t3
  s1 = s1
  s2 = s2
  s3 = s3
  h1 = h1
  h2 = h2
  h3 = h3
  None = None
  Caches <- MCCaches
  Objects <- MCObjects
  Volatiles <- MCVolatiles
  CacheOf <- MCCacheOf
  MinNum <- MCMinNum
  CubeTiles <- MCCubeTiles
  SourceTiles <- MCSourceTiles
  Covers <- MCCovers
  MaxOps = 7
  MaxHandles = 3
SYMMETRY Symmetry
CHECK_DEADLOCK FALSE
INVARIANTS TypeOK VolatilesMatch UsedWhileHeld TilesAreRight GrowsToPeak
PROPERTIES ImplementsVolatileCache
