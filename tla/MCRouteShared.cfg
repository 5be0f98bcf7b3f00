CONSTANTS
  Threads = {t1, t2}
  Lines = {l1}
  Requests = {r1, r2}
  Keys = {k1, k2}
  OverflowKey = overflow
  MaxEndpoints = 1
  CacheLimit = 1
  WindowSecs = 1
  MaxStale = 1
  MaxTick = 1
  NoThread = NoThread
  NoRow = NoRow
  NoKey = NoKey
SPECIFICATION Spec
SYMMETRY NameSymmetry
CHECK_DEADLOCK FALSE
INVARIANTS
  ColdMeansEmpty
