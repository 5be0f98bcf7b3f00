CONSTANTS
  Threads = {t1}
  Lines = {l1}
  Requests = {r1, r2, r3, r4}
  Keys = {k1, k2, k3, k4}
  OverflowKey = overflow
  MaxEndpoints = 1
  CacheLimit = 1
  WindowSecs = 1
  MaxStale = 1
  MaxTick = 0
  NoThread = NoThread
  NoRow = NoRow
  NoKey = NoKey
SPECIFICATION Spec
SYMMETRY NameSymmetry
CHECK_DEADLOCK FALSE
INVARIANTS
  TableBounded
