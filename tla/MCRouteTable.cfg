CONSTANTS
  Threads = {t1, t2}
  Lines = {l1}
  Requests = {r1, r2, r3}
  Keys = {k1, k2, k3}
  OverflowKey = overflow
  MaxEndpoints = 2
  CacheLimit = 2
  WindowSecs = 2
  MaxStale = 1
  MaxTick = 2
  NoThread = NoThread
  NoRow = NoRow
  NoKey = NoKey
SPECIFICATION Spec
SYMMETRY NameSymmetry
CHECK_DEADLOCK FALSE
INVARIANTS
  TypeOK
  CacheCoherent
  ColdNearlyEmpty
PROPERTIES
  NeverReplaced
  EmptyFirstThenLRU
