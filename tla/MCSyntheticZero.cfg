CONSTANTS
  Callers = {c1}
  Addrs = {0, 1, 2}
  Refresh = 1
  MaxTime = 4
  FdTtl = 2
  DiskTtl = 3
  MaxBytes = 1
  MaxFailures = 0
  MaxPanics = 0
SPECIFICATION Spec
INVARIANT NoSyntheticZero
