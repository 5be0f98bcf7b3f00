CONSTANTS
  Callers = {c1, c2}
  Addrs = {0, 1, 2, 3}
  Refresh = 1
  MaxTime = 2
  FdTtl = 2
  DiskTtl = 3
  MaxBytes = 0
  MaxFailures = 0
  MaxPanics = 0
SPECIFICATION FairSpec
INVARIANTS
  WorkersNeverWait
PROPERTIES
  ImplementsRegister
  PollsEnd
