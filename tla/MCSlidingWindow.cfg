CONSTANTS
  Threads = {0, 1, 2}
  MaxStages = 2
  WindowSecs = 3
  MaxTick = 4
  MaxStale = 1
  Samples = {s1, s2, s3, s4}
  NoSample = NoSample
SPECIFICATION Spec
SYMMETRY SampleSymmetry
CHECK_DEADLOCK FALSE
INVARIANTS
  TypeOK
  ResetExclusive
  RightSecond
  CountedOnce
PROPERTY ImplementsWindow
