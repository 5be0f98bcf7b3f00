CONSTANTS
  Threads = {0, 1, 2}
  MaxStages = 2
  WindowSecs = 3
  MaxTick = 3
  MaxStale = 1
  Samples = {s1, s2, s3}
  NoSample = NoSample
  MaxFoldAttempts = 2
  FoldLag = 1
SPECIFICATION FoldingSpec
SYMMETRY SampleSymmetry
CONSTRAINT OnTime
CHECK_DEADLOCK FALSE
INVARIANTS
  FoldTypeOK
  NothingCountedTwice
  SeenInItsSecond
  MissedOnlyIfLeftOut
  AttemptsBounded
