CONSTANTS
  Threads = {0, 1}
  MaxStages = 1
  WindowSecs = 3
  MaxTick = 3
  MaxStale = 1
  Samples = {s1, s2}
  NoSample = NoSample
  MaxFoldAttempts = 2
  FoldLag = 1
SPECIFICATION FoldingFairSpec
CHECK_DEADLOCK FALSE
INVARIANT NothingCountedTwice
PROPERTIES
  FoldEnds
  RecordsEnd
