CONSTANTS
  Threads = {t1, t2, t3}
  MaxStages = 2
  MaxSamples = 2
SPECIFICATION CountersSpec
SYMMETRY ThreadSymmetry
INVARIANTS
  TypeOK
  IndicesPartitioned
  SpaceIsCompact
  CountersExact
  ReadBetween
PROPERTY ImplementsAllocator
