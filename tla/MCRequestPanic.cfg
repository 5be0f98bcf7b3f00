CONSTANTS
  Requests = {r1, r2, r3}
  Shards = {a, b}
SPECIFICATION Spec
SYMMETRY RequestSymmetry
INVARIANT OnlyHandledInFlight
