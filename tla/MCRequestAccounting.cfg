CONSTANTS
  Requests = {r1, r2, r3}
  Shards = {a, b}
SPECIFICATION Spec
SYMMETRY RequestSymmetry
INVARIANTS
  TypeOK
  NeverNegative
  NeverShort
  NeverPast
  GaugesAgree
