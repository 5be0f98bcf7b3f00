CONSTANTS
  SubBits = 3
  MaxLog = 10
  MaxLatency = 850
  MaxSegment = 48
  MaxPath = 128
  ShortestId = 8
  LongestId = 32
  UuidLength = 36
  Latencies <- SomeLatencies
  Histograms <- SomeHistograms
  Requests <- SomeRequests
  Headers <- SomeHeaders
SPECIFICATION Spec
CHECK_DEADLOCK FALSE
INVARIANTS
  BucketsRight
  PercentilesRight
  KeysSound
  NegotiationRight
