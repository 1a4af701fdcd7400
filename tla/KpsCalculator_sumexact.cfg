SPECIFICATION Spec
CONSTANTS
  k1 = k1
  k2 = k2
  Keys = {k1, k2}
  Threads = {t1}
  Addrs = {a1, a2}
  Offered = {"hard", "sensitive"}
  Vectors <- MCVectors
  FrameLength = 1
  MaxTime = 3
  MaxRecords = 3
INVARIANTS SumExact
