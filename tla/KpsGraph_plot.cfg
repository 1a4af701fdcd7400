SPECIFICATION Spec
CONSTANTS
  Keys = {k1}
  k1 = k1
  k2 = k2
  KeySets <- MCKeySets
  Second = 2
  Considered = 5
  FrameLength = 2
  Buckets = 3
  MaxCache = 4
  MaxLag = 2
  MaxTime = 11
  MaxRecords = 2
  Methods = {"hard", "sensitive"}
INVARIANTS TypeOK PlotIsRecount PlotShowsPresses PastIsStable
