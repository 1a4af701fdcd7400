SPECIFICATION SearchSpec
CONSTANTS
  Keys = {k1, k2}
  Second = 2
  Considered = 5
  MaxLag = 1
  MaxTime = 6
  MaxRecords = 4
INVARIANTS
  SearchTypeOK
  ShownWhileRecent
  NoRiseWithoutPress
SYMMETRY KeySymmetry
