SPECIFICATION FairSpec
CONSTANTS
  k1 = k1
  k2 = k2
  Keys = {k1, k2}
  Layout <- MCLayout
  MaxPresses = 1
  MaxModify = 2
INVARIANTS TypeOK InfoCoversRow BooksAgree ButtonsFollowEvents ResetLeavesNothing
PROPERTIES AutoplayFollows
