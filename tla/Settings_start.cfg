SPECIFICATION Spec
CONSTANTS
  Resources <- MCResources
  Vks = {"k1", "k2"}
  Sided <- MCSided
  MaxButtons = 2
  Notches <- MCNotches
  EditedInts <- MCEditedInts
  MaxChanges = 2
  MaxEdits = 1
  MaxStarts = 2
INVARIANTS StartSucceeds
CHECK_DEADLOCK FALSE
