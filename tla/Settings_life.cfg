SPECIFICATION Spec
CONSTANTS
  Resources <- MCResources
  Vks = {"k1", "k2"}
  Sided <- MCSided
  MaxButtons = 2
  Notches <- MCNotches
  EditedInts <- MCEditedInts
  MaxChanges = 2
  MaxEdits = 1
  MaxStarts = 2
INVARIANTS TypeOK ComponentsAgree RestartRestores
PROPERTIES LayoutsReplacedWhole ChosenIsChecked
CHECK_DEADLOCK FALSE
