SPECIFICATION FairSpec
CONSTANTS
  Windows = {"main", "key"}
  Handles = {h1, h2}
  MaxOpens = 2
INVARIANTS TypeOK WindowsInOrder UsesExplained OneInstance
PROPERTIES CloseEnds
CHECK_DEADLOCK FALSE
