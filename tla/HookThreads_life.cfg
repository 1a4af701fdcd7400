SPECIFICATION FairSpec
CONSTANTS
  Addrs = {a1, a2}
  Tids = {t1, t2, t3, t4}
  MaxMade = 2
  MaxInputs = 3
INVARIANTS TypeOK NoDanglingInstance FaultNeedsRace
PROPERTIES SwitchCompletes HookShowsRelease
CHECK_DEADLOCK FALSE
