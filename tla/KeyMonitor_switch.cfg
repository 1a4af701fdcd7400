SPECIFICATION FairSpec
CONSTANTS
  k1 = k1
  c1 = c1
  Keyboard = {k1}
  Mouse = {}
  Codes = {c1, c2}
  ByteOf <- MCByteOf
  Converted <- MCConverted
  Unhooked = {}
  Addrs = {a1, a2}
  Kinds = {"async", "dinput", "hook", "memory"}
  MaxPresses = 1
  MaxPlays = 1
  MaxSwitches = 2
INVARIANTS TypeOK ReporterIsAlone CountBounded
PROPERTIES SwitchEnds ShowsRelease PollShowsPress
CHECK_DEADLOCK FALSE
