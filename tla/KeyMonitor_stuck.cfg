SPECIFICATION FairSpec
CONSTANTS
  k1 = k1
  c1 = c1
  Keyboard = {k1}
  Mouse = {}
  Codes = {c1, c2}
  ByteOf <- MCByteOf
  Converted <- MCConverted
  Unhooked = {}
  Addrs = {a1, a2}
  Kinds = {"async"}
  MaxPresses = 2
  MaxPlays = 0
  MaxSwitches = 1
PROPERTIES ReleasedKeyShownUp
CHECK_DEADLOCK FALSE
