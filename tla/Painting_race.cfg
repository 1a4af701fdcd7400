SPECIFICATION PaintSpec
CONSTANTS
  Buttons = {1, 2}
  MaxTime = 3
INVARIANT ParamsNotNegative
