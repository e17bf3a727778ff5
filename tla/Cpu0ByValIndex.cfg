CONSTANTS
  MaxArgs = 4
  ByValSizes = {1, 4, 7, 12}
SPECIFICATION Spec
INVARIANT TableInBounds
CHECK_DEADLOCK FALSE
