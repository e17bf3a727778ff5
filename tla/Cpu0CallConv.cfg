CONSTANTS
  MaxArgs = 4
  ByValSizes = {1, 4, 7, 12}
SPECIFICATION Spec
INVARIANTS
  TypeOK
  ArgumentsDisjoint
  StackWithinCallFrame
  I64Whole
CHECK_DEADLOCK FALSE
