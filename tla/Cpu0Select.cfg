SPECIFICATION Spec
CONSTANTS
  Bits = 4
  ImmBits = 2
  OtherFlags = 4
CHECK_DEADLOCK FALSE
INVARIANTS
  SameSignExact
  SltExact
  ContextsAgree
  ConstantsExact
  ShiftsExact
  WideExact
  CarryExact
