CONSTANTS
  Callee = {"f", "g"}
  Programs <- LargeCalls
  StackTop = 208
  MaxDepth = 3
  ImmLimit = 63
SPECIFICATION Spec
INVARIANT LargeCallFrame
