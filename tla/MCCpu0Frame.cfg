CONSTANTS
  Callee = {"f", "g"}
  Programs <- MCPrograms
  StackTop = 208
  MaxDepth = 3
  ImmLimit = 63
SPECIFICATION Spec
INVARIANTS
  TypeOK
  ArgsArrive
  FramesKept
PROPERTY ReturnsHome
