CONSTANTS
  Bits = 10
  ImmBits = 5
  MEMSIZE = 16
  DigitBits = 2
  SpValues <- MCSpValues
  Contents <- MCContents
  Data <- MCData
  RegFiles <- MCRegFiles
  Opcodes = {3}
  RegFields = {5}
  Beyond = 9
  HighHalves <- MCHighHalves
SPECIFICATION Spec
INVARIANTS
  StackAdjustExact
  MemoryExact
  ByValArrives
  ExpansionExact
  PrintExact
  FixupTable
  DisplacementExact
  HiLoExact
  DecodeExact
CHECK_DEADLOCK FALSE
