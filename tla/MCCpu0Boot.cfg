SPECIFICATION Spec
CONSTANTS
  Half = 128
  IOADDR = 112
  EnableAll = 15
  FP = 12
  SP = 13
  GP = 11
  DataAddr <- MCDataAddr
  DataImages <- MCDataImages
  Programs <- MCPrograms
  CodeAddr <- MCCodeAddr
  Image <- BootImage
  Undef <- MCUndef
  Alu <- MCAlu
  HiLo <- MCHiLo
  Extend <- MCExtend
  Merge <- MCMerge
  SwFlags <- MCSwFlags
  SwWord <- MCSwWord
INVARIANTS
  MainEnvironment
  EntersAtTop
PROPERTIES
  BootReachesMain
  ReturnEndsSimulation
