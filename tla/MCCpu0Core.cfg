SPECIFICATION Spec
CONSTANTS
  Half = 128
  IOADDR = 108
  BodyLength = 3
  Body <- SwLoadBodies
  DataAddr <- MCDataAddr
  DataImages <- MCDataImages
  Programs <- MCPrograms
  CodeAddr <- MCCodeAddr
  Image <- MCImage
  Undef <- MCUndef
  Alu <- MCAlu
  HiLo <- MCHiLo
  Extend <- MCExtend
  Merge <- MCMerge
  SwFlags <- MCSwFlags
  SwWord <- MCSwWord
INVARIANTS
  TypeOK
  NoSecondReset
  InterruptBetweenInstructions
  BusDiscipline
PROPERTY RequestsSticky
