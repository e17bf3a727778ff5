SPECIFICATION Spec
CONSTANTS
  Half = 128
  IOADDR = 108
  BodyLength = 2
  Body <- AllKinds
  DataAddr <- MCDataAddr
  DataImages <- MCDataImages
  Programs <- MCPrograms
  CodeAddr <- MCCodeAddr
  Image <- MCImage
  Undef <- MCUndef
  Alu <- MCAlu
  HiLo <- MCHiLo
  Extend <- MCExtend
  Merge <- MCMerge
  SwFlags <- MCSwFlags
  SwWord <- MCSwWord
PROPERTIES
  ImplementsIsa
  OverflowServed
