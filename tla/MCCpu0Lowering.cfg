SPECIFICATION Uninterrupted
CHECK_DEADLOCK FALSE
CONSTANTS
  Half = 128
  IOADDR = 112
  Imm16 = 64
  Imm24 = 64
  Saved = 8
  MirPrograms <- MCMirPrograms
  DataAddr <- MCDataAddr
  DataImages <- MCDataImages
  Programs <- MCPrograms
  CodeAddr <- MCCodeAddr
  Image <- CompiledImage
  Undef <- MCUndef
  Alu <- MCAlu
  HiLo <- MCHiLo
  Extend <- MCExtend
  Merge <- MCMerge
  SwFlags <- MCSwFlags
  SwWord <- MCSwWord
INVARIANT SlotsHoldNops
PROPERTY ImplementsMir
