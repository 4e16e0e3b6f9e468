SPECIFICATION Spec
CONSTANTS
  Objs <- MCObjs
  Methods = {"cpp", "CPP", "qs", "RMVL"}
  Lower <- MCLower
  BufferSize = 4
  ProtectLimit = 5
  MaxAttempts = 2
  Write <- writeSEXP
  Read <- readSEXP
  Kept <- Stored
  VectorsOf <- Vectors
INVARIANTS TypeOK CodecFitsFile WholeOrNothing WrittenIsReadable LegacyIsReadable
CHECK_DEADLOCK FALSE
