SPECIFICATION Spec
CONSTANTS
  Objs <- MCObjs
  Methods = {"rmvl"}
  Lower <- MCLower
  BufferSize = 4
  ProtectLimit = 5
  MaxAttempts = 2
  Write <- writeSEXP
  Read <- readSEXP
  Kept <- Stored
  VectorsOf <- Vectors
INVARIANT WrittenIsReadable
CHECK_DEADLOCK FALSE
