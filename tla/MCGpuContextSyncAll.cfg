SPECIFICATION Spec
CONSTANTS
  Names = {"default", "x"}
  MaxObjects = 3
  Buffers = {b1, b2}
  Modulus = 2
  MaxPending = 1
SYMMETRY BufferSymmetry
CHECK_DEADLOCK FALSE
PROPERTY SyncAllIsComplete
