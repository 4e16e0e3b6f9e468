SPECIFICATION Spec
CONSTANTS
  Formals <- MCFormals
  Default <- MCDefault
  Tasks <- MCTasks
  FuncName <- MCFuncName
  Signature <- MCSignature
  Alphanumeric <- MCAlphanumeric
  MarkerWidth = 2
  Shapes <- CompleteShapes
  MaxCalls = 2
  MaxAttempts = 2
CHECK_DEADLOCK FALSE
INVARIANT RegisteredWithConstraints
