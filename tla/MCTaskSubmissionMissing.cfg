SPECIFICATION Spec
CONSTANTS
  Formals <- MCFormals
  Default <- MCDefault
  Tasks <- SilentTasks
  FuncName <- MCFuncName
  Signature <- MCSignature
  Alphanumeric <- MCAlphanumeric
  MarkerWidth = 3
  Shapes <- MissingShapes
  MaxCalls = 1
  MaxAttempts = 2
CHECK_DEADLOCK FALSE
INVARIANT BindingPreserved
