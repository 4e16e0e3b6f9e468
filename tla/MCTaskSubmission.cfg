SPECIFICATION Spec
CONSTANTS
  Formals <- MCFormals
  Default <- MCDefault
  Tasks <- MCTasks
  FuncName <- MCFuncName
  Signature <- MCSignature
  Alphanumeric <- MCAlphanumeric
  MarkerWidth = 3
  Shapes <- CompleteShapes
  MaxCalls = 2
  MaxAttempts = 2
CHECK_DEADLOCK FALSE
INVARIANTS
  TypeOK
  WaitOnIsSequential
  BindingPreserved
  RegisteredWithConstraints
  DependenciesRespected
PROPERTIES
  FilesAreFinal
  MasterUnblocks
