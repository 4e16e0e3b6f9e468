SPECIFICATION FairNodeSpec
CONSTANTS
  NumPipes = 2
  Executors <- MCExecutors
  MaxControl = 2
  MaxJobs = 1
  PipeCapacity = 1
  QUIT = QUIT
  Refused = {}
  Processors = {"-", "0", "1"}
  NoBind = "-"
  Modules = {"m1"}
  Funcs = {"f"}
  Defs <- MCDefs
  Requests <- MCRequests
INVARIANTS NodeTypeOK WorkerOutlivesExecutors WorkerVerdict CleanExit
PROPERTIES QuitIsLast ImplementsExecutor ShutdownCompletes
CHECK_DEADLOCK FALSE
