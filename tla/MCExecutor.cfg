SPECIFICATION FairSpec
CONSTANTS
  Executors = {e1}
  MaxJobs = 2
  PipeCapacity = 2
  QUIT = QUIT
  Refused = {noise}
  Processors = {"-", "0", "1"}
  NoBind = "-"
  Modules = {"m1", "m2"}
  Funcs = {"f", "g"}
  Defs <- MCDefs
  Requests <- MCRequests
INVARIANTS TypeOK Accounted AnswersInOrder CallsOwnModule SuccessIsEarned OwnBinding
PROPERTIES AnswerIsFinal EveryTaskAnswered ImplementsTaskService
CHECK_DEADLOCK FALSE
