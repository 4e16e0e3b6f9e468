------------------------------ MODULE Executor ------------------------------
(***************************************************************************)
(* The executors of one worker node (ExecutorCore): each reads command     *)
(* lines from its input FIFO, runs the task a line names inside an         *)
(* embedded R, and reports END_TASK <id> <status> on its output FIFO.      *)
(*                                                                         *)
(* The environment is the COMPSs runtime, which writes the command lines,  *)
(* and the node (WorkerNode), which forks the executors and writes QUIT to *)
(* a result pipe once its executor is gone.                                *)
(***************************************************************************)
EXTENDS Integers, Sequences

CONSTANTS Executors,     \* the executors, one per command/result pipe pair
          MaxJobs,       \* bound: how many tasks the runtime issues
          PipeCapacity,  \* how many unread lines a command pipe holds
          QUIT,          \* the line that ends an executor
          Refused,       \* the other lines: empty, or refused by parseTaskMessage
          Processors,    \* the CPU and GPU lists a task line can carry
          NoBind,        \* the list "-": none assigned
          Modules,       \* the R files a task can name
          Funcs,         \* the function names they define
          Defs,          \* Defs[m]: the functions that sourcing m defines
          Requests       \* what a task line asks for: see Request

NoModule == "none"       \* no module has defined the function
NoJob == 0

JobIds == 1..MaxJobs

\* The fields of TaskMessage that the executor's control depends on.
Request == [cpus : Processors, gpus : Processors, module : Modules, func : Funcs, returns : BOOLEAN]

ASSUME ExecutorAssumption ==
  /\ MaxJobs \in Nat
  /\ PipeCapacity \in Nat
  /\ QUIT \notin Int /\ QUIT \notin Refused
  /\ Refused \intersect Int = {}
  /\ NoBind \in Processors
  /\ NoModule \notin Modules
  /\ Defs \in [Modules -> SUBSET Funcs]
  /\ Requests \subseteq Request

VARIABLES
  nextJob,    \* the runtime's next task id
  req,        \* req[j]: what the line of task j asks for
  issued,     \* issued[e]: history of the task ids written to e's command pipe
  cmd,        \* cmd[e]: the unread lines of e's command pipe
  writer,     \* writer[e]: somebody still has the command pipe open for writing
  pc,         \* pc[e]: where executor e is
  cur,        \* cur[e]: the task e has read and not answered, or NoJob
  verdict,    \* verdict[e]: the status e is about to report
  exitCode,   \* exitCode[e]: the exit status, once e is dead (1: signal or failure)
  res,        \* res[e]: everything e has written to its result pipe
  quitEchoed, \* quitEchoed[e]: the node has written QUIT to e's result pipe
  affinity,   \* affinity[e]: the CPU list of the last successful sched_setaffinity
  cpuEnv,     \* cpuEnv[e]: COMPSS_BINDED_CPUS
  gpuEnv,     \* gpuEnv[e]: COMPSS_BINDED_GPUS and CUDA_VISIBLE_DEVICES
  env,        \* env[e][f]: the module whose definition of f R's global env holds
  files,      \* files[j]: the return value file of task j
  ran         \* ran[j]: history of the module whose code task j's call ran

runtimeVars == <<nextJob, req, issued, writer>>
bindVars == <<affinity, cpuEnv, gpuEnv>>
taskVars == <<env, files, ran>>
execVars == <<runtimeVars, cmd, pc, cur, verdict, exitCode, res, quitEchoed, bindVars, taskVars>>

Lines == JobIds \union {QUIT} \union Refused
Idle == {"none", "init", "read", "dead"}
Busy == {"bind", "source", "args", "call", "serialize", "verify", "reply"}
Live == {"init", "read"} \union Busy

Queued(e) == {cmd[e][i] : i \in DOMAIN cmd[e]} \ ({QUIT} \union Refused)
InHand(e) == {cur[e]} \ {NoJob}
AnsweredIds(e) == {res[e][i].id : i \in DOMAIN res[e]}

ExecInit ==
  /\ nextJob = 1
  /\ req \in [JobIds -> Requests]
  /\ issued = [e \in Executors |-> {}]
  /\ cmd = [e \in Executors |-> <<>>]
  /\ writer = [e \in Executors |-> TRUE]
  /\ pc = [e \in Executors |-> "none"]
  /\ cur = [e \in Executors |-> NoJob]
  /\ verdict = [e \in Executors |-> 0]
  /\ exitCode = [e \in Executors |-> 0]
  /\ res = [e \in Executors |-> <<>>]
  /\ quitEchoed = [e \in Executors |-> FALSE]
  /\ affinity = [e \in Executors |-> NoBind]
  /\ cpuEnv = [e \in Executors |-> NoBind]
  /\ gpuEnv = [e \in Executors |-> NoBind]
  /\ env = [e \in Executors |-> [f \in Funcs |-> NoModule]]
  /\ files = [j \in JobIds |-> "absent"]
  /\ ran = [j \in JobIds |-> NoModule]

-----------------------------------------------------------------------------
(***************************************************************************)
(* The runtime's end of the command pipe (external).                       *)
(***************************************************************************)
WriteLine(e, line) ==
  /\ writer[e]
  /\ Len(cmd[e]) < PipeCapacity
  /\ cmd' = [cmd EXCEPT ![e] = Append(@, line)]
  /\ UNCHANGED <<req, writer, pc, cur, verdict, exitCode, res, quitEchoed, bindVars, taskVars>>

SendTask(e) ==
  /\ nextJob \in JobIds
  /\ WriteLine(e, nextJob)
  /\ nextJob' = nextJob + 1
  /\ issued' = [issued EXCEPT ![e] = @ \union {nextJob}]

SendQuit(e) == WriteLine(e, QUIT) /\ UNCHANGED <<nextJob, issued>>

SendRefused(e) ==
  /\ \E line \in Refused : WriteLine(e, line)
  /\ UNCHANGED <<nextJob, issued>>

\* The last writer closes the pipe: std::getline fails once the lines are read.
CloseCommandPipe(e) ==
  /\ writer[e]
  /\ writer' = [writer EXCEPT ![e] = FALSE]
  /\ UNCHANGED <<nextJob, req, issued, cmd, pc, cur, verdict, exitCode, res, quitEchoed,
                 bindVars, taskVars>>

-----------------------------------------------------------------------------
(***************************************************************************)
(* What the node does to an executor.                                      *)
(***************************************************************************)
Spawn(e) ==
  /\ pc[e] = "none"
  /\ ~quitEchoed[e]
  /\ pc' = [pc EXCEPT ![e] = "init"]
  /\ UNCHANGED <<runtimeVars, cmd, cur, verdict, exitCode, res, quitEchoed, bindVars, taskVars>>

\* The forked child cannot exec rcompss_executor and leaves with _exit(1).
SpawnFails(e) ==
  /\ pc[e] = "none"
  /\ ~quitEchoed[e]
  /\ pc' = [pc EXCEPT ![e] = "dead"]
  /\ exitCode' = [exitCode EXCEPT ![e] = 1]
  /\ UNCHANGED <<runtimeVars, cmd, cur, verdict, res, quitEchoed, bindVars, taskVars>>

EchoQuit(e) ==
  /\ pc[e] \in {"none", "dead"}
  /\ quitEchoed' = [quitEchoed EXCEPT ![e] = TRUE]
  /\ UNCHANGED <<runtimeVars, cmd, pc, cur, verdict, exitCode, res, bindVars, taskVars>>

-----------------------------------------------------------------------------
(***************************************************************************)
(* The executor.                                                           *)
(***************************************************************************)
Die(e, code) ==
  /\ pc' = [pc EXCEPT ![e] = "dead"]
  /\ exitCode' = [exitCode EXCEPT ![e] = code]

Goto(e, from, to) ==
  /\ pc[e] = from
  /\ pc' = [pc EXCEPT ![e] = to]

\* A step to reporting: the phase reached its end, or failed with status 1.
Conclude(e, from, status) ==
  /\ Goto(e, from, "reply")
  /\ verdict' = [verdict EXCEPT ![e] = status]

\* Fails when Rcpp or RCOMPSs cannot be loaded: the exception leaves main().
InitR(e) ==
  /\ pc[e] = "init"
  /\ \/ Goto(e, "init", "read") /\ UNCHANGED exitCode
     \/ Die(e, 1)
  /\ UNCHANGED <<runtimeVars, cmd, cur, verdict, res, quitEchoed, bindVars, taskVars>>

\* Mutant: the newest line is taken first.
ReadNewest(e) ==
  /\ cmd[e] # <<>>
  /\ cmd[e][Len(cmd[e])] \in JobIds
  /\ Goto(e, "read", "bind")
  /\ cur' = [cur EXCEPT ![e] = cmd[e][Len(cmd[e])]]
  /\ cmd' = [cmd EXCEPT ![e] = SubSeq(@, 1, Len(@) - 1)]
  /\ UNCHANGED <<runtimeVars, verdict, exitCode, res, quitEchoed, bindVars, taskVars>>

\* A task line: parseTaskMessage accepts it and executeTask begins.
ReadTask(e) ==
  /\ cmd[e] # <<>>
  /\ Head(cmd[e]) \in JobIds
  /\ Goto(e, "read", "bind")
  /\ cur' = [cur EXCEPT ![e] = Head(cmd[e])]
  /\ cmd' = [cmd EXCEPT ![e] = Tail(@)]
  /\ UNCHANGED <<runtimeVars, verdict, exitCode, res, quitEchoed, bindVars, taskVars>>

\* Any other line but QUIT is skipped, with no answer.
SkipRefused(e) ==
  /\ pc[e] = "read"
  /\ cmd[e] # <<>>
  /\ Head(cmd[e]) \in Refused
  /\ cmd' = [cmd EXCEPT ![e] = Tail(@)]
  /\ UNCHANGED <<runtimeVars, pc, cur, verdict, exitCode, res, quitEchoed, bindVars, taskVars>>

\* QUIT, or the end of the file, ends the loop and the process.
ReadQuit(e) ==
  /\ pc[e] = "read"
  /\ \/ cmd[e] # <<>> /\ Head(cmd[e]) = QUIT /\ cmd' = [cmd EXCEPT ![e] = Tail(@)]
     \/ cmd[e] = <<>> /\ ~writer[e] /\ UNCHANGED cmd
  /\ Die(e, 0)
  /\ UNCHANGED <<runtimeVars, cur, verdict, res, quitEchoed, bindVars, taskVars>>

\* Mutant: the variable is set before the kernel has accepted the mask.
BindEnvFirst(e) ==
  LET r == req[cur[e]] IN
  /\ Goto(e, "bind", "source")
  /\ cpuEnv' = IF r.cpus = NoBind THEN cpuEnv ELSE [cpuEnv EXCEPT ![e] = r.cpus]
  /\ affinity' = affinity \/ affinity' = [affinity EXCEPT ![e] = r.cpus]
  /\ gpuEnv' = IF r.gpus = NoBind THEN gpuEnv ELSE [gpuEnv EXCEPT ![e] = r.gpus]
  /\ UNCHANGED <<runtimeVars, cmd, cur, verdict, exitCode, res, quitEchoed, taskVars>>

\* bindCpus changes the mask and the variable together, or (a list it cannot
\* parse, a refusal by the kernel) neither; bindGpus always sets its variables.
Bind(e) ==
  LET r == req[cur[e]] IN
  /\ Goto(e, "bind", "source")
  /\ \/ /\ r.cpus # NoBind
        /\ affinity' = [affinity EXCEPT ![e] = r.cpus]
        /\ cpuEnv' = [cpuEnv EXCEPT ![e] = r.cpus]
     \/ UNCHANGED <<affinity, cpuEnv>>
  /\ gpuEnv' = IF r.gpus = NoBind THEN gpuEnv ELSE [gpuEnv EXCEPT ![e] = r.gpus]
  /\ UNCHANGED <<runtimeVars, cmd, cur, verdict, exitCode, res, quitEchoed, taskVars>>

\* Evaluating a module leaves the definitions made so far in the global env.
Define(e, m, fs) == env' = [env EXCEPT ![e] = [f \in Funcs |-> IF f \in fs THEN m ELSE @[f]]]

\* Mutant: a module is not sourced again when the function is already there.
SourceOnce(e) ==
  LET r == req[cur[e]] IN
  /\ Goto(e, "source", "args")
  /\ IF env[e][r.func] # NoModule THEN UNCHANGED env ELSE Define(e, r.module, Defs[r.module])
  /\ env'[e][r.func] # NoModule
  /\ UNCHANGED <<runtimeVars, cmd, cur, verdict, exitCode, res, quitEchoed, bindVars, files, ran>>

\* source(module), then the check that the function exists.
SourceModule(e) ==
  LET r == req[cur[e]] IN
  /\ pc[e] = "source"
  /\ \/ /\ Define(e, r.module, Defs[r.module])
        /\ IF env'[e][r.func] # NoModule
           THEN Goto(e, "source", "args") /\ UNCHANGED verdict
           ELSE Conclude(e, "source", 1)
     \/ \E fs \in SUBSET Defs[r.module] :      \* an R error part of the way
          Define(e, r.module, fs) /\ Conclude(e, "source", 1)
  /\ UNCHANGED <<runtimeVars, cmd, cur, exitCode, res, quitEchoed, bindVars, files, ran>>

\* Mutant: the early return forgets END_TASK.
ModuleMissingSilently(e) ==
  /\ Goto(e, "source", "read")
  /\ cur' = [cur EXCEPT ![e] = NoJob]
  /\ UNCHANGED <<runtimeVars, cmd, verdict, exitCode, res, quitEchoed, bindVars, taskVars>>

\* The module file is missing or unreadable.
ModuleMissing(e) ==
  /\ Conclude(e, "source", 1)
  /\ UNCHANGED <<runtimeVars, cmd, cur, exitCode, res, quitEchoed, bindVars, taskVars>>

BuildArgs(e) ==
  /\ \/ Goto(e, "args", "call") /\ UNCHANGED verdict
     \/ Conclude(e, "args", 1)
  /\ UNCHANGED <<runtimeVars, cmd, cur, exitCode, res, quitEchoed, bindVars, taskVars>>

\* The call runs whatever definition of the function the global env holds.
Call(e) ==
  LET r == req[cur[e]] IN
  /\ pc[e] = "call"
  /\ ran' = [ran EXCEPT ![cur[e]] = env[e][r.func]]
  /\ \/ r.returns /\ Goto(e, "call", "serialize") /\ UNCHANGED verdict
     \/ ~r.returns /\ Conclude(e, "call", 0)
     \/ Conclude(e, "call", 1)
  /\ UNCHANGED <<runtimeVars, cmd, cur, exitCode, res, quitEchoed, bindVars, env, files>>

\* Mutant: the handler around the serializer does not rethrow.
SerializeSwallowed(e) ==
  /\ \E s \in {"absent", "partial", "full"} : files' = [files EXCEPT ![cur[e]] = s]
  /\ Goto(e, "serialize", "verify")
  /\ UNCHANGED <<runtimeVars, cmd, cur, verdict, exitCode, res, quitEchoed, bindVars, env, ran>>

\* The serializer writes the file, or throws with none or part of it written, or returns
\* although there is no file or its last flush was lost ("cut").
Serialize(e) ==
  /\ pc[e] = "serialize"
  /\ \/ files' = [files EXCEPT ![cur[e]] = "full"] /\ Goto(e, "serialize", "verify") /\ UNCHANGED verdict
     \/ \E s \in {"absent", "cut"} :
          files' = [files EXCEPT ![cur[e]] = s] /\ Goto(e, "serialize", "verify") /\ UNCHANGED verdict
     \/ \E s \in {"absent", "partial"} :
          files' = [files EXCEPT ![cur[e]] = s] /\ Conclude(e, "serialize", 1)
  /\ UNCHANGED <<runtimeVars, cmd, cur, exitCode, res, quitEchoed, bindVars, env, ran>>

\* "Verify file was created": both outcomes are only logged.
VerifyFile(e) ==
  /\ Conclude(e, "verify", 0)
  /\ UNCHANGED <<runtimeVars, cmd, cur, exitCode, res, quitEchoed, bindVars, taskVars>>

\* Mutant: an exception after END_TASK 0 is reported by the outer handler as well.
ReplyAgain(e) ==
  /\ pc[e] = "reply"
  /\ res' = [res EXCEPT ![e] = Append(@, [id |-> cur[e], status |-> verdict[e]])]
  /\ \/ Goto(e, "reply", "read") /\ cur' = [cur EXCEPT ![e] = NoJob] /\ UNCHANGED verdict
     \/ verdict[e] = 0 /\ verdict' = [verdict EXCEPT ![e] = 1] /\ UNCHANGED <<pc, cur>>
  /\ UNCHANGED <<runtimeVars, cmd, exitCode, quitEchoed, bindVars, taskVars>>

\* Mutant: a failed task is reported and then tried once more.
ReplyAndRetry(e) ==
  /\ res' = [res EXCEPT ![e] = Append(@, [id |-> cur[e], status |-> verdict[e]])]
  /\ \/ verdict[e] = 0 /\ Goto(e, "reply", "read") /\ cur' = [cur EXCEPT ![e] = NoJob]
     \/ verdict[e] = 1 /\ Goto(e, "reply", "source") /\ UNCHANGED cur
  /\ Len(res[e]) < 2
  /\ UNCHANGED <<runtimeVars, cmd, verdict, exitCode, quitEchoed, bindVars, taskVars>>

\* Mutant: the task is forgotten before its answer is written.
ReplyAfterReset(e) ==
  /\ Goto(e, "reply", "read")
  /\ cur' = [cur EXCEPT ![e] = NoJob]
  /\ res' = [res EXCEPT ![e] = Append(@, [id |-> cur'[e], status |-> verdict[e]])]
  /\ UNCHANGED <<runtimeVars, cmd, verdict, exitCode, quitEchoed, bindVars, taskVars>>

\* END_TASK <id> <status>, written once for each accepted task.
Reply(e) ==
  /\ Goto(e, "reply", "read")
  /\ res' = [res EXCEPT ![e] = Append(@, [id |-> cur[e], status |-> verdict[e]])]
  /\ cur' = [cur EXCEPT ![e] = NoJob]
  /\ verdict' = [verdict EXCEPT ![e] = 0]
  /\ UNCHANGED <<runtimeVars, cmd, exitCode, quitEchoed, bindVars, taskVars>>

\* A signal, an abort or the OOM killer ends the process; R code that calls
\* quit() ends it with status 0. Inside the serializer it may leave a part of the file.
Crash(e) ==
  /\ pc[e] \in Live
  /\ \/ Die(e, 1)
     \/ pc[e] \in {"source", "call"} /\ Die(e, 0)
  /\ \/ UNCHANGED files
     \/ pc[e] = "serialize" /\ files' = [files EXCEPT ![cur[e]] = "partial"]
  /\ UNCHANGED <<runtimeVars, cmd, cur, verdict, res, quitEchoed, bindVars, env, ran>>

Step(e) ==
  \/ InitR(e) \/ ReadTask(e) \/ SkipRefused(e) \/ ReadQuit(e) \/ Bind(e)
  \/ SourceModule(e) \/ ModuleMissing(e) \/ BuildArgs(e) \/ Call(e)
  \/ Serialize(e) \/ VerifyFile(e) \/ Reply(e)

Runtime(e) == SendTask(e) \/ SendQuit(e) \/ SendRefused(e) \/ CloseCommandPipe(e)

ExecNext == \E e \in Executors : Runtime(e) \/ Spawn(e) \/ SpawnFails(e) \/ EchoQuit(e) \/ Step(e) \/ Crash(e)

ExecSpec == ExecInit /\ [][ExecNext]_execVars

\* The operating system schedules a running executor, and R code terminates.
Fairness == \A e \in Executors : WF_execVars(Step(e))

FairSpec == ExecSpec /\ Fairness

-----------------------------------------------------------------------------
(***************************************************************************)
(* Correctness.                                                            *)
(***************************************************************************)
END_TASK == [id : JobIds, status : {0, 1}]

TypeOK ==
  /\ nextJob \in 1..(MaxJobs + 1)
  /\ req \in [JobIds -> Requests]
  /\ issued \in [Executors -> SUBSET JobIds]
  /\ cmd \in [Executors -> Seq(Lines)]
  /\ writer \in [Executors -> BOOLEAN]
  /\ pc \in [Executors -> Idle \union Busy]
  /\ cur \in [Executors -> JobIds \union {NoJob}]
  /\ verdict \in [Executors -> {0, 1}]
  /\ exitCode \in [Executors -> {0, 1}]
  /\ res \in [Executors -> Seq(END_TASK)]
  /\ quitEchoed \in [Executors -> BOOLEAN]
  /\ affinity \in [Executors -> Processors]
  /\ cpuEnv \in [Executors -> Processors]
  /\ gpuEnv \in [Executors -> Processors]
  /\ env \in [Executors -> [Funcs -> Modules \union {NoModule}]]
  /\ files \in [JobIds -> {"absent", "partial", "cut", "full"}]
  /\ ran \in [JobIds -> Modules \union {NoModule}]

\* Every task line written to an executor is at every moment in exactly one place:
\* unread in its command pipe, in the executor's hands, or answered. None of the
\* early returns and exceptions of executeTask loses a task or its END_TASK.
AccountedAt(e) ==
  /\ issued[e] = AnsweredIds(e) \union InHand(e) \union Queued(e)
  /\ AnsweredIds(e) \intersect InHand(e) = {}
  /\ AnsweredIds(e) \intersect Queued(e) = {}
  /\ InHand(e) \intersect Queued(e) = {}

Accounted == \A e \in Executors : AccountedAt(e)

\* An executor answers tasks in the order in which they were written to it, and
\* each at most once, whichever of executeTask's reporting sites is reached.
OrderedAt(e) == \A i, j \in DOMAIN res[e] : i < j => res[e][i].id < res[e][j].id

AnswersInOrder == \A e \in Executors : OrderedAt(e)

\* A live executor holds a task exactly while it is inside executeTask.
HandMatchesPhase ==
  \A e \in Executors :
    /\ pc[e] \in Busy => cur[e] \in JobIds
    /\ pc[e] \in {"none", "init", "read"} => cur[e] = NoJob

\* The inductive strengthening of the two properties above: the answered tasks, the task in hand, the
\* queued tasks in pipe order and the next task id form one increasing run.
Lined(e) ==
  /\ \A j \in issued[e] : j < nextJob
  /\ \A i, k \in DOMAIN cmd[e] :
       i < k /\ cmd[e][i] \in JobIds /\ cmd[e][k] \in JobIds => cmd[e][i] < cmd[e][k]
  /\ \A h \in InHand(e), q \in Queued(e) : h < q
  /\ \A a \in AnsweredIds(e), q \in InHand(e) \union Queued(e) : a < q

\* The call runs the definition that the task's own module gives, whatever modules
\* earlier tasks left in R's global environment (source() precedes every call).
CallsOwnModule ==
  \A j \in JobIds :
    ran[j] # NoModule /\ req[j].func \in Defs[req[j].module] => ran[j] = req[j].module

\* Status 0 is reported only for a task whose function was called and, when it
\* returns a value, whose return file is not one that a serializer that threw has left.
SuccessIsEarned ==
  \A e \in Executors : \A i \in DOMAIN res[e] :
    res[e][i].status = 0 => ran[res[e][i].id] # NoModule /\ files[res[e][i].id] # "partial"

\* User code sees the GPUs assigned to its own task, and COMPSS_BINDED_CPUS names the
\* CPUs the process is really bound to, even after a refused sched_setaffinity.
OwnBinding ==
  \A e \in Executors :
    /\ cpuEnv[e] = affinity[e]
    /\ pc[e] \in Busy \ {"bind"} /\ req[cur[e]].gpus # NoBind => gpuEnv[e] = req[cur[e]].gpus

\* Violated: "Verify file was created" only logs, so a task whose return value file is
\* missing is reported as successful.
SuccessHasReturnFile ==
  \A e \in Executors : \A i \in DOMAIN res[e] :
    res[e][i].status = 0 /\ req[res[e][i].id].returns => files[res[e][i].id] = "full"

\* Once an answer is out, no later step of any executor touches that task's return
\* file or runs that task's code again: the runtime may hand the file to a reader.
AnswerIsFinal ==
  [][\A e \in Executors : \A j \in AnsweredIds(e) :
       files'[j] = files[j] /\ ran'[j] = ran[j] /\ j \in AnsweredIds(e)']_execVars

\* Every task written to a started executor is answered, or the executor ends.
EveryTaskAnswered ==
  \A e \in Executors : \A j \in JobIds :
    j \in issued[e] /\ pc[e] \in Live ~> j \in AnsweredIds(e) \/ pc[e] = "dead"

\* The refinement mapping to the abstract task service.
Service == INSTANCE TaskService WITH
  pending <- [e \in Executors |-> issued[e] \ AnsweredIds(e)],
  answers <- res,
  up <- {e \in Executors : pc[e] \in Live}

\* The executors implement the task service: seen through their pipes, they answer the
\* oldest unanswered task, once, and only while they are up.
ImplementsTaskService == Service!Spec
=============================================================================
