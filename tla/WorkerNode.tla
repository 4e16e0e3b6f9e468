----------------------------- MODULE WorkerNode -----------------------------
(***************************************************************************)
(* One worker node: r_piper.sh, its background subshell executor_processor,*)
(* the rcompss_worker process (WorkerCore) that the subshell runs, and the *)
(* executors (module Executor) that the worker forks and waits for.  The   *)
(* runtime talks to r_piper.sh through the control pipe and to each        *)
(* executor through its own pipe pair.                                     *)
(***************************************************************************)
EXTENDS Executor

CONSTANTS NumPipes,    \* number of pipe pairs given to the piper
          MaxControl   \* bound: how many control commands the runtime sends

ASSUME NodeAssumption ==
  /\ NumPipes \in Nat \ {0}
  /\ MaxControl \in Nat
  /\ Executors = 0..(NumPipes - 1)

VARIABLES
  control,      \* the control commands that the piper has not read yet
  piper,        \* r_piper.sh: "loop", "wait" or "exited"
  piperExit,    \* its exit status, once it has exited
  shell,        \* the subshell: "start", "worker", "echo", "done" or "killed"
  shellStatus,  \* the status that wait $worker_pid sees
  echoed,       \* how many result pipes have got QUIT
  worker,       \* rcompss_worker: "none", "check", "spawn", "wait" or "done"
  wi,           \* the index of the worker's current loop
  pids,         \* pids[e]: executor_pids_[e] > 0
  failures,     \* waitExecutors' count
  workerExit    \* rcompss_worker's exit status, once it is done

piperVars == <<control, piper, piperExit>>
shellVars == <<shell, shellStatus, echoed>>
workerVars == <<worker, wi, pids, failures, workerExit>>
nodeVars == <<piperVars, shellVars, workerVars>>
allVars == <<execVars, nodeVars>>

\* "query" stands for QUERY_EXECUTOR_ID and for a command the piper does not know.
Commands == {"query", "REMOVE_EXECUTOR", "QUIT"}

\* The commands the runtime is going to send, none of them after QUIT; the piper reads
\* them when it gets to them.
ControlScripts ==
  {s \in UNION {[1..n -> Commands] : n \in 0..MaxControl} :
     \A i \in DOMAIN s : s[i] = "QUIT" => i = Len(s)}

NodeInit ==
  /\ ExecInit
  /\ control \in ControlScripts
  /\ piper = "loop" /\ piperExit = 0
  /\ shell = "start" /\ shellStatus = 0 /\ echoed = 0
  /\ worker = "none" /\ wi = 0 /\ pids = [e \in Executors |-> FALSE]
  /\ failures = 0 /\ workerExit = 0

-----------------------------------------------------------------------------
(***************************************************************************)
(* rcompss_worker                                                          *)
(***************************************************************************)
\* spawnExecutors gives up before its loop when rcompss_executor cannot be run.
CheckExecutorBinary ==
  /\ worker = "check"
  /\ worker' \in {"spawn", "wait"}
  /\ UNCHANGED <<execVars, piperVars, shellVars, wi, pids, failures, workerExit>>

\* One turn of the fork loop: a running child, a child that cannot exec, or no child.
ForkExecutor ==
  /\ worker = "spawn"
  /\ wi < NumPipes
  /\ \/ pc' = [pc EXCEPT ![wi] = "init"] /\ pids' = [pids EXCEPT ![wi] = TRUE] /\ UNCHANGED exitCode
     \/ Die(wi, 1) /\ pids' = [pids EXCEPT ![wi] = TRUE]
     \/ UNCHANGED <<pc, exitCode, pids>>
  /\ wi' = wi + 1
  /\ UNCHANGED <<runtimeVars, cmd, cur, verdict, res, quitEchoed, bindVars, taskVars>>
  /\ UNCHANGED <<piperVars, shellVars, worker, failures, workerExit>>

SpawnDone ==
  /\ worker = "spawn"
  /\ wi = NumPipes
  /\ worker' = "wait"
  /\ wi' = 0
  /\ UNCHANGED <<execVars, piperVars, shellVars, pids, failures, workerExit>>

\* Mutant: the loop stops at the first executor that is not running.
WaitOnlyFirst ==
  /\ worker = "wait"
  /\ wi < NumPipes
  /\ wi = 0 /\ pids[wi] => pc[wi] = "dead"
  /\ failures' = failures + (IF pids[wi] THEN exitCode[wi] ELSE 0)
  /\ wi' = wi + 1
  /\ UNCHANGED <<execVars, piperVars, shellVars, worker, pids, workerExit>>

\* Mutant: the status of the last executor replaces the count.
WaitKeepsLast ==
  /\ worker = "wait"
  /\ wi < NumPipes
  /\ pids[wi] => pc[wi] = "dead"
  /\ failures' = IF pids[wi] THEN exitCode[wi] ELSE failures
  /\ wi' = wi + 1
  /\ UNCHANGED <<execVars, piperVars, shellVars, worker, pids, workerExit>>

\* Mutant: a failed executor is counted at every turn of its wait.
WaitCountsTwice ==
  /\ worker = "wait"
  /\ wi < NumPipes
  /\ pids[wi] => pc[wi] = "dead"
  /\ failures' = failures + (IF pids[wi] THEN 2 * exitCode[wi] ELSE 0)
  /\ wi' = wi + 1
  /\ UNCHANGED <<execVars, piperVars, shellVars, worker, pids, workerExit>>

\* Mutant: executors that were never forked are waited for as well.
WaitUnforked ==
  /\ worker = "wait"
  /\ wi < NumPipes
  /\ pc[wi] = "dead"
  /\ failures' = failures + exitCode[wi]
  /\ wi' = wi + 1
  /\ UNCHANGED <<execVars, piperVars, shellVars, worker, pids, workerExit>>

\* One turn of waitExecutors: blocks until the executor is dead. waitpid does not return
\* -1: the pid is a child nobody else waits for, and the worker handles no signal.
WaitExecutor ==
  /\ worker = "wait"
  /\ wi < NumPipes
  /\ pids[wi] => pc[wi] = "dead"
  /\ failures' = failures + (IF pids[wi] THEN exitCode[wi] ELSE 0)
  /\ wi' = wi + 1
  /\ UNCHANGED <<execVars, piperVars, shellVars, worker, pids, workerExit>>

WorkerReturn ==
  /\ worker = "wait"
  /\ wi = NumPipes
  /\ worker' = "done"
  /\ workerExit' = IF failures = 0 THEN 0 ELSE 1
  /\ UNCHANGED <<execVars, piperVars, shellVars, wi, pids, failures>>

Worker == CheckExecutorBinary \/ ForkExecutor \/ SpawnDone \/ WaitExecutor \/ WorkerReturn

-----------------------------------------------------------------------------
(***************************************************************************)
(* The subshell executor_processor                                         *)
(***************************************************************************)
\* exit 1 when rcompss_worker cannot be run.
StartWorker ==
  /\ shell = "start"
  /\ \/ shell' = "worker" /\ worker' = "check" /\ UNCHANGED shellStatus
     \/ shell' = "done" /\ shellStatus' = 1 /\ UNCHANGED worker
  /\ UNCHANGED <<execVars, piperVars, echoed, wi, pids, failures, workerExit>>

\* The worker has exited; its status is logged and nothing else.
WorkerReaped ==
  /\ shell = "worker"
  /\ worker = "done"
  /\ shell' = "echo"
  /\ UNCHANGED <<execVars, piperVars, shellStatus, echoed, workerVars>>

\* QUIT goes to every result pipe in turn, whoever else may still write to it.
EchoNext ==
  /\ shell = "echo"
  /\ echoed < NumPipes
  /\ quitEchoed' = [quitEchoed EXCEPT ![echoed] = TRUE]
  /\ echoed' = echoed + 1
  /\ UNCHANGED <<runtimeVars, cmd, pc, cur, verdict, exitCode, res, bindVars, taskVars>>
  /\ UNCHANGED <<piperVars, shell, shellStatus, workerVars>>

\* The subshell's status is that of its last echo.
ShellEnd ==
  /\ shell = "echo"
  /\ echoed = NumPipes
  /\ shell' = "done"
  /\ shellStatus' = 0
  /\ UNCHANGED <<execVars, piperVars, echoed, workerVars>>

Shell == StartWorker \/ WorkerReaped \/ EchoNext \/ ShellEnd

-----------------------------------------------------------------------------
(***************************************************************************)
(* r_piper.sh                                                              *)
(***************************************************************************)
NextCommand(c) ==
  /\ piper = "loop"
  /\ control # <<>>
  /\ Head(control) = c
  /\ control' = Tail(control)

\* Answered with worker_pid, or printed as unknown.
QueryExecutorId ==
  /\ NextCommand("query")
  /\ UNCHANGED <<execVars, piper, piperExit, shellVars, workerVars>>

\* kill -9 reaches the subshell only: the worker and every executor keep running,
\* and nobody is left to write QUIT to the result pipes.
RemoveExecutor ==
  /\ NextCommand("REMOVE_EXECUTOR")
  /\ IF shell = "done"
     THEN UNCHANGED <<shell, shellStatus>>
     ELSE shell' = "killed" /\ shellStatus' = 1
  /\ UNCHANGED <<execVars, piper, piperExit, echoed, workerVars>>

\* Mutant: the piper exits on QUIT instead of waiting for the subshell.
QuitAtOnce ==
  /\ NextCommand("QUIT")
  /\ piper' = "exited"
  /\ UNCHANGED <<execVars, piperExit, shellVars, workerVars>>

QuitCommand ==
  /\ NextCommand("QUIT")
  /\ piper' = "wait"
  /\ UNCHANGED <<execVars, piperExit, shellVars, workerVars>>

WaitShell ==
  /\ piper = "wait"
  /\ shell \in {"done", "killed"}
  /\ piper' = "exited"
  /\ piperExit' = shellStatus
  /\ UNCHANGED <<execVars, control, shellVars, workerVars>>

\* The trap's clean_procs walks pipe_pids, which is never filled, and kills nothing;
\* while the piper is in wait, the signal also makes wait fail. In the loop, read
\* resumes and nothing changes.
SigTerm ==
  /\ piper = "wait"
  /\ piper' = "exited"
  /\ piperExit' = 1
  /\ UNCHANGED <<execVars, control, shellVars, workerVars>>

Piper == QueryExecutorId \/ RemoveExecutor \/ QuitCommand \/ WaitShell

ExecutorStep(e) == (Step(e) \/ Crash(e)) /\ UNCHANGED nodeVars

RuntimeStep(e) == Runtime(e) /\ UNCHANGED nodeVars

NodeNext ==
  \/ \E e \in Executors : ExecutorStep(e) \/ RuntimeStep(e)
  \/ Worker \/ Shell \/ Piper \/ SigTerm

NodeSpec == NodeInit /\ [][NodeNext]_allVars

\* Every process of the node is scheduled, and R code terminates.
NodeFairness ==
  /\ \A e \in Executors : WF_allVars(Step(e) /\ UNCHANGED nodeVars)
  /\ WF_allVars(Worker)
  /\ WF_allVars(Shell)
  /\ WF_allVars(Piper)

FairNodeSpec == NodeSpec /\ NodeFairness

-----------------------------------------------------------------------------
(***************************************************************************)
(* Correctness                                                             *)
(***************************************************************************)
NodeTypeOK ==
  /\ control \in Seq(Commands)
  /\ piper \in {"loop", "wait", "exited"}
  /\ piperExit \in {0, 1}
  /\ shell \in {"start", "worker", "echo", "done", "killed"}
  /\ shellStatus \in {0, 1}
  /\ echoed \in 0..NumPipes
  /\ worker \in {"none", "check", "spawn", "wait", "done"}
  /\ wi \in 0..NumPipes
  /\ pids \in [Executors -> BOOLEAN]
  /\ failures \in 0..NumPipes
  /\ workerExit \in {0, 1}

\* rcompss_worker returns only when no executor is running any more: waitExecutors
\* skips only the executors that were never forked.
WorkerOutlivesExecutors ==
  worker = "done" => \A e \in Executors : pc[e] \in {"none", "dead"}

\* rcompss_worker's exit status tells whether one of the executors it forked failed,
\* whatever the order in which they end.
WorkerVerdict ==
  worker = "done" => (workerExit = 0 <=> \A e \in Executors : pids[e] => exitCode[e] = 0)

\* Nothing follows the QUIT that the piper writes to a result pipe: the runtime may
\* stop reading there without losing an END_TASK.
QuitIsLast == [][\A e \in Executors : quitEchoed[e] => res'[e] = res[e]]_allVars

\* r_piper.sh exits with 0 only after the worker has returned and every result pipe
\* has been given its QUIT.
CleanExit ==
  piper = "exited" /\ piperExit = 0 => worker = "done" /\ \A e \in Executors : quitEchoed[e]

\* The node gives its executors the environment that module Executor assumes: forked
\* at most once, and QUIT written only when the executor is gone.
ImplementsExecutor == ExecSpec

\* The piper has been told to quit, and every executor's pipe holds a QUIT or has been
\* closed, or the executor is gone.
ShutdownRequested ==
  /\ piper = "wait"
  /\ \A e \in Executors : ~writer[e] \/ QUIT \in {cmd[e][i] : i \in DOMAIN cmd[e]} \/ pc[e] = "dead"

\* A shutdown that has been requested ends: r_piper.sh exits, however the executors, the
\* worker and the subshell end or are killed on the way.
ShutdownCompletes == ShutdownRequested ~> piper = "exited"

\* Violated: the worker's exit status is logged and replaced by that of the last echo.
PiperReportsFailure ==
  piper = "exited" /\ piperExit = 0 => workerExit = 0
=============================================================================
