-------------------------- MODULE WorkerNodeProofs --------------------------
(***************************************************************************)
(* Proofs about module WorkerNode, for any number of pipe pairs and any    *)
(* sequence of control commands.                                           *)
(***************************************************************************)
EXTENDS WorkerNode, ExecutorTaskProofs

\* A child exists exactly for the entries of executor_pids_ that are set.
Forked == \A e \in Executors : pids[e] <=> pc[e] # "none"

\* The worker's loops: the executors from wi on are not forked yet (spawn), those
\* below it are gone and counted (wait).
SpawnLoop ==
  /\ worker \in {"none", "check"} => wi = 0
  /\ worker \in {"none", "check", "spawn"} => failures = 0 /\ \A e \in Executors : e >= wi => pc[e] = "none"

WaitLoop ==
  worker \in {"wait", "done"} =>
    /\ failures <= wi
    /\ \A e \in Executors : e < wi => pc[e] \in {"none", "dead"}
    /\ failures = 0 <=> \A e \in Executors : e < wi /\ pids[e] => exitCode[e] = 0

WorkerEnd == worker = "done" => wi = NumPipes /\ (workerExit = 0 <=> failures = 0)

\* The subshell writes QUIT pipe by pipe, once the worker is done.
ShellState ==
  /\ shell = "start" => worker = "none"
  /\ shell = "echo" \/ echoed > 0 => worker = "done"
  /\ shell = "done" /\ shellStatus = 0 => worker = "done" /\ echoed = NumPipes
  /\ shell = "killed" => shellStatus = 1
  /\ \A e \in Executors : quitEchoed[e] <=> e < echoed

PiperState == piper = "exited" /\ piperExit = 0 => worker = "done" /\ echoed = NumPipes

NodeInv ==
  /\ TypeOK /\ HandMatchesPhase /\ NodeTypeOK
  /\ Forked /\ SpawnLoop /\ WaitLoop /\ WorkerEnd /\ ShellState /\ PiperState

\* The node starts with nothing forked and nothing echoed.
LEMMA NodeInvInit == NodeInit => NodeInv
<1> SUFFICES ASSUME NodeInit PROVE NodeInv
  OBVIOUS
<1> USE NodeAssumption
<1>1. TypeOK /\ HandMatchesPhase
  BY InitTypeOK DEF NodeInit, ExecInit, HandMatchesPhase, Busy
<1>2. control \in Seq(Commands)
  BY DEF NodeInit, ControlScripts
<1>3. NodeTypeOK
  BY <1>2 DEF NodeInit, NodeTypeOK
<1>4. Forked /\ SpawnLoop /\ WaitLoop /\ WorkerEnd /\ PiperState
  BY DEF NodeInit, ExecInit, Forked, SpawnLoop, WaitLoop, WorkerEnd, PiperState
<1>5. ShellState
  BY DEF NodeInit, ExecInit, ShellState
<1>6. QED
  BY <1>1, <1>3, <1>4, <1>5 DEF NodeInv

\* An executor's own step, or its death, moves a live executor and no other, and
\* leaves it forked.
LEMMA LiveMoves ==
  ASSUME TypeOK, NEW e \in Executors, Step(e) \/ Crash(e)
  PROVE  /\ pc[e] \in Live /\ pc'[e] # "none"
         /\ \A d \in Executors : d # e => /\ pc'[d] = pc[d]
                                         /\ exitCode'[d] = exitCode[d]
                                         /\ res'[d] = res[d]
         /\ quitEchoed' = quitEchoed
<1> USE DEF TypeOK, Live, Busy, Goto, Die, Conclude
<1>1. CASE InitR(e) \/ ReadTask(e) \/ SkipRefused(e) \/ ReadQuit(e) \/ Reply(e) \/ Crash(e)
  BY <1>1 DEF InitR, ReadTask, SkipRefused, ReadQuit, Reply, Crash
<1>2. CASE Bind(e) \/ SourceModule(e) \/ ModuleMissing(e) \/ BuildArgs(e)
  BY <1>2 DEF Bind, SourceModule, ModuleMissing, BuildArgs
<1>3. CASE Call(e) \/ Serialize(e) \/ VerifyFile(e)
  BY <1>3 DEF Call, Serialize, VerifyFile
<1>4. QED
  BY <1>1, <1>2, <1>3 DEF Step

\* What the node does to its executors is what module Executor lets it do: it forks an
\* executor that has not been forked, and writes QUIT to the pipe of one that is gone.
LEMMA NodeStepIsExecStep == NodeInv /\ [NodeNext]_allVars => [ExecNext]_execVars
<1> SUFFICES ASSUME NodeInv, [NodeNext]_allVars PROVE [ExecNext]_execVars
  OBVIOUS
<1> USE NodeAssumption
<1>1. ASSUME NEW e \in Executors, ExecutorStep(e) \/ RuntimeStep(e)
      PROVE  ExecNext
  BY <1>1 DEF ExecutorStep, RuntimeStep, ExecNext
<1>2. CASE ForkExecutor
  <2>1. wi \in Executors /\ worker = "spawn"
    BY <1>2 DEF ForkExecutor, NodeInv, NodeTypeOK
  <2>2. pc[wi] = "none" /\ ~quitEchoed[wi]
    <3>1. echoed = 0
      BY <2>1 DEF NodeInv, ShellState, NodeTypeOK
    <3>2. QED
      BY <2>1, <3>1 DEF NodeInv, SpawnLoop, ShellState, NodeTypeOK
  <2>3. Spawn(wi) \/ SpawnFails(wi) \/ UNCHANGED execVars
    BY <1>2, <2>2 DEF ForkExecutor, Spawn, SpawnFails, Die, execVars
  <2>4. QED
    BY <2>1, <2>3 DEF ExecNext
<1>3. CASE EchoNext
  <2>1. echoed \in Executors /\ worker = "done"
    BY <1>3 DEF EchoNext, NodeInv, NodeTypeOK, ShellState
  <2>2. pc[echoed] \in {"none", "dead"}
    BY <2>1 DEF NodeInv, WaitLoop, WorkerEnd
  <2>3. EchoQuit(echoed)
    BY <1>3, <2>2 DEF EchoNext, EchoQuit
  <2>4. QED
    BY <2>1, <2>3 DEF ExecNext
<1>4. CASE (Worker /\ ~ForkExecutor) \/ (Shell /\ ~EchoNext) \/ Piper \/ SigTerm
  BY <1>4 DEF Worker, CheckExecutorBinary, SpawnDone, WaitExecutor, WorkerReturn, Shell, StartWorker,
              WorkerReaped, ShellEnd, Piper, QueryExecutorId, RemoveExecutor, QuitCommand, WaitShell, SigTerm
<1>5. CASE UNCHANGED allVars
  BY <1>5 DEF allVars
<1>6. QED
  BY <1>1, <1>2, <1>3, <1>4, <1>5 DEF NodeNext

\* Hence the executors stay well typed.
LEMMA NodeExecStep == NodeInv /\ [NodeNext]_allVars => TypeOK' /\ HandMatchesPhase'
<1> SUFFICES ASSUME NodeInv, [NodeNext]_allVars PROVE TypeOK' /\ HandMatchesPhase'
  OBVIOUS
<1>1. TypeOK /\ HandMatchesPhase /\ [ExecNext]_execVars
  BY NodeStepIsExecStep DEF NodeInv
<1>2. TypeOK'
  <2>1. CASE ExecNext
    BY <1>1, <2>1, EnvironmentTypeOK, StepTypeOK DEF ExecNext
  <2>2. CASE UNCHANGED execVars
    BY <1>1, <2>2 DEF execVars, runtimeVars, bindVars, taskVars, TypeOK
  <2>3. QED
    BY <1>1, <2>1, <2>2
<1>3. QED
  BY <1>1, <1>2, HandStep

\* The steps of the executors and of the runtime leave the node's own state alone.
LEMMA ExecutorKeepsNodeInv ==
  ASSUME NodeInv, TypeOK', HandMatchesPhase', NEW e \in Executors,
         ExecutorStep(e) \/ RuntimeStep(e)
  PROVE  NodeInv'
<1> USE NodeAssumption
<1>1. UNCHANGED nodeVars
  BY DEF ExecutorStep, RuntimeStep
<1>2. UNCHANGED <<control, piper, piperExit, shell, shellStatus, echoed, worker, wi, pids, failures, workerExit>>
  BY <1>1 DEF nodeVars, piperVars, shellVars, workerVars
<1>3. NodeTypeOK' /\ PiperState' /\ WorkerEnd'
  BY <1>2 DEF NodeInv, NodeTypeOK, PiperState, WorkerEnd
<1>4. CASE RuntimeStep(e)
  <2>1. UNCHANGED <<pc, exitCode, quitEchoed>>
    BY <1>4 DEF RuntimeStep, Runtime, SendTask, SendQuit, SendRefused, WriteLine, CloseCommandPipe
  <2>2. QED
    BY <1>2, <1>3, <2>1 DEF NodeInv, Forked, SpawnLoop, WaitLoop, ShellState
<1>5. CASE ExecutorStep(e)
  <2>1. /\ pc[e] \in Live /\ pc'[e] # "none" /\ quitEchoed' = quitEchoed
        /\ \A d \in Executors : d # e => pc'[d] = pc[d] /\ exitCode'[d] = exitCode[d]
    BY <1>5, LiveMoves DEF ExecutorStep, NodeInv
  <2>2. pc[e] \notin {"none", "dead"}
    BY <2>1 DEF Live, Busy
  <2>3. Forked' /\ ShellState'
    BY <1>2, <2>1, <2>2 DEF NodeInv, Forked, ShellState
  <2>4. SpawnLoop'
    BY <1>2, <2>1, <2>2 DEF NodeInv, SpawnLoop
  <2>5. WaitLoop'
    <3>1. CASE worker \notin {"wait", "done"}
      BY <1>2, <3>1 DEF WaitLoop
    <3>2. CASE worker \in {"wait", "done"}
      <4>1. ~(e < wi)
        BY <2>2, <3>2 DEF NodeInv, WaitLoop
      <4>2. \A d \in Executors : d < wi => pc'[d] = pc[d] /\ exitCode'[d] = exitCode[d]
        BY <2>1, <4>1
      <4>3. QED
        BY <1>2, <3>2, <4>2 DEF NodeInv, WaitLoop
    <3>3. QED
      BY <3>1, <3>2
  <2>6. QED
    BY <1>3, <2>3, <2>4, <2>5 DEF NodeInv
<1>6. QED
  BY <1>4, <1>5

\* The fork loop: the executors from wi on stay unforked.
LEMMA SpawnKeepsNodeInv ==
  ASSUME NodeInv, TypeOK', HandMatchesPhase', CheckExecutorBinary \/ ForkExecutor \/ SpawnDone
  PROVE  NodeInv'
<1> USE NodeAssumption DEF piperVars, shellVars, execVars
<1>1. CASE CheckExecutorBinary \/ SpawnDone
  <2>1. /\ UNCHANGED <<control, piper, piperExit, shell, shellStatus, echoed, pids, failures, workerExit>>
        /\ UNCHANGED <<pc, exitCode, quitEchoed>>
        /\ worker \in {"check", "spawn"} /\ worker' \in {"spawn", "wait"}
        /\ worker' = "wait" => wi' = 0
        /\ worker' = "spawn" => wi' = wi /\ worker = "check"
    BY <1>1 DEF CheckExecutorBinary, SpawnDone, NodeInv, SpawnLoop
  <2>2. NodeTypeOK' /\ Forked' /\ WorkerEnd' /\ PiperState' /\ ShellState'
    BY <2>1 DEF NodeInv, NodeTypeOK, Forked, WorkerEnd, PiperState, ShellState
  <2>3. SpawnLoop' /\ WaitLoop'
    BY <2>1 DEF NodeInv, SpawnLoop, WaitLoop, NodeTypeOK
  <2>4. QED
    BY <2>2, <2>3 DEF NodeInv
<1>2. CASE ForkExecutor
  <2>1. /\ UNCHANGED <<control, piper, piperExit, shell, shellStatus, echoed, failures, workerExit, quitEchoed>>
        /\ worker = "spawn" /\ worker' = "spawn" /\ wi' = wi + 1 /\ wi < NumPipes /\ wi \in Executors
    BY <1>2 DEF ForkExecutor, NodeInv, NodeTypeOK
  <2>2. /\ \A d \in Executors : d # wi => pc'[d] = pc[d] /\ pids'[d] = pids[d]
        /\ \/ pids'[wi] /\ pc'[wi] # "none"
           \/ pids'[wi] = pids[wi] /\ pc'[wi] = pc[wi]
        /\ pids' \in [Executors -> BOOLEAN]
    <3>1. pids \in [Executors -> BOOLEAN] /\ pc \in [Executors -> Idle \union Busy]
      BY DEF NodeInv, NodeTypeOK, TypeOK
    <3>2. CASE UNCHANGED <<pc, pids>>
      BY <3>1, <3>2
    <3>3. CASE /\ pids' = [pids EXCEPT ![wi] = TRUE]
               /\ \E s \in {"init", "dead"} : pc' = [pc EXCEPT ![wi] = s]
      BY <2>1, <3>1, <3>3
    <3>4. QED
      BY <1>2, <3>2, <3>3 DEF ForkExecutor, Die
  <2>3. NodeTypeOK'
    BY <2>1, <2>2 DEF NodeInv, NodeTypeOK
  <2>4. Forked'
    BY <2>1, <2>2 DEF NodeInv, Forked
  <2>5. SpawnLoop'
    BY <2>1, <2>2, <2>3 DEF NodeInv, SpawnLoop, NodeTypeOK
  <2>6. WaitLoop' /\ WorkerEnd' /\ PiperState' /\ ShellState'
    BY <2>1 DEF NodeInv, WaitLoop, WorkerEnd, PiperState, ShellState
  <2>7. QED
    BY <2>3, <2>4, <2>5, <2>6 DEF NodeInv
<1>3. QED
  BY <1>1, <1>2

\* The wait loop: the executors below wi are gone, and counted if they failed.
LEMMA WaitKeepsNodeInv ==
  ASSUME NodeInv, TypeOK', HandMatchesPhase', WaitExecutor \/ WorkerReturn
  PROVE  NodeInv'
<1> USE NodeAssumption DEF piperVars, shellVars, execVars
<1>0. UNCHANGED <<control, piper, piperExit, shell, shellStatus, echoed, pids, pc, exitCode, quitEchoed>>
  BY DEF WaitExecutor, WorkerReturn
<1>1. CASE WaitExecutor
  <2>1. /\ worker = "wait" /\ worker' = "wait" /\ wi' = wi + 1 /\ wi < NumPipes /\ wi \in Executors
        /\ pids[wi] => pc[wi] = "dead"
        /\ failures' = failures + (IF pids[wi] THEN exitCode[wi] ELSE 0)
        /\ workerExit' = workerExit
    BY <1>1 DEF WaitExecutor, NodeInv, NodeTypeOK
  <2>2. exitCode[wi] \in {0, 1} /\ failures \in 0..NumPipes /\ wi \in 0..NumPipes
    BY <2>1 DEF NodeInv, TypeOK, NodeTypeOK
  <2>3. /\ failures <= wi
        /\ \A e \in Executors : e < wi => pc[e] \in {"none", "dead"}
        /\ failures = 0 <=> \A e \in Executors : e < wi /\ pids[e] => exitCode[e] = 0
    BY <2>1 DEF NodeInv, WaitLoop
  <2>4. failures' <= wi' /\ failures' \in 0..NumPipes /\ wi' \in 0..NumPipes
    BY <2>1, <2>2, <2>3
  <2>5. \A e \in Executors : e < wi' <=> e < wi \/ e = wi
    BY <2>1, <2>2
  <2>6. \A e \in Executors : e < wi' => pc[e] \in {"none", "dead"}
    BY <2>1, <2>3, <2>5 DEF NodeInv, Forked
  <2>7. failures' = 0 <=> failures = 0 /\ (pids[wi] => exitCode[wi] = 0)
    BY <2>1, <2>2
  <2>8. failures' = 0 <=> \A e \in Executors : e < wi' /\ pids[e] => exitCode[e] = 0
    BY <2>1, <2>3, <2>5, <2>7
  <2>9. WaitLoop'
    BY <1>0, <2>1, <2>4, <2>6, <2>8 DEF WaitLoop
  <2>10. NodeTypeOK' /\ Forked' /\ SpawnLoop' /\ WorkerEnd' /\ PiperState' /\ ShellState'
    BY <1>0, <2>1, <2>4 DEF NodeInv, NodeTypeOK, Forked, SpawnLoop, WorkerEnd, PiperState, ShellState
  <2>11. QED
    BY <2>9, <2>10 DEF NodeInv
<1>2. CASE WorkerReturn
  <2>1. /\ worker = "wait" /\ worker' = "done" /\ wi = NumPipes /\ UNCHANGED <<wi, failures>>
        /\ workerExit' = IF failures = 0 THEN 0 ELSE 1
    BY <1>2 DEF WorkerReturn
  <2>2. NodeTypeOK' /\ Forked' /\ SpawnLoop' /\ WaitLoop' /\ WorkerEnd'
    BY <1>0, <2>1 DEF NodeInv, NodeTypeOK, Forked, SpawnLoop, WaitLoop, WorkerEnd
  <2>3. PiperState' /\ ShellState'
    BY <1>0, <2>1 DEF NodeInv, PiperState, ShellState
  <2>4. QED
    BY <2>2, <2>3 DEF NodeInv
<1>3. QED
  BY <1>1, <1>2

\* The subshell starts the worker once and echoes QUIT pipe by pipe after it.
LEMMA ShellKeepsNodeInv ==
  ASSUME NodeInv, TypeOK', HandMatchesPhase', Shell
  PROVE  NodeInv'
<1> USE NodeAssumption DEF piperVars, workerVars, execVars
<1>0. UNCHANGED <<control, piper, piperExit, wi, pids, failures, workerExit, pc, exitCode>>
  BY DEF Shell, StartWorker, WorkerReaped, EchoNext, ShellEnd
<1>1. CASE StartWorker
  <2>1. /\ shell = "start" /\ UNCHANGED <<echoed, quitEchoed>>
        /\ \/ shell' = "worker" /\ worker' = "check" /\ UNCHANGED shellStatus
           \/ shell' = "done" /\ shellStatus' = 1 /\ UNCHANGED worker
        /\ worker = "none" /\ echoed = 0
    BY <1>1 DEF StartWorker, NodeInv, ShellState, NodeTypeOK
  <2>2. NodeTypeOK' /\ Forked' /\ SpawnLoop' /\ WaitLoop' /\ WorkerEnd' /\ PiperState'
    BY <1>0, <2>1 DEF NodeInv, NodeTypeOK, Forked, SpawnLoop, WaitLoop, WorkerEnd, PiperState
  <2>3. ShellState'
    BY <2>1 DEF NodeInv, ShellState
  <2>4. QED
    BY <2>2, <2>3 DEF NodeInv
<1>2. CASE WorkerReaped \/ ShellEnd
  <2>1. /\ UNCHANGED <<echoed, quitEchoed, worker>>
        /\ \/ shell' = "echo" /\ worker = "done" /\ UNCHANGED shellStatus
           \/ shell' = "done" /\ shellStatus' = 0 /\ shell = "echo" /\ echoed = NumPipes
    BY <1>2 DEF WorkerReaped, ShellEnd
  <2>2. NodeTypeOK' /\ Forked' /\ SpawnLoop' /\ WaitLoop' /\ WorkerEnd' /\ PiperState'
    BY <1>0, <2>1 DEF NodeInv, NodeTypeOK, Forked, SpawnLoop, WaitLoop, WorkerEnd, PiperState
  <2>3. ShellState'
    BY <2>1 DEF NodeInv, ShellState
  <2>4. QED
    BY <2>2, <2>3 DEF NodeInv
<1>3. CASE EchoNext
  <2>1. /\ UNCHANGED <<worker, shell, shellStatus>> /\ shell = "echo" /\ echoed' = echoed + 1
        /\ echoed \in 0..(NumPipes - 1) /\ quitEchoed' = [quitEchoed EXCEPT ![echoed] = TRUE]
    BY <1>3 DEF EchoNext, NodeInv, NodeTypeOK
  <2>2. NodeTypeOK' /\ Forked' /\ SpawnLoop' /\ WaitLoop' /\ WorkerEnd'
    BY <1>0, <2>1 DEF NodeInv, NodeTypeOK, Forked, SpawnLoop, WaitLoop, WorkerEnd
  <2>3. PiperState'
    BY <1>0, <2>1 DEF NodeInv, PiperState
  <2>4. \A e \in Executors : quitEchoed'[e] <=> e < echoed'
    <3>1. \A e \in Executors : quitEchoed'[e] <=> quitEchoed[e] \/ e = echoed
      BY <2>1 DEF NodeInv, TypeOK
    <3>2. QED
      BY <2>1, <3>1 DEF NodeInv, ShellState
  <2>5. ShellState'
    BY <2>1, <2>4 DEF NodeInv, ShellState
  <2>6. QED
    BY <2>2, <2>3, <2>5 DEF NodeInv
<1>4. QED
  BY <1>1, <1>2, <1>3 DEF Shell

\* r_piper.sh reads commands, kills the subshell, and exits with what it waited for.
LEMMA PiperKeepsNodeInv ==
  ASSUME NodeInv, TypeOK', HandMatchesPhase', Piper \/ SigTerm
  PROVE  NodeInv'
<1> USE NodeAssumption DEF shellVars, workerVars, execVars
<1>0. UNCHANGED <<worker, wi, pids, failures, workerExit, pc, exitCode, quitEchoed, echoed>>
  BY DEF Piper, QueryExecutorId, RemoveExecutor, QuitCommand, WaitShell, SigTerm
<1>1. Forked' /\ SpawnLoop' /\ WaitLoop' /\ WorkerEnd'
  BY <1>0 DEF NodeInv, Forked, SpawnLoop, WaitLoop, WorkerEnd
<1>2. control' \in Seq(Commands)
  <2>1. control' = control \/ (control # <<>> /\ control' = Tail(control))
    BY DEF Piper, QueryExecutorId, RemoveExecutor, QuitCommand, WaitShell, SigTerm, NextCommand
  <2>2. QED
    BY <2>1 DEF NodeInv, NodeTypeOK
<1>3. CASE QueryExecutorId \/ QuitCommand
  <2>1. UNCHANGED <<piperExit, shell, shellStatus>> /\ piper' \in {"loop", "wait"}
    BY <1>3 DEF QueryExecutorId, QuitCommand, NextCommand
  <2>2. NodeTypeOK' /\ ShellState' /\ PiperState'
    BY <1>0, <1>2, <2>1 DEF NodeInv, NodeTypeOK, ShellState, PiperState
  <2>3. QED
    BY <1>1, <2>2 DEF NodeInv
<1>4. CASE RemoveExecutor
  <2>1. /\ UNCHANGED <<piper, piperExit>>
        /\ UNCHANGED <<shell, shellStatus>> \/ (shell' = "killed" /\ shellStatus' = 1)
    BY <1>4 DEF RemoveExecutor
  <2>2. NodeTypeOK' /\ ShellState' /\ PiperState'
    BY <1>0, <1>2, <2>1 DEF NodeInv, NodeTypeOK, ShellState, PiperState
  <2>3. QED
    BY <1>1, <2>2 DEF NodeInv
<1>5. CASE WaitShell \/ SigTerm
  <2>1. /\ UNCHANGED <<shell, shellStatus>> /\ piper' = "exited"
        /\ piperExit' = 1 \/ (piperExit' = shellStatus /\ shell \in {"done", "killed"})
    BY <1>5 DEF WaitShell, SigTerm
  <2>2. NodeTypeOK' /\ ShellState' /\ PiperState'
    BY <1>0, <1>2, <2>1 DEF NodeInv, NodeTypeOK, ShellState, PiperState
  <2>3. QED
    BY <1>1, <2>2 DEF NodeInv
<1>6. QED
  BY <1>3, <1>4, <1>5 DEF Piper

\* The inductive invariant of the node: the worker's loops, the subshell's echoes and
\* the piper's exit agree about which executors exist, are gone and have failed.
THEOREM NodeInvariance == NodeSpec => []NodeInv
<1>1. NodeInv /\ [NodeNext]_allVars => NodeInv'
  <2> SUFFICES ASSUME NodeInv, [NodeNext]_allVars PROVE NodeInv'
    OBVIOUS
  <2>1. TypeOK' /\ HandMatchesPhase'
    BY NodeExecStep
  <2>2. CASE UNCHANGED allVars
    <3>1. UNCHANGED <<execVars, nodeVars>>
      BY <2>2 DEF allVars
    <3>2. UNCHANGED <<pc, exitCode, quitEchoed>> /\ UNCHANGED nodeVars
      BY <3>1 DEF execVars
    <3>3. QED
      BY <2>1, <3>2 DEF nodeVars, piperVars, shellVars, workerVars, NodeInv, NodeTypeOK, Forked,
                        SpawnLoop, WaitLoop, WorkerEnd, ShellState, PiperState
  <2>3. CASE Worker
    BY <2>1, <2>3, SpawnKeepsNodeInv, WaitKeepsNodeInv DEF Worker
  <2>4. CASE Shell \/ Piper \/ SigTerm
    BY <2>1, <2>4, ShellKeepsNodeInv, PiperKeepsNodeInv
  <2>5. QED
    BY <2>1, <2>2, <2>3, <2>4, ExecutorKeepsNodeInv DEF NodeNext
<1>2. QED
  BY <1>1, NodeInvInit, PTL DEF NodeSpec

\* Every reachable state of r_piper.sh, its subshell and the worker is well typed; in
\* particular waitExecutors never counts more failures than there are executors.
THEOREM NodeTypeCorrect == NodeSpec => []NodeTypeOK
<1>1. NodeInv => NodeTypeOK
  BY DEF NodeInv
<1>2. QED
  BY <1>1, NodeInvariance, PTL

\* rcompss_worker does not return before the last of its executors is gone.
THEOREM WorkerIsLast == NodeSpec => []WorkerOutlivesExecutors
<1>1. NodeInv => WorkerOutlivesExecutors
  BY NodeAssumption DEF NodeInv, WaitLoop, WorkerEnd, WorkerOutlivesExecutors
<1>2. QED
  BY <1>1, NodeInvariance, PTL

\* The worker's exit status is 0 exactly when no executor it forked has failed.
THEOREM WorkerVerdictRight == NodeSpec => []WorkerVerdict
<1>1. NodeInv => WorkerVerdict
  BY NodeAssumption DEF NodeInv, WaitLoop, WorkerEnd, WorkerVerdict
<1>2. QED
  BY <1>1, NodeInvariance, PTL

\* r_piper.sh exits with 0 only after the worker, and after QUIT on every result pipe.
THEOREM PiperExitsClean == NodeSpec => []CleanExit
<1>1. NodeInv => CleanExit
  BY NodeAssumption DEF NodeInv, PiperState, ShellState, CleanExit
<1>2. QED
  BY <1>1, NodeInvariance, PTL

\* The node is an environment that module Executor allows: with the worker, the
\* subshell and the piper hidden, it is the executors.
THEOREM NodeImplementsExecutor == NodeSpec => ImplementsExecutor
<1>1. NodeInit => ExecInit
  BY DEF NodeInit
<1>2. QED
  BY <1>1, NodeStepIsExecStep, NodeInvariance, PTL DEF NodeSpec, ExecSpec, ImplementsExecutor

\* No END_TASK follows the QUIT that the piper has written to a result pipe.
THEOREM NothingAfterQuit == NodeSpec => QuitIsLast
<1> DEFINE Quiet == \A e \in Executors : quitEchoed[e] => res'[e] = res[e]
<1>1. NodeInv /\ [NodeNext]_allVars => [Quiet]_allVars
  <2> SUFFICES ASSUME NodeInv, [NodeNext]_allVars, NEW e \in Executors, quitEchoed[e]
               PROVE  res'[e] = res[e]
    OBVIOUS
  <2>1. pc[e] \in {"none", "dead"}
    BY NodeAssumption DEF NodeInv, NodeTypeOK, ShellState, WaitLoop, WorkerEnd
  <2>2. ASSUME NEW d \in Executors, ExecutorStep(d)
        PROVE  res'[e] = res[e]
    <3>1. pc[d] \in Live /\ (e # d => res'[e] = res[e])
      BY <2>2, LiveMoves DEF ExecutorStep, NodeInv
    <3>2. QED
      BY <2>1, <3>1 DEF Live, Busy
  <2>3. ASSUME NEW d \in Executors, RuntimeStep(d)
        PROVE  res' = res
    BY <2>3 DEF RuntimeStep, Runtime, SendTask, SendQuit, SendRefused, WriteLine, CloseCommandPipe
  <2>4. CASE Worker \/ Shell \/ Piper \/ SigTerm
    BY <2>4 DEF Worker, CheckExecutorBinary, ForkExecutor, SpawnDone, WaitExecutor, WorkerReturn,
                Shell, StartWorker, WorkerReaped, EchoNext, ShellEnd, Piper, QueryExecutorId,
                RemoveExecutor, QuitCommand, WaitShell, SigTerm, execVars
  <2>5. CASE UNCHANGED allVars
    BY <2>5 DEF allVars, execVars
  <2>6. QED
    BY <2>2, <2>3, <2>4, <2>5 DEF NodeNext
<1>2. QED
  BY <1>1, NodeInvariance, PTL DEF NodeSpec, QuitIsLast

\* On a node, with everything that r_piper.sh and the worker do, the executors keep all
\* they promise: no task lost, success earned, answers final, the service implemented.
THEOREM NodeServesTasks ==
  NodeSpec => /\ [](Accounted /\ AnswersInOrder /\ CallsOwnModule /\ SuccessIsEarned /\ OwnBinding)
              /\ AnswerIsFinal
              /\ ImplementsTaskService
<1>1. NodeSpec => ExecSpec
  BY NodeImplementsExecutor DEF ImplementsExecutor
<1>2. QED
  BY <1>1, TasksAccounted, AnswersOrdered, OwnModuleCalled, SuccessEarned, BindingIsOwn,
     AnswersFinal, ExecutorImplementsService, PTL
=============================================================================
