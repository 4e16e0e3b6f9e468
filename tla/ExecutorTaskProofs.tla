------------------------- MODULE ExecutorTaskProofs -------------------------
(***************************************************************************)
(* Proofs about what a task of module Executor does: the code it runs, the *)
(* processors it sees, what its answer says and what follows the answer.   *)
(***************************************************************************)
EXTENDS ExecutorProofs

\* No task is written to two executors.
Disjoint == \A d, e \in Executors : d # e => issued[d] \intersect issued[e] = {}

\* Nothing has been written for a task that no executor has read.
Unread == {j \in JobIds : j >= nextJob} \union UNION {Queued(e) : e \in Executors}
Fresh == \A j \in Unread : files[j] = "absent"

\* What the phases of executeTask have established for the task in hand.
Sourced(e) ==
  pc[e] \in {"args", "call"} =>
    LET r == req[cur[e]] IN
    /\ env[e][r.func] # NoModule
    /\ r.func \in Defs[r.module] => env[e][r.func] = r.module

Called(e) ==
  pc[e] \in {"serialize", "verify"} \/ (pc[e] = "reply" /\ verdict[e] = 0) => ran[cur[e]] # NoModule

Unspoilt(e) ==
  /\ pc[e] \in Busy \ {"verify", "reply"} => files[cur[e]] = "absent"
  /\ pc[e] = "verify" \/ (pc[e] = "reply" /\ verdict[e] = 0) => files[cur[e]] # "partial"

BoundAt(e) ==
  /\ cpuEnv[e] = affinity[e]
  /\ pc[e] \in Busy \ {"bind"} /\ req[cur[e]].gpus # NoBind => gpuEnv[e] = req[cur[e]].gpus

EarnedAt(e) ==
  \A i \in DOMAIN res[e] :
    res[e][i].status = 0 => ran[res[e][i].id] # NoModule /\ files[res[e][i].id] # "partial"

Progress(e) == Sourced(e) /\ Called(e) /\ Unspoilt(e) /\ BoundAt(e) /\ EarnedAt(e)

TaskInv == IInv /\ Disjoint /\ Fresh /\ CallsOwnModule /\ \A e \in Executors : Progress(e)

\* The task in hand has been issued to its executor alone and is neither unread nor
\* answered anywhere.
LEMMA HandApart ==
  ASSUME IInv, Disjoint, NEW e \in Executors, pc[e] \in Busy
  PROVE  /\ cur[e] \in JobIds /\ cur[e] \notin Unread
         /\ \A d \in Executors : cur[e] \notin AnsweredIds(d) /\ (d # e => cur[d] # cur[e])
<1>1. cur[e] \in JobIds /\ InHand(e) = {cur[e]}
  BY ExecutorAssumption DEF IInv, HandMatchesPhase, InHand, NoJob, JobIds
<1>2. \A d \in Executors : AccountedAt(d) /\ Lined(d)
  BY DEF IInv, Good
<1>3. cur[e] \in issued[e] /\ cur[e] < nextJob /\ cur[e] \notin Queued(e) \union AnsweredIds(e)
  BY <1>1, <1>2 DEF AccountedAt, Lined
<1>4. ASSUME NEW d \in Executors, d # e
      PROVE  cur[e] \notin Queued(d) \union AnsweredIds(d) \union InHand(d)
  BY <1>2, <1>3, <1>4 DEF AccountedAt, Disjoint
<1>5. ~(cur[e] >= nextJob)
  BY <1>1, <1>3 DEF JobIds, IInv, TypeOK
<1>6. cur[e] \notin Unread
  BY <1>3, <1>4, <1>5 DEF Unread
<1>7. \A d \in Executors : d # e => cur[d] # cur[e]
  BY <1>1, <1>4, ExecutorAssumption DEF InHand, NoJob, JobIds
<1>8. QED
  BY <1>1, <1>3, <1>4, <1>6, <1>7

\* Only an executor inside executeTask writes a return file, whole or in part when it
\* dies there, or runs a task: its own.
LEMMA TouchesHand ==
  ASSUME IInv, [ExecNext]_execVars, NEW j \in JobIds,
         \A e \in Executors : pc[e] \in {"call", "serialize"} => j # cur[e]
  PROVE  files'[j] = files[j] /\ ran'[j] = ran[j]
<1>1. ASSUME NEW e \in Executors, Call(e) \/ Serialize(e) \/ Crash(e)
      PROVE  files'[j] = files[j] /\ ran'[j] = ran[j]
  <2>1. CASE Call(e)
    BY <2>1 DEF Call, IInv, TypeOK
  <2>2. CASE Serialize(e)
    BY <2>2 DEF Serialize, IInv, TypeOK
  <2>3. CASE Crash(e)
    BY <2>3 DEF Crash, IInv, TypeOK
  <2>4. QED
    BY <1>1, <2>1, <2>2, <2>3
<1>2. ASSUME NEW e \in Executors, Step(e), ~Call(e), ~Serialize(e)
      PROVE  UNCHANGED <<files, ran>>
  BY <1>2 DEF Step, InitR, ReadTask, SkipRefused, ReadQuit, Bind, SourceModule, ModuleMissing,
              BuildArgs, VerifyFile, Reply, taskVars
<1>3. ASSUME NEW e \in Executors, Runtime(e) \/ Spawn(e) \/ SpawnFails(e) \/ EchoQuit(e)
      PROVE  UNCHANGED <<files, ran>>
  BY <1>3 DEF Runtime, SendTask, SendQuit, SendRefused, WriteLine, CloseCommandPipe, Spawn,
              SpawnFails, EchoQuit, taskVars
<1>4. CASE UNCHANGED execVars
  BY <1>4 DEF execVars, taskVars
<1>5. QED
  BY <1>1, <1>2, <1>3, <1>4 DEF ExecNext

\* A pipe's unread tasks are those it held, and a task that is written now.
LEMMA QueuedStep ==
  ASSUME IInv, IInv', [ExecNext]_execVars, NEW d \in Executors
  PROVE  Queued(d)' \subseteq Queued(d) \union {nextJob}
<1> USE DEF IInv
<1>1. CASE cmd'[d] = cmd[d]
  BY <1>1 DEF Queued
<1>2. CASE cmd[d] # <<>> /\ cmd'[d] = Tail(cmd[d])
  <2>1. Elements(cmd'[d]) \subseteq Elements(cmd[d])
    <3>1. cmd[d] \in Seq(Lines)
      BY DEF TypeOK
    <3>2. QED
      BY <3>1, <1>2, TailElements
  <2>2. QED
    BY <2>1, QueuedJobs DEF Queued, Elements
<1>3. ASSUME NEW line, line \in {nextJob, QUIT} \union Refused, line \in Lines,
             cmd'[d] = Append(cmd[d], line)
      PROVE  Queued(d)' \subseteq Queued(d) \union {nextJob}
  <2>1. Elements(cmd'[d]) = Elements(cmd[d]) \union {line}
    <3>1. cmd[d] \in Seq(Lines)
      BY DEF TypeOK
    <3>2. QED
      BY <3>1, <1>3, AppendElements
  <2>2. QED
    BY <1>3, <2>1 DEF Queued, Elements
<1>4. ASSUME NEW e \in Executors, Runtime(e)
      PROVE  \/ cmd'[d] = cmd[d]
             \/ \E line \in ({nextJob, QUIT} \union Refused) \intersect Lines : cmd'[d] = Append(cmd[d], line)
  <2>1. CASE d # e
    BY <1>4, <2>1 DEF Runtime, SendTask, SendQuit, SendRefused, WriteLine, CloseCommandPipe, TypeOK
  <2>2. CASE d = e
    <3>1. SendTask(e) => cmd'[d] = Append(cmd[d], nextJob) /\ nextJob \in Lines
      BY <2>2 DEF SendTask, WriteLine, TypeOK, Lines
    <3>2. SendQuit(e) => cmd'[d] = Append(cmd[d], QUIT) /\ QUIT \in Lines
      BY <2>2 DEF SendQuit, WriteLine, TypeOK, Lines
    <3>3. SendRefused(e) => \E line \in Refused : cmd'[d] = Append(cmd[d], line) /\ line \in Lines
      BY <2>2 DEF SendRefused, WriteLine, TypeOK, Lines
    <3>4. QED
      BY <1>4, <3>1, <3>2, <3>3 DEF Runtime, CloseCommandPipe
  <2>3. QED
    BY <2>1, <2>2
<1>5. ASSUME NEW e \in Executors, ReadTask(e) \/ SkipRefused(e) \/ ReadQuit(e)
      PROVE  cmd'[d] = cmd[d] \/ (cmd[d] # <<>> /\ cmd'[d] = Tail(cmd[d]))
  <2>1. cmd' = cmd \/ (cmd[e] # <<>> /\ cmd' = [cmd EXCEPT ![e] = Tail(@)])
    BY <1>5 DEF ReadTask, SkipRefused, ReadQuit
  <2>2. QED
    BY <2>1 DEF TypeOK
<1>6. ASSUME NEW e \in Executors, Step(e), ~(ReadTask(e) \/ SkipRefused(e) \/ ReadQuit(e))
      PROVE  cmd' = cmd
  BY <1>6 DEF Step, InitR, Bind, SourceModule, ModuleMissing, BuildArgs, Call, Serialize,
              VerifyFile, Reply
<1>7. ASSUME NEW e \in Executors, Spawn(e) \/ SpawnFails(e) \/ EchoQuit(e) \/ Crash(e)
      PROVE  cmd' = cmd
  BY <1>7 DEF Spawn, SpawnFails, EchoQuit, Crash
<1>8. CASE UNCHANGED execVars
  BY <1>1, <1>8 DEF execVars
<1>9. QED
  BY <1>1, <1>2, <1>3, <1>4, <1>5, <1>6, <1>7, <1>8 DEF ExecNext

\* Task ids are issued in increasing order, each to one executor.
LEMMA DisjointStep == IInv /\ Disjoint /\ [ExecNext]_execVars => Disjoint'
<1> SUFFICES ASSUME IInv, Disjoint, [ExecNext]_execVars PROVE Disjoint'
  OBVIOUS
<1>1. CASE issued' = issued
  BY <1>1 DEF Disjoint
<1>2. ASSUME NEW e \in Executors, SendTask(e)
      PROVE  Disjoint'
  <2>1. \A d \in Executors : nextJob \notin issued[d]
    <3>1. nextJob \in Int
      BY DEF IInv, TypeOK
    <3>2. QED
      BY <3>1 DEF IInv, Good, Lined
  <2>2. /\ issued'[e] = issued[e] \union {nextJob}
        /\ \A d \in Executors : d # e => issued'[d] = issued[d]
    BY <1>2 DEF SendTask, IInv, TypeOK
  <2>3. QED
    BY <2>1, <2>2 DEF Disjoint
<1>3. ASSUME NEW e \in Executors,
             \/ SendQuit(e) \/ SendRefused(e) \/ CloseCommandPipe(e)
             \/ Spawn(e) \/ SpawnFails(e) \/ EchoQuit(e) \/ Crash(e)
      PROVE  issued' = issued
  BY <1>3 DEF SendQuit, SendRefused, CloseCommandPipe, Spawn, SpawnFails, EchoQuit, Crash, runtimeVars
<1>4. ASSUME NEW e \in Executors, Step(e)
      PROVE  issued' = issued
  BY <1>4 DEF Step, InitR, ReadTask, SkipRefused, ReadQuit, Bind, SourceModule, ModuleMissing,
              BuildArgs, Call, Serialize, VerifyFile, Reply, runtimeVars
<1>5. CASE UNCHANGED execVars
  BY <1>1, <1>5 DEF execVars, runtimeVars
<1>6. QED
  BY <1>1, <1>2, <1>3, <1>4, <1>5 DEF ExecNext, Runtime

\* Nothing is written for a task before it is read.
LEMMA FreshStep ==
  ASSUME IInv, IInv', Disjoint, Fresh, [ExecNext]_execVars
  PROVE  Fresh'
<1>1. nextJob' \in Int /\ nextJob \in Int /\ nextJob' >= nextJob
  <2>1. nextJob' = nextJob \/ nextJob' = nextJob + 1
    BY DEF ExecNext, Runtime, SendTask, SendQuit, SendRefused, CloseCommandPipe, Spawn, SpawnFails,
           EchoQuit, Crash, Step, InitR, ReadTask, SkipRefused, ReadQuit, Bind, SourceModule,
           ModuleMissing, BuildArgs, Call, Serialize, VerifyFile, Reply, runtimeVars, execVars
  <2>2. QED
    BY <2>1 DEF IInv, TypeOK
<1>2. \A d \in Executors : Queued(d)' \subseteq JobIds
  BY DEF IInv, Good, AccountedAt, TypeOK
<1>3. Unread' \subseteq Unread
  <2>1. ASSUME NEW j \in JobIds, j >= nextJob'
        PROVE  j \in Unread
    BY <1>1, <2>1 DEF Unread, JobIds
  <2>2. ASSUME NEW d \in Executors, NEW j \in Queued(d)'
        PROVE  j \in Unread
    <3>1. CASE j \in Queued(d)
      BY <3>1 DEF Unread
    <3>2. CASE j = nextJob
      BY <1>1, <1>2, <2>2, <3>2 DEF Unread
    <3>3. QED
      BY <3>1, <3>2, QueuedStep
  <2>3. QED
    BY <2>1, <2>2 DEF Unread
<1>4. Unread \subseteq JobIds
  BY QueuedJobs DEF Unread, IInv
<1>5. ASSUME NEW j \in Unread'
      PROVE  files'[j] = "absent"
  <2>1. j \in Unread /\ j \in JobIds
    BY <1>3, <1>4, <1>5
  <2>2. \A e \in Executors : pc[e] \in {"call", "serialize"} => j # cur[e]
    BY <2>1, HandApart DEF Busy
  <2>3. QED
    BY <2>1, <2>2, TouchesHand DEF Fresh
<1>6. QED
  BY <1>5 DEF Fresh

\* No step touches what an answered task has left, whichever executor answered it.
LEMMA AnsweredUntouched ==
  ASSUME IInv, Disjoint, [ExecNext]_execVars, NEW d \in Executors, NEW j \in AnsweredIds(d)
  PROVE  j \in JobIds /\ files'[j] = files[j] /\ ran'[j] = ran[j]
<1>1. j \in JobIds
  BY DEF IInv, Good, AccountedAt, TypeOK
<1>2. \A e \in Executors : pc[e] \in {"call", "serialize"} => j # cur[e]
  BY HandApart DEF Busy
<1>3. QED
  BY <1>1, <1>2, TouchesHand

\* A step without an answer keeps what the answers so far say true.
LEMMA EarnedFrame ==
  ASSUME IInv, Disjoint, [ExecNext]_execVars, NEW d \in Executors, EarnedAt(d), res'[d] = res[d]
  PROVE  EarnedAt(d)'
<1>1. ASSUME NEW i \in DOMAIN res[d]
      PROVE  /\ files'[res[d][i].id] = files[res[d][i].id]
             /\ ran'[res[d][i].id] = ran[res[d][i].id]
  <2>1. res[d][i].id \in AnsweredIds(d)
    BY <1>1 DEF AnsweredIds
  <2>2. QED
    BY <2>1, AnsweredUntouched
<1>2. QED
  BY <1>1 DEF EarnedAt

\* A step that leaves an executor's task and what it has established alone.
LEMMA ProgressFrame ==
  ASSUME IInv, Disjoint, [ExecNext]_execVars, NEW d \in Executors, Progress(d), req' = req,
         pc'[d] = pc[d], cur'[d] = cur[d], verdict'[d] = verdict[d], env'[d] = env[d],
         res'[d] = res[d], affinity'[d] = affinity[d], cpuEnv'[d] = cpuEnv[d], gpuEnv'[d] = gpuEnv[d],
         pc[d] \in Busy => files'[cur[d]] = files[cur[d]] /\ ran'[cur[d]] = ran[cur[d]]
  PROVE  Progress(d)'
<1>1. EarnedAt(d)'
  BY EarnedFrame DEF Progress
<1>2. Sourced(d)' /\ BoundAt(d)'
  BY DEF Progress, Sourced, BoundAt
<1>3. Called(d)' /\ Unspoilt(d)'
  BY DEF Progress, Called, Unspoilt, Busy
<1>4. QED
  BY <1>1, <1>2, <1>3 DEF Progress

\* A step of another executor is such a step: it works on another task.
LEMMA OthersProgress ==
  ASSUME IInv, Disjoint, NEW e \in Executors, NEW d \in Executors, d # e, Progress(d),
         Step(e) \/ Crash(e) \/ Runtime(e) \/ Spawn(e) \/ SpawnFails(e) \/ EchoQuit(e)
  PROVE  Progress(d)'
<1>1. [ExecNext]_execVars
  BY DEF ExecNext
<1>2. /\ req' = req /\ pc'[d] = pc[d] /\ cur'[d] = cur[d] /\ verdict'[d] = verdict[d]
      /\ env'[d] = env[d] /\ res'[d] = res[d] /\ affinity'[d] = affinity[d]
      /\ cpuEnv'[d] = cpuEnv[d] /\ gpuEnv'[d] = gpuEnv[d]
  <2> USE DEF IInv, TypeOK, runtimeVars, bindVars, taskVars, Goto, Die, Conclude
  <2>1. CASE Runtime(e) \/ Spawn(e) \/ SpawnFails(e) \/ EchoQuit(e) \/ Crash(e)
    BY <2>1 DEF Runtime, SendTask, SendQuit, SendRefused, WriteLine, CloseCommandPipe, Spawn,
                SpawnFails, EchoQuit, Crash
  <2>2. CASE InitR(e) \/ ReadTask(e) \/ SkipRefused(e) \/ ReadQuit(e) \/ Reply(e)
    BY <2>2 DEF InitR, ReadTask, SkipRefused, ReadQuit, Reply
  <2>3. CASE Bind(e) \/ SourceModule(e) \/ ModuleMissing(e) \/ BuildArgs(e)
    BY <2>3 DEF Bind, SourceModule, ModuleMissing, BuildArgs, Define
  <2>4. CASE Call(e) \/ Serialize(e) \/ VerifyFile(e)
    BY <2>4 DEF Call, Serialize, VerifyFile
  <2>5. QED
    BY <2>1, <2>2, <2>3, <2>4 DEF Step
<1>3. ASSUME pc[d] \in Busy
      PROVE  files'[cur[d]] = files[cur[d]] /\ ran'[cur[d]] = ran[cur[d]]
  <2>1. cur[d] \in JobIds /\ cur[d] # cur[e]
    BY <1>3, HandApart
  <2>2. CASE Call(e)
    BY <2>1, <2>2 DEF Call, IInv, TypeOK
  <2>3. CASE Serialize(e)
    BY <2>1, <2>3 DEF Serialize, IInv, TypeOK
  <2>4. CASE Step(e) /\ ~Call(e) /\ ~Serialize(e)
    BY <2>4 DEF Step, InitR, ReadTask, SkipRefused, ReadQuit, Bind, SourceModule, ModuleMissing,
                BuildArgs, VerifyFile, Reply, taskVars
  <2>5. CASE Runtime(e) \/ Spawn(e) \/ SpawnFails(e) \/ EchoQuit(e)
    BY <2>5 DEF Runtime, SendTask, SendQuit, SendRefused, WriteLine, CloseCommandPipe, Spawn,
                SpawnFails, EchoQuit, taskVars
  <2>6. CASE Crash(e)
    BY <2>1, <2>6 DEF Crash, IInv, TypeOK
  <2>7. QED
    BY <2>2, <2>3, <2>4, <2>5, <2>6
<1>4. QED
  BY <1>1, <1>2, <1>3, ProgressFrame

\* The environment's steps leave the executor's own task alone.
LEMMA EnvironmentProgress ==
  ASSUME IInv, Disjoint, NEW e \in Executors, Progress(e),
         Crash(e) \/ Runtime(e) \/ Spawn(e) \/ SpawnFails(e) \/ EchoQuit(e)
  PROVE  Progress(e)'
<1>1. [ExecNext]_execVars
  BY DEF ExecNext
<1>2. /\ UNCHANGED <<req, cur, verdict, res, bindVars, env, ran>>
      /\ pc'[e] = pc[e] /\ pc[e] \in Live => files' = files
  BY DEF Runtime, SendTask, SendQuit, SendRefused, WriteLine, CloseCommandPipe, Spawn, SpawnFails,
         EchoQuit, Crash, Die, runtimeVars, taskVars, IInv, TypeOK, Live, Busy
<1>3. pc'[e] = pc[e] \/ pc'[e] \in {"init", "dead"}
  BY DEF Runtime, SendTask, SendQuit, SendRefused, WriteLine, CloseCommandPipe, Spawn, SpawnFails,
         EchoQuit, Crash, Die, IInv, TypeOK
<1>4. CASE pc'[e] = pc[e]
  BY <1>1, <1>2, <1>4, ProgressFrame DEF bindVars, Live
<1>5. CASE pc'[e] \in {"init", "dead"}
  <2>1. EarnedAt(e)'
    BY <1>1, <1>2, EarnedFrame DEF Progress
  <2>2. Sourced(e)' /\ Called(e)' /\ Unspoilt(e)' /\ BoundAt(e)'
    BY <1>2, <1>5 DEF Progress, Sourced, Called, Unspoilt, BoundAt, Busy, bindVars
  <2>3. QED
    BY <2>1, <2>2 DEF Progress
<1>6. QED
  BY <1>3, <1>4, <1>5

\* Each phase of executeTask establishes its part of what the later ones rely on.
LEMMA PhaseProgress ==
  ASSUME IInv, Disjoint, Fresh, NEW e \in Executors, Progress(e), Step(e), ~Reply(e)
  PROVE  Sourced(e)' /\ Called(e)' /\ Unspoilt(e)' /\ BoundAt(e)'
<1> USE DEF Progress
<1>0. /\ TypeOK
      /\ pc[e] \in Busy => cur[e] \in JobIds /\ req[cur[e]] \in Request
  BY ExecutorAssumption DEF IInv, TypeOK, HandMatchesPhase
<1>1. CASE InitR(e) \/ SkipRefused(e) \/ ReadQuit(e)
  <2>1. UNCHANGED <<req, cur, verdict, bindVars, taskVars>>
    BY <1>1 DEF InitR, SkipRefused, ReadQuit, runtimeVars
  <2>2. pc'[e] \in {"read", "dead"}
    BY <1>0, <1>1 DEF InitR, SkipRefused, ReadQuit, Goto, Die, TypeOK
  <2>3. QED
    BY <2>1, <2>2 DEF Sourced, Called, Unspoilt, BoundAt, Busy, bindVars
<1>2. CASE ReadTask(e)
  <2>1. /\ pc'[e] = "bind" /\ cur'[e] = Head(cmd[e])
        /\ UNCHANGED <<req, verdict, bindVars, taskVars>>
    BY <1>0, <1>2 DEF ReadTask, Goto, TypeOK, runtimeVars
  <2>2. Head(cmd[e]) \in Queued(e)
    <3>1. cmd[e] \in Seq(Lines) /\ cmd[e] # <<>> /\ Head(cmd[e]) \in JobIds
      BY <1>0, <1>2 DEF ReadTask, TypeOK
    <3>2. Head(cmd[e]) \in Elements(cmd[e])
      BY <3>1, TailElements
    <3>3. QED
      BY <1>0, <3>1, <3>2, QueuedJobs
  <2>3. files[cur'[e]] = "absent"
    BY <2>1, <2>2 DEF Fresh, Unread
  <2>4. QED
    BY <2>1, <2>3 DEF Sourced, Called, Unspoilt, BoundAt, Busy, bindVars, taskVars
<1>3. CASE Bind(e)
  <2>1. /\ pc[e] = "bind" /\ pc'[e] = "source"
        /\ UNCHANGED <<req, cur, verdict, taskVars>>
    BY <1>0, <1>3 DEF Bind, Goto, TypeOK, runtimeVars
  <2>2. cpuEnv'[e] = affinity'[e]
    BY <1>0, <1>3 DEF Bind, TypeOK, BoundAt
  <2>3. req[cur[e]].gpus # NoBind => gpuEnv'[e] = req[cur[e]].gpus
    BY <1>0, <1>3 DEF Bind, TypeOK
  <2>4. QED
    BY <2>1, <2>2, <2>3 DEF Sourced, Called, Unspoilt, BoundAt, Busy, taskVars
<1>4. CASE SourceModule(e) \/ ModuleMissing(e)
  <2>1. /\ pc[e] = "source" /\ UNCHANGED <<req, cur, files, ran, bindVars>>
        /\ pc'[e] = "args" \/ (pc'[e] = "reply" /\ verdict'[e] = 1)
    BY <1>0, <1>4 DEF SourceModule, ModuleMissing, Goto, Conclude, TypeOK, runtimeVars, taskVars
  <2>2. Called(e)' /\ Unspoilt(e)' /\ BoundAt(e)'
    BY <2>1 DEF Called, Unspoilt, BoundAt, Busy, bindVars
  <2>3. ASSUME pc'[e] = "args"
        PROVE  Sourced(e)'
    <3>1. SourceModule(e) /\ Define(e, req[cur[e]].module, Defs[req[cur[e]].module])
                          /\ env'[e][req[cur[e]].func] # NoModule
      <4>1. ASSUME \E s : Conclude(e, "source", s)
            PROVE  FALSE
        BY <1>0, <2>3, <4>1 DEF Conclude, Goto, TypeOK
      <4>2. QED
        BY <1>4, <4>1 DEF SourceModule, ModuleMissing
    <3>2. req[cur[e]].func \in Funcs
      BY <1>0, <2>1 DEF Request, Busy
    <3>3. req[cur[e]].func \in Defs[req[cur[e]].module] => env'[e][req[cur[e]].func] = req[cur[e]].module
      BY <1>0, <3>1, <3>2 DEF Define, TypeOK
    <3>4. QED
      BY <2>1, <3>1, <3>3 DEF Sourced
  <2>4. QED
    BY <2>1, <2>2, <2>3 DEF Sourced
<1>5. CASE BuildArgs(e)
  <2>1. /\ pc[e] = "args" /\ UNCHANGED <<req, cur, bindVars, taskVars>>
        /\ pc'[e] = "call" \/ (pc'[e] = "reply" /\ verdict'[e] = 1)
    BY <1>0, <1>5 DEF BuildArgs, Goto, Conclude, TypeOK, runtimeVars
  <2>2. QED
    BY <2>1 DEF Sourced, Called, Unspoilt, BoundAt, Busy, bindVars, taskVars
<1>6. CASE Call(e)
  <2>1. /\ pc[e] = "call" /\ UNCHANGED <<req, cur, bindVars, env, files>>
        /\ ran'[cur[e]] = env[e][req[cur[e]].func]
        /\ pc'[e] \in {"serialize", "reply"}
    BY <1>0, <1>6 DEF Call, Goto, Conclude, TypeOK, runtimeVars, Busy
  <2>2. env[e][req[cur[e]].func] # NoModule
    BY <2>1 DEF Sourced
  <2>3. QED
    BY <2>1, <2>2 DEF Sourced, Called, Unspoilt, BoundAt, Busy, bindVars
<1>7. CASE Serialize(e)
  <2>1. /\ pc[e] = "serialize" /\ UNCHANGED <<req, cur, bindVars, env, ran>>
        /\ \/ pc'[e] = "verify" /\ files'[cur[e]] # "partial"
           \/ pc'[e] = "reply" /\ verdict'[e] = 1
    BY <1>0, <1>7 DEF Serialize, Goto, Conclude, TypeOK, runtimeVars, Busy
  <2>2. QED
    BY <2>1 DEF Sourced, Called, Unspoilt, BoundAt, Busy, bindVars
<1>8. CASE VerifyFile(e)
  <2>1. pc[e] = "verify" /\ pc'[e] = "reply" /\ UNCHANGED <<req, cur, bindVars, taskVars>>
    BY <1>0, <1>8 DEF VerifyFile, Goto, Conclude, TypeOK, runtimeVars
  <2>2. QED
    BY <2>1 DEF Sourced, Called, Unspoilt, BoundAt, Busy, bindVars, taskVars
<1>9. QED
  BY <1>1, <1>2, <1>3, <1>4, <1>5, <1>6, <1>7, <1>8 DEF Step

\* The answer says what the phases have established.
LEMMA ReplyProgress ==
  ASSUME IInv, NEW e \in Executors, Progress(e), Reply(e)
  PROVE  Progress(e)'
<1> DEFINE a == [id |-> cur[e], status |-> verdict[e]]
<1>1. /\ pc[e] = "reply" /\ pc'[e] = "read" /\ UNCHANGED <<req, bindVars, taskVars>>
      /\ res[e] \in Seq(END_TASK) /\ res'[e] = Append(res[e], a)
      /\ cur[e] \in JobIds /\ verdict[e] \in {0, 1}
  BY DEF Reply, Goto, IInv, TypeOK, HandMatchesPhase, Busy, runtimeVars
<1>2. Sourced(e)' /\ Called(e)' /\ Unspoilt(e)' /\ BoundAt(e)'
  BY <1>1 DEF Progress, Sourced, Called, Unspoilt, BoundAt, Busy, bindVars
<1>3. a \in END_TASK
  BY <1>1 DEF END_TASK
<1>4. /\ DOMAIN res[e] = 1..Len(res[e]) /\ DOMAIN res'[e] = 1..(Len(res[e]) + 1)
      /\ Len(res[e]) \in Nat
      /\ \A i \in DOMAIN res[e] : res'[e][i] = res[e][i]
      /\ res'[e][Len(res[e]) + 1] = a
  BY <1>1, <1>3
<1>5. verdict[e] = 0 => ran[cur[e]] # NoModule /\ files[cur[e]] # "partial"
  BY <1>1 DEF Progress, Called, Unspoilt
<1>6. EarnedAt(e)'
  <2> SUFFICES ASSUME NEW i \in DOMAIN res'[e], res'[e][i].status = 0
               PROVE  ran[res'[e][i].id] # NoModule /\ files[res'[e][i].id] # "partial"
    BY <1>1 DEF EarnedAt, taskVars
  <2>1. CASE i \in DOMAIN res[e]
    BY <1>4, <2>1 DEF Progress, EarnedAt
  <2>2. CASE i = Len(res[e]) + 1
    BY <1>4, <1>5, <2>2
  <2>3. QED
    BY <1>4, <2>1, <2>2
<1>7. QED
  BY <1>2, <1>6 DEF Progress

\* A call runs what sourcing the task's own module has just defined.
LEMMA OwnModuleStep ==
  ASSUME IInv, \A e \in Executors : Progress(e), CallsOwnModule, [ExecNext]_execVars
  PROVE  CallsOwnModule'
<1>1. req' = req
  BY DEF ExecNext, Runtime, SendTask, SendQuit, SendRefused, WriteLine, CloseCommandPipe, Spawn,
         SpawnFails, EchoQuit, Crash, Step, InitR, ReadTask, SkipRefused, ReadQuit, Bind,
         SourceModule, ModuleMissing, BuildArgs, Call, Serialize, VerifyFile, Reply, runtimeVars, execVars
<1>2. CASE ran' = ran
  BY <1>1, <1>2 DEF CallsOwnModule
<1>3. ASSUME NEW e \in Executors, Call(e)
      PROVE  CallsOwnModule'
  <2>1. /\ pc[e] = "call" /\ cur[e] \in JobIds
        /\ ran' = [ran EXCEPT ![cur[e]] = env[e][req[cur[e]].func]]
    BY <1>3 DEF Call, IInv, HandMatchesPhase, Busy
  <2>2. req[cur[e]].func \in Defs[req[cur[e]].module] => env[e][req[cur[e]].func] = req[cur[e]].module
    BY <2>1 DEF Progress, Sourced
  <2>3. QED
    BY <1>1, <2>1, <2>2 DEF CallsOwnModule, IInv, TypeOK
<1>4. ASSUME NEW e \in Executors, Step(e), ~Call(e)
      PROVE  ran' = ran
  BY <1>4 DEF Step, InitR, ReadTask, SkipRefused, ReadQuit, Bind, SourceModule, ModuleMissing,
              BuildArgs, Serialize, VerifyFile, Reply, taskVars
<1>5. ASSUME NEW e \in Executors, Runtime(e) \/ Spawn(e) \/ SpawnFails(e) \/ EchoQuit(e) \/ Crash(e)
      PROVE  ran' = ran
  BY <1>5 DEF Runtime, SendTask, SendQuit, SendRefused, WriteLine, CloseCommandPipe, Spawn,
              SpawnFails, EchoQuit, Crash, taskVars
<1>6. CASE UNCHANGED execVars
  BY <1>2, <1>6 DEF execVars, taskVars
<1>7. QED
  BY <1>2, <1>3, <1>4, <1>5, <1>6 DEF ExecNext

\* Every step keeps what is known of every task.
LEMMA TaskInvStep == TaskInv /\ IInv' /\ [ExecNext]_execVars => TaskInv'
<1> SUFFICES ASSUME TaskInv, IInv', [ExecNext]_execVars PROVE TaskInv'
  OBVIOUS
<1> USE DEF TaskInv
<1>1. Disjoint' /\ Fresh' /\ CallsOwnModule'
  BY DisjointStep, FreshStep, OwnModuleStep
<1>2. ASSUME NEW d \in Executors
      PROVE  Progress(d)'
  <2>1. CASE UNCHANGED execVars
    BY <2>1, ProgressFrame DEF execVars, runtimeVars, bindVars, taskVars
  <2>2. ASSUME NEW e \in Executors,
               Step(e) \/ Crash(e) \/ Runtime(e) \/ Spawn(e) \/ SpawnFails(e) \/ EchoQuit(e)
        PROVE  Progress(d)'
    <3>1. CASE d # e
      BY <2>2, <3>1, OthersProgress
    <3>2. CASE d = e /\ ~Step(e)
      BY <2>2, <3>2, EnvironmentProgress
    <3>3. CASE d = e /\ Step(e) /\ ~Reply(e)
      <4>1. res' = res
        BY <3>3 DEF Step, InitR, ReadTask, SkipRefused, ReadQuit, Bind, SourceModule, ModuleMissing,
                    BuildArgs, Call, Serialize, VerifyFile
      <4>2. EarnedAt(d)'
        BY <4>1, EarnedFrame DEF Progress
      <4>3. QED
        BY <3>3, <4>2, PhaseProgress DEF Progress
    <3>4. CASE d = e /\ Reply(e)
      BY <3>4, ReplyProgress
    <3>5. QED
      BY <2>2, <3>1, <3>2, <3>3, <3>4
  <2>3. QED
    BY <2>1, <2>2 DEF ExecNext
<1>3. QED
  BY <1>1, <1>2

\* Before the first line there is nothing to know.
LEMMA TaskInvInit == ExecInit /\ IInv => TaskInv
<1> SUFFICES ASSUME ExecInit, IInv PROVE TaskInv
  OBVIOUS
<1>1. Disjoint /\ CallsOwnModule
  BY DEF ExecInit, Disjoint, CallsOwnModule
<1>2. Fresh
  <2>1. Unread \subseteq JobIds
    BY QueuedJobs DEF Unread, IInv
  <2>2. QED
    BY <2>1 DEF Fresh, ExecInit
<1>3. ASSUME NEW e \in Executors
      PROVE  Progress(e)
  <2>1. pc[e] = "none" /\ res[e] = <<>> /\ cpuEnv[e] = NoBind /\ affinity[e] = NoBind
    BY DEF ExecInit
  <2>2. DOMAIN res[e] = {}
    BY <2>1
  <2>3. QED
    BY <2>1, <2>2 DEF Progress, Sourced, Called, Unspoilt, BoundAt, EarnedAt, Busy
<1>4. QED
  BY <1>1, <1>2, <1>3 DEF TaskInv

\* What each phase of executeTask has established of the task in hand, in every
\* reachable state, for any number of executors.
THEOREM TaskInvariance == ExecSpec => []TaskInv
<1>1. QED
  BY TaskInvInit, TaskInvStep, Invariance, PTL DEF ExecSpec

\* The definition that a call runs is the one the task's own module gives.
THEOREM OwnModuleCalled == ExecSpec => []CallsOwnModule
<1>1. TaskInv => CallsOwnModule
  BY DEF TaskInv
<1>2. QED
  BY <1>1, TaskInvariance, PTL

\* END_TASK with status 0 follows a call, and a return file that was not left by a
\* serializer that threw.
THEOREM SuccessEarned == ExecSpec => []SuccessIsEarned
<1>1. TaskInv => SuccessIsEarned
  BY DEF TaskInv, Progress, EarnedAt, SuccessIsEarned
<1>2. QED
  BY <1>1, TaskInvariance, PTL

\* User code sees its own task's GPUs, and COMPSS_BINDED_CPUS agrees with the mask.
THEOREM BindingIsOwn == ExecSpec => []OwnBinding
<1>1. TaskInv => OwnBinding
  BY DEF TaskInv, Progress, BoundAt, OwnBinding
<1>2. QED
  BY <1>1, TaskInvariance, PTL

\* Once a task is answered, no step of any executor writes its file or runs its code
\* again, and the answer stays.
THEOREM AnswersFinal == ExecSpec => AnswerIsFinal
<1> DEFINE Final == \A e \in Executors : \A j \in AnsweredIds(e) :
                      files'[j] = files[j] /\ ran'[j] = ran[j] /\ j \in AnsweredIds(e)'
<1>1. TaskInv /\ IInv' /\ [ExecNext]_execVars => [Final]_execVars
  <2> SUFFICES ASSUME TaskInv, IInv', [ExecNext]_execVars,
                      NEW e \in Executors, NEW j \in AnsweredIds(e)
               PROVE  files'[j] = files[j] /\ ran'[j] = ran[j] /\ j \in AnsweredIds(e)'
    OBVIOUS
  <2>1. files'[j] = files[j] /\ ran'[j] = ran[j]
    BY AnsweredUntouched DEF TaskInv
  <2>2. res'[e] = res[e] \/ \E a \in END_TASK : res'[e] = Append(res[e], a)
    <3>1. ASSUME NEW d \in Executors, Reply(d)
          PROVE  res'[e] = res[e] \/ \E a \in END_TASK : res'[e] = Append(res[e], a)
      <4>1. [id |-> cur[d], status |-> verdict[d]] \in END_TASK
        BY <3>1 DEF Reply, Goto, TaskInv, IInv, TypeOK, HandMatchesPhase, Busy, END_TASK
      <4>2. QED
        BY <3>1, <4>1 DEF Reply, TaskInv, IInv, TypeOK
    <3>2. ASSUME NEW d \in Executors, Step(d), ~Reply(d)
          PROVE  res' = res
      BY <3>2 DEF Step, InitR, ReadTask, SkipRefused, ReadQuit, Bind, SourceModule, ModuleMissing,
                  BuildArgs, Call, Serialize, VerifyFile
    <3>3. ASSUME NEW d \in Executors, Runtime(d) \/ Spawn(d) \/ SpawnFails(d) \/ EchoQuit(d) \/ Crash(d)
          PROVE  res' = res
      BY <3>3 DEF Runtime, SendTask, SendQuit, SendRefused, WriteLine, CloseCommandPipe, Spawn,
                  SpawnFails, EchoQuit, Crash
    <3>4. CASE UNCHANGED execVars
      BY <3>4 DEF execVars
    <3>5. QED
      BY <3>1, <3>2, <3>3, <3>4 DEF ExecNext
  <2>3. j \in AnsweredIds(e)'
    <3>1. CASE res'[e] = res[e]
      BY <3>1 DEF AnsweredIds
    <3>2. ASSUME NEW a \in END_TASK, res'[e] = Append(res[e], a)
          PROVE  j \in AnsweredIds(e)'
      <4>1. res[e] \in Seq(END_TASK)
        BY DEF TaskInv, IInv, TypeOK
      <4>2. PICK i \in DOMAIN res[e] : res[e][i].id = j
        BY DEF AnsweredIds
      <4>3. i \in DOMAIN res'[e] /\ res'[e][i] = res[e][i]
        BY <3>2, <4>1, <4>2
      <4>4. QED
        BY <4>2, <4>3 DEF AnsweredIds
    <3>3. QED
      BY <2>2, <3>1, <3>2
  <2>4. QED
    BY <2>1, <2>3
<1>2. QED
  BY <1>1, TaskInvariance, Invariance, PTL DEF ExecSpec, AnswerIsFinal
=============================================================================
