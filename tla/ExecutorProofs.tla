--------------------------- MODULE ExecutorProofs ---------------------------
(***************************************************************************)
(* Proofs about module Executor, for every set of executors, every bound   *)
(* and every choice of modules, functions and requests.                    *)
(***************************************************************************)
EXTENDS Executor, TLAPS

(***************************************************************************)
(* Type correctness.                                                       *)
(***************************************************************************)

\* The initial state is well typed.
LEMMA InitTypeOK == ExecInit => TypeOK
<1> SUFFICES ASSUME ExecInit PROVE TypeOK
  OBVIOUS
<1> USE ExecutorAssumption DEF ExecInit
<1>1. nextJob \in 1..(MaxJobs + 1)
  OBVIOUS
<1>2. /\ cmd \in [Executors -> Seq(Lines)]
      /\ res \in [Executors -> Seq(END_TASK)]
  OBVIOUS
<1>3. pc \in [Executors -> Idle \union Busy]
  BY DEF Idle
<1>4. /\ affinity \in [Executors -> Processors]
      /\ cpuEnv \in [Executors -> Processors]
      /\ gpuEnv \in [Executors -> Processors]
  OBVIOUS
<1>5. QED
  BY <1>1, <1>2, <1>3, <1>4 DEF TypeOK

\* The runtime's and the node's steps keep every variable in its type.
LEMMA EnvironmentTypeOK ==
  ASSUME TypeOK, NEW e \in Executors,
         Runtime(e) \/ Spawn(e) \/ SpawnFails(e) \/ EchoQuit(e)
  PROVE  TypeOK'
<1> USE ExecutorAssumption
<1>1. CASE SendTask(e)
  BY <1>1 DEF TypeOK, SendTask, WriteLine, bindVars, taskVars, Lines, JobIds
<1>2. CASE SendQuit(e)
  BY <1>2 DEF TypeOK, SendQuit, WriteLine, bindVars, taskVars, Lines
<1>3. CASE SendRefused(e)
  BY <1>3 DEF TypeOK, SendRefused, WriteLine, bindVars, taskVars, Lines
<1>4. CASE CloseCommandPipe(e)
  BY <1>4 DEF TypeOK, CloseCommandPipe, bindVars, taskVars
<1>5. CASE Spawn(e)
  BY <1>5 DEF TypeOK, Spawn, runtimeVars, bindVars, taskVars, Idle
<1>6. CASE SpawnFails(e)
  BY <1>6 DEF TypeOK, SpawnFails, runtimeVars, bindVars, taskVars, Idle
<1>7. CASE EchoQuit(e)
  BY <1>7 DEF TypeOK, EchoQuit, runtimeVars, bindVars, taskVars
<1>8. QED
  BY <1>1, <1>2, <1>3, <1>4, <1>5, <1>6, <1>7 DEF Runtime

\* So do the executor's own steps.
LEMMA StepTypeOK ==
  ASSUME TypeOK, HandMatchesPhase, NEW e \in Executors, Step(e) \/ Crash(e)
  PROVE  TypeOK'
<1> USE ExecutorAssumption DEF runtimeVars, bindVars, taskVars, Idle, Busy
<1>0. pc[e] \in Busy => cur[e] \in JobIds /\ req[cur[e]] \in Request
  BY DEF TypeOK, HandMatchesPhase
<1>1. CASE InitR(e)
  BY <1>1 DEF TypeOK, InitR, Goto, Die
<1>2. CASE ReadTask(e)
  BY <1>2 DEF TypeOK, ReadTask, Goto
<1>3. CASE SkipRefused(e)
  BY <1>3 DEF TypeOK, SkipRefused
<1>4. CASE ReadQuit(e)
  <2>1. cmd' \in [Executors -> Seq(Lines)]
    <3>1. CASE cmd' = [cmd EXCEPT ![e] = Tail(@)] /\ cmd[e] # <<>>
      BY <3>1 DEF TypeOK
    <3>2. CASE UNCHANGED cmd
      BY <3>2 DEF TypeOK
    <3>3. QED
      BY <1>4, <3>1, <3>2 DEF ReadQuit
  <2>2. /\ pc' \in [Executors -> Idle \union Busy]
        /\ exitCode' \in [Executors -> {0, 1}]
    BY <1>4 DEF TypeOK, ReadQuit, Die
  <2>3. QED
    BY <1>4, <2>1, <2>2 DEF TypeOK, ReadQuit
<1>5. CASE Bind(e)
  <2>1. req[cur[e]].cpus \in Processors /\ req[cur[e]].gpus \in Processors
    BY <1>0, <1>5 DEF Bind, Goto, Request
  <2>2. affinity' \in [Executors -> Processors] /\ cpuEnv' \in [Executors -> Processors]
    BY <1>5, <2>1 DEF TypeOK, Bind
  <2>3. gpuEnv' \in [Executors -> Processors]
    BY <1>5, <2>1 DEF TypeOK, Bind
  <2>4. pc' \in [Executors -> Idle \union Busy]
    BY <1>5 DEF TypeOK, Bind, Goto
  <2>5. QED
    BY <1>5, <2>2, <2>3, <2>4 DEF TypeOK, Bind
<1>6. CASE SourceModule(e)
  <2>1. req[cur[e]].module \in Modules /\ req[cur[e]].func \in Funcs
    BY <1>0, <1>6 DEF SourceModule, Request
  <2>2. ASSUME NEW fs, Define(e, req[cur[e]].module, fs)
        PROVE  env' \in [Executors -> [Funcs -> Modules \union {NoModule}]]
    BY <2>1, <2>2 DEF TypeOK, Define
  <2>3. env' \in [Executors -> [Funcs -> Modules \union {NoModule}]]
    BY <1>6, <2>2 DEF SourceModule
  <2>4. /\ pc' \in [Executors -> Idle \union Busy]
        /\ verdict' \in [Executors -> {0, 1}]
    BY <1>6 DEF TypeOK, SourceModule, Goto, Conclude
  <2>5. QED
    BY <1>6, <2>3, <2>4 DEF TypeOK, SourceModule
<1>7. CASE ModuleMissing(e)
  BY <1>7 DEF TypeOK, ModuleMissing, Goto, Conclude
<1>8. CASE BuildArgs(e)
  BY <1>8 DEF TypeOK, BuildArgs, Goto, Conclude
<1>9. CASE Call(e)
  <2>1. env[e][req[cur[e]].func] \in Modules \union {NoModule}
    BY <1>0, <1>9 DEF TypeOK, Call, Request
  <2>2. ran' \in [JobIds -> Modules \union {NoModule}]
    BY <1>9, <2>1 DEF TypeOK, Call
  <2>3. /\ pc' \in [Executors -> Idle \union Busy]
        /\ verdict' \in [Executors -> {0, 1}]
    BY <1>9 DEF TypeOK, Call, Goto, Conclude
  <2>4. QED
    BY <1>9, <2>2, <2>3 DEF TypeOK, Call
<1>10. CASE Serialize(e)
  <2>1. files' \in [JobIds -> {"absent", "partial", "cut", "full"}]
    BY <1>10 DEF TypeOK, Serialize
  <2>2. /\ pc' \in [Executors -> Idle \union Busy]
        /\ verdict' \in [Executors -> {0, 1}]
    BY <1>10 DEF TypeOK, Serialize, Goto, Conclude
  <2>3. QED
    BY <1>10, <2>1, <2>2 DEF TypeOK, Serialize
<1>11. CASE VerifyFile(e)
  BY <1>11 DEF TypeOK, VerifyFile, Goto, Conclude
<1>12. CASE Reply(e)
  <2>1. [id |-> cur[e], status |-> verdict[e]] \in END_TASK
    BY <1>0, <1>12 DEF TypeOK, Reply, Goto, END_TASK
  <2>2. res' \in [Executors -> Seq(END_TASK)]
    BY <1>12, <2>1 DEF TypeOK, Reply
  <2>3. QED
    BY <1>12, <2>2 DEF TypeOK, Reply, Goto
<1>13. CASE Crash(e)
  BY <1>13 DEF TypeOK, Crash, Die
<1>14. QED
  BY <1>1, <1>2, <1>3, <1>4, <1>5, <1>6, <1>7, <1>8, <1>9, <1>10, <1>11, <1>12, <1>13 DEF Step

\* A task is taken in hand by ReadTask, dropped by Reply, and kept by all else.
LEMMA HandStep ==
  ASSUME TypeOK, HandMatchesPhase, [ExecNext]_execVars
  PROVE  HandMatchesPhase'
<1> USE DEF HandMatchesPhase, TypeOK, runtimeVars, bindVars, taskVars, Busy, NoJob, JobIds
<1>1. ASSUME NEW e \in Executors, Runtime(e) \/ Spawn(e) \/ SpawnFails(e) \/ EchoQuit(e)
      PROVE  HandMatchesPhase'
  BY <1>1 DEF Runtime, SendTask, SendQuit, SendRefused, WriteLine, CloseCommandPipe, Spawn,
              SpawnFails, EchoQuit
<1>2. ASSUME NEW e \in Executors, Step(e) \/ Crash(e)
      PROVE  HandMatchesPhase'
  <2>1. CASE InitR(e) \/ ReadTask(e) \/ SkipRefused(e) \/ ReadQuit(e) \/ Reply(e) \/ Crash(e)
    BY <2>1 DEF InitR, ReadTask, SkipRefused, ReadQuit, Reply, Crash, Goto, Die
  <2>2. CASE Bind(e) \/ SourceModule(e) \/ ModuleMissing(e) \/ BuildArgs(e)
    BY <2>2 DEF Bind, SourceModule, ModuleMissing, BuildArgs, Goto, Conclude
  <2>3. CASE Call(e) \/ Serialize(e) \/ VerifyFile(e)
    BY <2>3 DEF Call, Serialize, VerifyFile, Goto, Conclude
  <2>4. QED
    BY <1>2, <2>1, <2>2, <2>3 DEF Step
<1>3. CASE UNCHANGED execVars
  BY <1>3 DEF execVars
<1>4. QED
  BY <1>1, <1>2, <1>3 DEF ExecNext

\* Every reachable state of the executors is well typed, and a live executor holds a
\* task exactly while it is inside executeTask.
THEOREM TypeCorrect == ExecSpec => [](TypeOK /\ HandMatchesPhase)
<1>1. ExecInit => HandMatchesPhase
  BY DEF ExecInit, HandMatchesPhase, Busy
<1>2. TypeOK /\ HandMatchesPhase /\ [ExecNext]_execVars => TypeOK'
  <2>1. CASE ExecNext
    BY <2>1, EnvironmentTypeOK, StepTypeOK DEF ExecNext
  <2>2. CASE UNCHANGED execVars
    BY <2>2 DEF execVars, runtimeVars, bindVars, taskVars, TypeOK
  <2>3. QED
    BY <2>1, <2>2
<1>3. QED
  BY <1>1, <1>2, InitTypeOK, HandStep, PTL DEF ExecSpec

-----------------------------------------------------------------------------
(***************************************************************************)
(* Every task is in one place, and answers come in order.                  *)
(***************************************************************************)
Elements(s) == {s[i] : i \in DOMAIN s}

\* Appending to a pipe adds the line to its contents.
LEMMA AppendElements ==
  ASSUME NEW S, NEW s \in Seq(S), NEW x \in S
  PROVE  Elements(Append(s, x)) = Elements(s) \union {x}
<1> DEFINE t == Append(s, x)
<1>1. /\ t \in Seq(S) /\ Len(t) = Len(s) + 1 /\ DOMAIN t = 1..(Len(s) + 1)
      /\ DOMAIN s = 1..Len(s) /\ Len(s) \in Nat
      /\ t[Len(s) + 1] = x /\ \A i \in 1..Len(s) : t[i] = s[i]
  OBVIOUS
<1>2. QED
  BY <1>1 DEF Elements

\* Reading a line removes it from the front and keeps the rest in order.
LEMMA TailElements ==
  ASSUME NEW S, NEW s \in Seq(S), s # <<>>
  PROVE  /\ Elements(s) = {Head(s)} \union Elements(Tail(s))
         /\ DOMAIN Tail(s) = 1..(Len(s) - 1)
         /\ \A i \in DOMAIN Tail(s) : i + 1 \in DOMAIN s /\ Tail(s)[i] = s[i + 1]
         /\ 1 \in DOMAIN s /\ Head(s) = s[1]
<1> DEFINE t == Tail(s)
<1>1. /\ DOMAIN s = 1..Len(s) /\ Len(s) \in Nat /\ Len(s) # 0
      /\ DOMAIN t = 1..(Len(s) - 1)
      /\ \A i \in 1..(Len(s) - 1) : t[i] = s[i + 1]
      /\ Head(s) = s[1]
  OBVIOUS
<1>2. Elements(s) \subseteq {Head(s)} \union Elements(t)
  <2> SUFFICES ASSUME NEW i \in 1..Len(s) PROVE s[i] \in {Head(s)} \union Elements(t)
    BY <1>1 DEF Elements
  <2>1. CASE i = 1
    BY <2>1, <1>1
  <2>2. CASE i # 1
    <3>1. i - 1 \in 1..(Len(s) - 1) /\ t[i - 1] = s[i]
      BY <2>2, <1>1
    <3>2. QED
      BY <3>1, <1>1 DEF Elements
  <2>3. QED
    BY <2>1, <2>2
<1>3. Elements(t) \union {Head(s)} \subseteq Elements(s)
  BY <1>1 DEF Elements
<1>4. QED
  BY <1>1, <1>2, <1>3

\* Everything the invariant says of one executor.
Good(e) == AccountedAt(e) /\ Lined(e) /\ OrderedAt(e)

\* A step that leaves an executor's pipes and its task alone preserves it.
LEMMA GoodFrame ==
  ASSUME TypeOK, TypeOK', NEW e \in Executors, Good(e), nextJob <= nextJob',
         issued'[e] = issued[e], cmd'[e] = cmd[e], cur'[e] = cur[e], res'[e] = res[e]
  PROVE  Good(e)'
<1>1. Queued(e)' = Queued(e) /\ InHand(e)' = InHand(e) /\ AnsweredIds(e)' = AnsweredIds(e)
  BY DEF Queued, InHand, AnsweredIds
<1>2. AccountedAt(e)' /\ OrderedAt(e)'
  BY <1>1 DEF Good, AccountedAt, OrderedAt
<1>3. \A j \in issued[e] : j < nextJob'
  BY ExecutorAssumption DEF Good, Lined, TypeOK, JobIds
<1>4. QED
  BY <1>1, <1>2, <1>3 DEF Good, Lined

\* Job ids are not among the other lines.
LEMMA QueuedJobs ==
  ASSUME TypeOK, NEW e \in Executors
  PROVE  /\ Queued(e) = Elements(cmd[e]) \ ({QUIT} \union Refused)
         /\ Queued(e) = Elements(cmd[e]) \intersect JobIds
<1>1. cmd[e] \in Seq(Lines)
  BY DEF TypeOK
<1>2. Elements(cmd[e]) \subseteq Lines
  BY <1>1 DEF Elements
<1>3. JobIds \intersect ({QUIT} \union Refused) = {}
  BY ExecutorAssumption DEF JobIds
<1>4. QED
  BY <1>2, <1>3 DEF Queued, Elements, Lines

\* A task line written to e is newer than everything e has been given.
LEMMA SendTaskGood ==
  ASSUME TypeOK, TypeOK', NEW e \in Executors, Good(e), SendTask(e)
  PROVE  Good(e)'
<1>1. /\ cmd[e] \in Seq(Lines) /\ nextJob \in JobIds /\ nextJob \in Lines
      /\ cmd'[e] = Append(cmd[e], nextJob)
      /\ issued'[e] = issued[e] \union {nextJob}
      /\ nextJob' = nextJob + 1 /\ cur'[e] = cur[e] /\ res'[e] = res[e]
  BY DEF SendTask, WriteLine, TypeOK, Lines
<1>2. Elements(cmd'[e]) = Elements(cmd[e]) \union {nextJob}
  BY <1>1, AppendElements
<1>3. Queued(e)' = Queued(e) \union {nextJob}
  <2>1. nextJob \notin {QUIT} \union Refused
    BY <1>1, ExecutorAssumption DEF JobIds
  <2>2. QED
    BY <1>2, <2>1, QueuedJobs DEF Queued, Elements
<1>4. InHand(e)' = InHand(e) /\ AnsweredIds(e)' = AnsweredIds(e)
  BY <1>1 DEF InHand, AnsweredIds
<1>5. /\ issued[e] \subseteq JobIds /\ \A j \in issued[e] : j < nextJob
      /\ AnsweredIds(e) \union InHand(e) \union Queued(e) = issued[e]
  BY DEF Good, Lined, AccountedAt, TypeOK
<1>6. AccountedAt(e)'
  BY <1>1, <1>3, <1>4, <1>5, ExecutorAssumption DEF Good, AccountedAt, JobIds
<1>7. \A j \in issued'[e] : j < nextJob'
  BY <1>1, <1>5, ExecutorAssumption DEF JobIds
<1>8. \A i, k \in DOMAIN cmd'[e] :
        i < k /\ cmd'[e][i] \in JobIds /\ cmd'[e][k] \in JobIds => cmd'[e][i] < cmd'[e][k]
  <2> SUFFICES ASSUME NEW i \in DOMAIN cmd'[e], NEW k \in DOMAIN cmd'[e], i < k,
                      cmd'[e][i] \in JobIds, cmd'[e][k] \in JobIds
               PROVE  cmd'[e][i] < cmd'[e][k]
    OBVIOUS
  <2>1. /\ i \in DOMAIN cmd[e] /\ cmd'[e][i] = cmd[e][i]
        /\ k \in DOMAIN cmd[e] => cmd'[e][k] = cmd[e][k]
        /\ k \notin DOMAIN cmd[e] => cmd'[e][k] = nextJob
    BY <1>1
  <2>2. cmd[e][i] \in issued[e]
    BY <2>1, <1>5, QueuedJobs DEF Elements
  <2>3. QED
    BY <2>1, <2>2, <1>5 DEF Good, Lined
<1>9. \A h \in InHand(e)', q \in Queued(e)' : h < q
  BY <1>3, <1>4, <1>5 DEF Good, Lined
<1>10. \A a \in AnsweredIds(e)', q \in InHand(e)' \union Queued(e)' : a < q
  BY <1>3, <1>4, <1>5 DEF Good, Lined
<1>11. OrderedAt(e)'
  BY <1>1 DEF Good, OrderedAt
<1>12. QED
  BY <1>6, <1>7, <1>8, <1>9, <1>10, <1>11 DEF Good, Lined

\* A line that is no task changes nothing that is counted.
LEMMA WriteOtherGood ==
  ASSUME TypeOK, TypeOK', NEW e \in Executors, Good(e),
         NEW line \in {QUIT} \union Refused, WriteLine(e, line), UNCHANGED <<nextJob, issued>>
  PROVE  Good(e)'
<1>1. /\ cmd[e] \in Seq(Lines) /\ line \in Lines /\ line \notin JobIds
      /\ cmd'[e] = Append(cmd[e], line)
      /\ issued'[e] = issued[e] /\ nextJob' = nextJob /\ cur'[e] = cur[e] /\ res'[e] = res[e]
  BY ExecutorAssumption DEF WriteLine, TypeOK, Lines, JobIds
<1>2. Elements(cmd'[e]) = Elements(cmd[e]) \union {line}
  BY <1>1, AppendElements
<1>3. Queued(e)' = Queued(e)
  BY <1>2, QueuedJobs DEF Queued, Elements
<1>4. InHand(e)' = InHand(e) /\ AnsweredIds(e)' = AnsweredIds(e)
  BY <1>1 DEF InHand, AnsweredIds
<1>5. \A i, k \in DOMAIN cmd'[e] :
        i < k /\ cmd'[e][i] \in JobIds /\ cmd'[e][k] \in JobIds => cmd'[e][i] < cmd'[e][k]
  <2> SUFFICES ASSUME NEW i \in DOMAIN cmd'[e], NEW k \in DOMAIN cmd'[e], i < k,
                      cmd'[e][i] \in JobIds, cmd'[e][k] \in JobIds
               PROVE  cmd'[e][i] < cmd'[e][k]
    OBVIOUS
  <2>1. /\ i \in DOMAIN cmd[e] /\ cmd'[e][i] = cmd[e][i]
        /\ k \in DOMAIN cmd[e] /\ cmd'[e][k] = cmd[e][k]
    BY <1>1
  <2>2. QED
    BY <2>1 DEF Good, Lined
<1>6. QED
  BY <1>1, <1>3, <1>4, <1>5 DEF Good, Lined, AccountedAt, OrderedAt

\* Taking the front line off the pipe keeps the order of the rest.
LEMMA TailLined ==
  ASSUME TypeOK, TypeOK', NEW e \in Executors, Good(e), cmd[e] # <<>>,
         cmd' = [cmd EXCEPT ![e] = Tail(@)]
  PROVE  /\ Queued(e) = Queued(e)' \union ({Head(cmd[e])} \intersect JobIds)
         /\ \A i, k \in DOMAIN cmd'[e] :
              i < k /\ cmd'[e][i] \in JobIds /\ cmd'[e][k] \in JobIds => cmd'[e][i] < cmd'[e][k]
         /\ Head(cmd[e]) \in JobIds => \A q \in Queued(e)' : Head(cmd[e]) < q
<1>1. cmd[e] \in Seq(Lines) /\ cmd'[e] = Tail(cmd[e])
  BY DEF TypeOK
<1>2. /\ Elements(cmd[e]) = {Head(cmd[e])} \union Elements(cmd'[e])
      /\ \A i \in DOMAIN cmd'[e] : i + 1 \in DOMAIN cmd[e] /\ cmd'[e][i] = cmd[e][i + 1]
      /\ 1 \in DOMAIN cmd[e] /\ Head(cmd[e]) = cmd[e][1]
      /\ DOMAIN cmd'[e] = 1..(Len(cmd[e]) - 1) /\ Len(cmd[e]) \in Nat
  <2>1. Len(cmd[e]) \in Nat
    BY <1>1
  <2>2. QED
    BY <1>1, <2>1, TailElements, Zenon
<1>3. Queued(e)' = Elements(cmd'[e]) \intersect JobIds
  <2>1. cmd'[e] \in Seq(Lines)
    BY DEF TypeOK
  <2>2. Elements(cmd'[e]) \subseteq Lines
    BY <2>1 DEF Elements
  <2>3. JobIds \intersect ({QUIT} \union Refused) = {}
    BY ExecutorAssumption DEF JobIds
  <2>4. QED
    BY <2>2, <2>3 DEF Queued, Elements, Lines
<1>4. \A i, k \in DOMAIN cmd'[e] :
        i < k /\ cmd'[e][i] \in JobIds /\ cmd'[e][k] \in JobIds => cmd'[e][i] < cmd'[e][k]
  <2> SUFFICES ASSUME NEW i \in DOMAIN cmd'[e], NEW k \in DOMAIN cmd'[e], i < k,
                      cmd'[e][i] \in JobIds, cmd'[e][k] \in JobIds
               PROVE  cmd'[e][i] < cmd'[e][k]
    OBVIOUS
  <2>1. /\ i + 1 \in DOMAIN cmd[e] /\ cmd'[e][i] = cmd[e][i + 1]
        /\ k + 1 \in DOMAIN cmd[e] /\ cmd'[e][k] = cmd[e][k + 1] /\ i + 1 < k + 1
    BY <1>2
  <2>2. QED
    BY <2>1 DEF Good, Lined
<1>5. ASSUME Head(cmd[e]) \in JobIds, NEW q \in Queued(e)'
      PROVE  Head(cmd[e]) < q
  <2>1. PICK i \in DOMAIN cmd'[e] : q = cmd'[e][i] /\ q \in JobIds
    BY <1>3 DEF Elements
  <2>2. i + 1 \in DOMAIN cmd[e] /\ q = cmd[e][i + 1] /\ 1 < i + 1
    BY <1>2, <2>1
  <2>3. QED
    BY <1>2, <1>5, <2>1, <2>2 DEF Good, Lined
<1>6. Queued(e) = Queued(e)' \union ({Head(cmd[e])} \intersect JobIds)
  BY <1>2, <1>3, QueuedJobs
<1>7. QED
  BY <1>4, <1>5, <1>6

\* Reading a task moves it from the pipe into the executor's hands.
LEMMA ReadTaskGood ==
  ASSUME TypeOK, TypeOK', HandMatchesPhase, NEW e \in Executors, Good(e), ReadTask(e)
  PROVE  Good(e)'
<1>1. /\ cmd[e] # <<>> /\ Head(cmd[e]) \in JobIds /\ cur[e] = NoJob
      /\ cmd' = [cmd EXCEPT ![e] = Tail(@)] /\ cur'[e] = Head(cmd[e])
      /\ issued'[e] = issued[e] /\ nextJob' = nextJob /\ res'[e] = res[e]
  BY DEF ReadTask, Goto, HandMatchesPhase, TypeOK, runtimeVars
<1>2. /\ Queued(e) = Queued(e)' \union {Head(cmd[e])}
      /\ \A q \in Queued(e)' : Head(cmd[e]) < q
      /\ \A i, k \in DOMAIN cmd'[e] :
           i < k /\ cmd'[e][i] \in JobIds /\ cmd'[e][k] \in JobIds => cmd'[e][i] < cmd'[e][k]
  BY <1>1, TailLined
<1>3. /\ InHand(e) = {} /\ InHand(e)' = {Head(cmd[e])} /\ AnsweredIds(e)' = AnsweredIds(e)
  BY <1>1, ExecutorAssumption DEF InHand, AnsweredIds, NoJob, JobIds
<1>4. Head(cmd[e]) \notin Queued(e)'
  BY <1>1, <1>2, ExecutorAssumption DEF JobIds
<1>5. AccountedAt(e)'
  BY <1>1, <1>2, <1>3, <1>4 DEF Good, AccountedAt
<1>6. Lined(e)'
  BY <1>1, <1>2, <1>3 DEF Good, Lined
<1>7. QED
  BY <1>1, <1>5, <1>6 DEF Good, OrderedAt

\* Taking a line that is no task off the pipe changes nothing that is counted.
LEMMA DropLineGood ==
  ASSUME TypeOK, TypeOK', NEW e \in Executors, Good(e), cmd[e] # <<>>,
         Head(cmd[e]) \notin JobIds, cmd' = [cmd EXCEPT ![e] = Tail(@)],
         UNCHANGED <<issued, nextJob, cur, res>>
  PROVE  Good(e)'
<1>1. /\ Queued(e)' = Queued(e)
      /\ \A i, k \in DOMAIN cmd'[e] :
           i < k /\ cmd'[e][i] \in JobIds /\ cmd'[e][k] \in JobIds => cmd'[e][i] < cmd'[e][k]
  BY TailLined
<1>2. InHand(e)' = InHand(e) /\ AnsweredIds(e)' = AnsweredIds(e)
  BY DEF InHand, AnsweredIds
<1>3. QED
  BY <1>1, <1>2 DEF Good, Lined, AccountedAt, OrderedAt

\* The answer goes to the task in hand, which is older than every queued one and newer
\* than every answered one.
LEMMA ReplyGood ==
  ASSUME TypeOK, TypeOK', HandMatchesPhase, NEW e \in Executors, Good(e), Reply(e)
  PROVE  Good(e)'
<1> DEFINE a == [id |-> cur[e], status |-> verdict[e]]
<1>1. /\ cur[e] \in JobIds /\ cur'[e] = NoJob
      /\ res[e] \in Seq(END_TASK) /\ res'[e] = Append(res[e], a) /\ a \in END_TASK
      /\ cmd'[e] = cmd[e] /\ issued'[e] = issued[e] /\ nextJob' = nextJob
  BY DEF Reply, Goto, HandMatchesPhase, TypeOK, runtimeVars, Busy, END_TASK
<1>2. /\ DOMAIN res[e] = 1..Len(res[e]) /\ DOMAIN res'[e] = 1..(Len(res[e]) + 1)
      /\ Len(res[e]) \in Nat
      /\ \A i \in DOMAIN res[e] : res'[e][i] = res[e][i]
      /\ res'[e][Len(res[e]) + 1] = a
  BY <1>1
<1>3. AnsweredIds(e)' = AnsweredIds(e) \union {cur[e]}
  BY <1>2 DEF AnsweredIds
<1>4. InHand(e) = {cur[e]} /\ InHand(e)' = {} /\ Queued(e)' = Queued(e)
  BY <1>1, ExecutorAssumption DEF InHand, Queued, NoJob, JobIds
<1>5. AccountedAt(e)'
  BY <1>1, <1>3, <1>4 DEF Good, AccountedAt
<1>6. Lined(e)'
  BY <1>1, <1>3, <1>4 DEF Good, Lined
<1>7. OrderedAt(e)'
  <2> SUFFICES ASSUME NEW i \in DOMAIN res'[e], NEW j \in DOMAIN res'[e], i < j
               PROVE  res'[e][i].id < res'[e][j].id
    BY DEF OrderedAt
  <2>1. i \in DOMAIN res[e] /\ res'[e][i] = res[e][i]
    BY <1>2
  <2>2. CASE j \in DOMAIN res[e]
    BY <1>2, <2>1, <2>2 DEF Good, OrderedAt
  <2>3. CASE j = Len(res[e]) + 1
    <3>1. res[e][i].id \in AnsweredIds(e) /\ cur[e] \in InHand(e)
      BY <2>1, <1>4 DEF AnsweredIds
    <3>2. res[e][i].id < cur[e]
      BY <3>1 DEF Good, Lined
    <3>3. QED
      BY <3>2, <2>1, <2>3, <1>2
  <2>4. QED
    BY <2>2, <2>3, <1>2
<1>8. QED
  BY <1>5, <1>6, <1>7 DEF Good

IInv == TypeOK /\ HandMatchesPhase /\ \A e \in Executors : Good(e)

\* Every step preserves the invariant: the acting executor by the lemma of its action,
\* the others because the step leaves them alone.
LEMMA IInvStep == IInv /\ TypeOK' /\ HandMatchesPhase' /\ [ExecNext]_execVars => IInv'
<1> SUFFICES ASSUME IInv, TypeOK', HandMatchesPhase', [ExecNext]_execVars
             PROVE  \A d \in Executors : Good(d)'
  BY DEF IInv
<1> USE DEF IInv
<1>0. nextJob \in Nat
  BY DEF TypeOK
<1>1. CASE UNCHANGED execVars
  BY <1>1, <1>0, GoodFrame DEF execVars, runtimeVars
<1>2. ASSUME NEW e \in Executors, Runtime(e), NEW d \in Executors
      PROVE  Good(d)'
  <2>1. CASE d # e
    <3>1. /\ issued'[d] = issued[d] /\ cmd'[d] = cmd[d] /\ cur'[d] = cur[d] /\ res'[d] = res[d]
          /\ nextJob <= nextJob'
      BY <1>0, <1>2, <2>1 DEF Runtime, SendTask, SendQuit, SendRefused, WriteLine, CloseCommandPipe, TypeOK
    <3>2. QED
      BY <3>1, GoodFrame
  <2>2. CASE d = e /\ SendTask(e)
    BY <2>2, SendTaskGood
  <2>3. CASE d = e /\ (SendQuit(e) \/ SendRefused(e))
    BY <2>3, WriteOtherGood DEF SendQuit, SendRefused
  <2>4. CASE d = e /\ CloseCommandPipe(e)
    BY <1>0, <2>4, GoodFrame DEF CloseCommandPipe
  <2>5. QED
    BY <1>2, <2>1, <2>2, <2>3, <2>4 DEF Runtime
<1>3. ASSUME NEW e \in Executors, Spawn(e) \/ SpawnFails(e) \/ EchoQuit(e) \/ Crash(e),
             NEW d \in Executors
      PROVE  Good(d)'
  BY <1>0, <1>3, GoodFrame DEF Spawn, SpawnFails, EchoQuit, Crash, runtimeVars
<1>4. ASSUME NEW e \in Executors, Step(e), NEW d \in Executors
      PROVE  Good(d)'
  <2>0. UNCHANGED <<nextJob, issued>>
    BY <1>4 DEF Step, InitR, ReadTask, SkipRefused, ReadQuit, Bind, SourceModule, ModuleMissing,
                BuildArgs, Call, Serialize, VerifyFile, Reply, runtimeVars
  <2>1. CASE ReadTask(e) \/ SkipRefused(e) \/ ReadQuit(e) \/ Reply(e)
    <3>1. CASE d # e
      <4>1. cmd'[d] = cmd[d] /\ cur'[d] = cur[d] /\ res'[d] = res[d]
        BY <2>1, <3>1 DEF ReadTask, SkipRefused, ReadQuit, Reply, TypeOK
      <4>2. QED
        BY <1>0, <2>0, <4>1, GoodFrame
    <3>2. CASE d = e /\ ReadTask(e)
      BY <3>2, ReadTaskGood
    <3>3. CASE d = e /\ Reply(e)
      BY <3>3, ReplyGood
    <3>4. CASE d = e /\ SkipRefused(e)
      <4>1. Head(cmd[e]) \notin JobIds
        BY <3>4, ExecutorAssumption DEF SkipRefused, JobIds
      <4>2. QED
        BY <3>4, <4>1, <2>0, DropLineGood DEF SkipRefused
    <3>5. CASE d = e /\ ReadQuit(e) /\ UNCHANGED cmd
      BY <1>0, <3>5, <2>0, GoodFrame DEF ReadQuit
    <3>6. CASE d = e /\ ReadQuit(e) /\ ~UNCHANGED cmd
      <4>1. cmd[e] # <<>> /\ Head(cmd[e]) \notin JobIds /\ cmd' = [cmd EXCEPT ![e] = Tail(@)]
        BY <3>6, ExecutorAssumption DEF ReadQuit, JobIds
      <4>2. QED
        BY <3>6, <4>1, <2>0, DropLineGood DEF ReadQuit
    <3>7. QED
      BY <2>1, <3>1, <3>2, <3>3, <3>4, <3>5, <3>6
  <2>2. CASE ~(ReadTask(e) \/ SkipRefused(e) \/ ReadQuit(e) \/ Reply(e))
    <3>1. UNCHANGED <<cmd, cur, res>>
      BY <1>4, <2>2 DEF Step, InitR, Bind, SourceModule, ModuleMissing, BuildArgs, Call,
                        Serialize, VerifyFile
    <3>2. QED
      BY <1>0, <2>0, <3>1, GoodFrame
  <2>3. QED
    BY <2>1, <2>2
<1>5. QED
  BY <1>1, <1>2, <1>3, <1>4 DEF ExecNext

\* The invariant holds of an executor before its first line.
LEMMA IInvInit == ExecInit => \A e \in Executors : Good(e)
<1> SUFFICES ASSUME ExecInit, NEW e \in Executors PROVE Good(e)
  OBVIOUS
<1>1. cmd[e] = <<>> /\ res[e] = <<>> /\ cur[e] = NoJob /\ issued[e] = {}
  BY DEF ExecInit
<1>2. DOMAIN cmd[e] = {} /\ DOMAIN res[e] = {}
  BY <1>1
<1>3. Queued(e) = {} /\ InHand(e) = {} /\ AnsweredIds(e) = {}
  BY <1>1, <1>2 DEF Queued, InHand, AnsweredIds
<1>4. QED
  BY <1>1, <1>2, <1>3 DEF Good, AccountedAt, Lined, OrderedAt

\* The inductive invariant holds in every reachable state: types, phases, and for each
\* executor one increasing run of answered, held and queued tasks.
THEOREM Invariance == ExecSpec => []IInv
<1>1. ExecInit /\ TypeOK /\ HandMatchesPhase => IInv
  BY IInvInit DEF IInv
<1>2. QED
  BY <1>1, IInvStep, TypeCorrect, PTL DEF ExecSpec

\* Every task line is at every moment unread, in hand or answered, and in one of the
\* three only: no path through executeTask loses a task or answers it twice.
THEOREM TasksAccounted == ExecSpec => []Accounted
<1>1. IInv => Accounted
  BY DEF IInv, Good, Accounted
<1>2. QED
  BY <1>1, Invariance, PTL

\* Each executor answers its tasks in the order in which they were written to it.
THEOREM AnswersOrdered == ExecSpec => []AnswersInOrder
<1>1. IInv => AnswersInOrder
  BY DEF IInv, Good, AnswersInOrder
<1>2. QED
  BY <1>1, Invariance, PTL

-----------------------------------------------------------------------------
(***************************************************************************)
(* The executors implement the abstract task service.                      *)
(***************************************************************************)
Pending == [e \in Executors |-> issued[e] \ AnsweredIds(e)]
Up == {e \in Executors : pc[e] \in Live}

\* A step that writes no task and no answer maps to Start, Stop or a stutter.
LEMMA QuietStep ==
  ASSUME TypeOK, TypeOK', NEW e \in Executors, UNCHANGED <<nextJob, issued, res>>,
         pc' = pc \/ \E s : pc' = [pc EXCEPT ![e] = s]
  PROVE  [Service!Next]_(Service!vars)
<1>1. Pending' = Pending
  BY DEF Pending, AnsweredIds
<1>2. CASE Up' = Up
  BY <1>1, <1>2 DEF Service!vars, Pending, Up
<1>3. CASE Up' # Up
  <2>1. \A d \in Executors : d # e => pc'[d] = pc[d]
    BY DEF TypeOK
  <2>2. CASE e \notin Up
    <3>1. Up' = Up \union {e}
      BY <1>3, <2>1, <2>2 DEF Up
    <3>2. Service!Start(e)
      BY <1>1, <2>2, <3>1 DEF Service!Start, Pending, Up
    <3>3. QED
      BY <3>2 DEF Service!Next
  <2>3. CASE e \in Up
    <3>1. Up' = Up \ {e}
      BY <1>3, <2>1, <2>3 DEF Up
    <3>2. Service!Stop(e)
      BY <1>1, <2>3, <3>1 DEF Service!Stop, Pending, Up
    <3>3. QED
      BY <3>2 DEF Service!Next
  <2>4. QED
    BY <2>2, <2>3
<1>4. QED
  BY <1>2, <1>3

\* Writing a task line is Submit.
LEMMA SubmitStep ==
  ASSUME IInv, TypeOK', NEW e \in Executors, SendTask(e)
  PROVE  Service!Submit(e)
<1>1. /\ nextJob \in JobIds /\ nextJob' = nextJob + 1
      /\ issued' = [issued EXCEPT ![e] = @ \union {nextJob}]
      /\ res' = res /\ pc' = pc
  BY DEF SendTask, WriteLine
<1>2. nextJob \notin AnsweredIds(e)
  <2>1. \A j \in AnsweredIds(e) : j \in issued[e] /\ j < nextJob
    BY DEF IInv, Good, Lined, AccountedAt
  <2>2. nextJob \in Int
    BY <1>1 DEF JobIds
  <2>3. QED
    BY <2>1, <2>2
<1>3. Pending' = [Pending EXCEPT ![e] = @ \union {nextJob}]
  <2>1. \A d \in Executors : AnsweredIds(d)' = AnsweredIds(d)
    BY <1>1 DEF AnsweredIds
  <2>2. /\ issued'[e] = issued[e] \union {nextJob}
        /\ \A d \in Executors : d # e => issued'[d] = issued[d]
    BY <1>1 DEF IInv, TypeOK
  <2>3. QED
    BY <1>2, <2>1, <2>2 DEF Pending
<1>4. Up' = Up
  BY <1>1 DEF Up
<1>5. nextJob <= MaxJobs
  BY <1>1, ExecutorAssumption DEF JobIds
<1>6. QED
  BY <1>1, <1>3, <1>4, <1>5 DEF Service!Submit, Pending, Up

\* END_TASK is Answer for the oldest pending task.
LEMMA AnswerStep ==
  ASSUME IInv, TypeOK', NEW e \in Executors, Reply(e),
         NEW j, NEW s, j = cur[e], s = verdict[e]
  PROVE  Service!Answer(e, j, s)
<1>1. /\ cur[e] \in JobIds /\ pc[e] = "reply" /\ pc' = [pc EXCEPT ![e] = "read"]
      /\ res' = [res EXCEPT ![e] = Append(@, [id |-> cur[e], status |-> verdict[e]])]
      /\ issued' = issued /\ nextJob' = nextJob
  BY DEF Reply, Goto, IInv, HandMatchesPhase, Busy, runtimeVars
<1>2. InHand(e) = {cur[e]}
  BY <1>1, ExecutorAssumption DEF InHand, NoJob, JobIds
<1>3. /\ cur[e] \in issued[e] \ AnsweredIds(e)
      /\ \A k \in issued[e] \ AnsweredIds(e) : cur[e] <= k
  <2>1. /\ issued[e] = AnsweredIds(e) \union InHand(e) \union Queued(e)
        /\ AnsweredIds(e) \intersect InHand(e) = {}
        /\ \A h \in InHand(e), q \in Queued(e) : h < q
    BY DEF IInv, Good, AccountedAt, Lined
  <2>2. \A k \in issued[e] : k \in Int
    BY DEF IInv, TypeOK, JobIds
  <2>3. QED
    BY <1>1, <1>2, <2>1, <2>2 DEF JobIds
<1>4. AnsweredIds(e)' = AnsweredIds(e) \union {cur[e]}
  <2>1. res[e] \in Seq(END_TASK) /\ res'[e] = Append(res[e], [id |-> cur[e], status |-> verdict[e]])
    BY <1>1 DEF IInv, TypeOK
  <2>2. /\ DOMAIN res[e] = 1..Len(res[e]) /\ DOMAIN res'[e] = 1..(Len(res[e]) + 1)
        /\ Len(res[e]) \in Nat
        /\ \A i \in DOMAIN res[e] : res'[e][i] = res[e][i]
        /\ res'[e][Len(res[e]) + 1] = [id |-> cur[e], status |-> verdict[e]]
    BY <2>1
  <2>3. QED
    BY <2>2 DEF AnsweredIds
<1>5. \A d \in Executors : d # e => AnsweredIds(d)' = AnsweredIds(d)
  BY <1>1 DEF AnsweredIds, IInv, TypeOK
<1>6. Pending' = [Pending EXCEPT ![e] = @ \ {cur[e]}]
  BY <1>1, <1>4, <1>5 DEF Pending
<1>7. Up' = Up /\ e \in Up
  BY <1>1 DEF Up, Live, Busy, IInv, TypeOK
<1>8. QED
  BY <1>1, <1>3, <1>6, <1>7 DEF Service!Answer, Pending, Up

\* Every step of the executors is a step of the service, or leaves it unchanged.
LEMMA ServiceStep == IInv /\ IInv' /\ [ExecNext]_execVars => [Service!Next]_(Service!vars)
<1> SUFFICES ASSUME IInv, IInv', [ExecNext]_execVars
             PROVE  [Service!Next]_(Service!vars)
  OBVIOUS
<1>0. TypeOK /\ TypeOK'
  BY DEF IInv
<1>1. CASE UNCHANGED execVars
  BY <1>1 DEF execVars, runtimeVars, Service!vars, AnsweredIds
<1>2. ASSUME NEW e \in Executors, SendTask(e)
      PROVE  [Service!Next]_(Service!vars)
  BY <1>0, <1>2, SubmitStep DEF Service!Next
<1>3. ASSUME NEW e \in Executors, Reply(e)
      PROVE  [Service!Next]_(Service!vars)
  <2>1. cur[e] \in 1..MaxJobs /\ verdict[e] \in {0, 1}
    BY <1>0, <1>3 DEF Reply, Goto, IInv, HandMatchesPhase, Busy, TypeOK, JobIds
  <2>2. PICK j \in 1..MaxJobs, s \in {0, 1} : j = cur[e] /\ s = verdict[e]
    BY <2>1
  <2>3. Service!Answer(e, j, s)
    BY <1>0, <1>3, <2>2, AnswerStep
  <2>4. QED
    BY <2>3 DEF Service!Next
<1>4. ASSUME NEW e \in Executors,
             \/ SendQuit(e) \/ SendRefused(e) \/ CloseCommandPipe(e)
             \/ Spawn(e) \/ SpawnFails(e) \/ EchoQuit(e) \/ Crash(e)
      PROVE  [Service!Next]_(Service!vars)
  <2>1. UNCHANGED <<nextJob, issued, res>>
    BY <1>4 DEF SendQuit, SendRefused, WriteLine, CloseCommandPipe, Spawn, SpawnFails, EchoQuit,
                Crash, runtimeVars
  <2>2. pc' = pc \/ \E s : pc' = [pc EXCEPT ![e] = s]
    BY <1>4 DEF SendQuit, SendRefused, WriteLine, CloseCommandPipe, Spawn, SpawnFails, EchoQuit,
                Crash, Die
  <2>3. QED
    BY <1>0, <2>1, <2>2, QuietStep
<1>5. ASSUME NEW e \in Executors, Step(e), ~Reply(e)
      PROVE  [Service!Next]_(Service!vars)
  <2>1. UNCHANGED <<nextJob, issued, res>>
    BY <1>5 DEF Step, InitR, ReadTask, SkipRefused, ReadQuit, Bind, SourceModule, ModuleMissing,
                BuildArgs, Call, Serialize, VerifyFile, runtimeVars
  <2>2. pc' = pc \/ \E s : pc' = [pc EXCEPT ![e] = s]
    BY <1>5 DEF Step, InitR, ReadTask, SkipRefused, ReadQuit, Bind, SourceModule, ModuleMissing,
                BuildArgs, Call, Serialize, VerifyFile, Goto, Conclude, Die
  <2>3. QED
    BY <1>0, <2>1, <2>2, QuietStep
<1>6. QED
  BY <1>1, <1>2, <1>3, <1>4, <1>5 DEF ExecNext, Runtime

\* Whatever the pipes, the phases of executeTask and the failures do, the runtime sees
\* executors that answer their oldest pending task, once, while they are up.
THEOREM ExecutorImplementsService == ExecSpec => ImplementsTaskService
<1>1. ExecInit => Service!Init
  <2> SUFFICES ASSUME ExecInit PROVE Service!Init
    OBVIOUS
  <2>1. Pending = [e \in Executors |-> {}]
    BY DEF ExecInit, Pending
  <2>2. Up = {}
    BY DEF ExecInit, Up, Live, Busy
  <2>3. QED
    BY <2>1, <2>2 DEF ExecInit, Service!Init, Pending, Up
<1>2. QED
  BY <1>1, ServiceStep, Invariance, PTL DEF ExecSpec, ImplementsTaskService, Service!Spec
=============================================================================
