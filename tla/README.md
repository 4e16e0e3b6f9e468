# RCOMPSs in TLA+

RCOMPSs is the R binding of COMPSs: an R program decorates functions as tasks, the
COMPSs runtime schedules them by the files they read and write, and worker nodes
run them in embedded R sessions. This directory models the binding, checks the
models with TLC on small instances, and proves the central results with TLAPS for
all values of the constants. `PROJECT.json` lists every run, the source lines of
every definition, the mutants that show that the properties can fail, the findings
and the hazards.

## The system

| Component | Source | State | Operations | What is hard |
|---|---|---|---|---|
| Executor | `src/src/executor/` | the line in hand, R's global environment, CPU mask and environment variables, the return file | `initR`, the loop of `run`, `executeTask` | many exception paths, each of which must report once; state that outlives a task; crashes |
| Worker and piper | `src/src/worker/`, `src/aux/r_piper.sh` | child pids, failure count, subshell, exit statuses | fork, wait, QUIT to the result pipes, control commands, SIGTERM trap | five kinds of process that end in any order; failed forks; kills |
| Task submission | `src/R/RCOMPSs-package.R`, `src/src/core/`, `src/src/compssmodule.cpp` | registration markers, argument files, futures | a call of a decorated function, `compss_wait_on`, `compss_barrier`, `compss_start`, `compss_stop` | argument matching, parallel parameter vectors, dependencies only through paths, retries |
| Object files | `src/src/core/Serialization.cpp`, `rcompss_serialize`, `rcompss_unserialize` | one file | write, read | truncation, retries, three format versions, spelling of the method |
| GPU contexts | `src/src/kernels/`, `src/src/adapters/`, `src/R/gpu_context.R` | named contexts, current context, streams, buffers | the `RCOMPSs.*` functions of `gpu_context.R` | object lifetime, asynchronous copies on several streams |
| GPU linear algebra | `src/src/RcppGpuLinalg.cpp`, `src/src/kernels/cuda/CudaLibraryWrappers.cpp`, `src/src/kernels/MemoryHandler.cpp` | the device arrays of the call, the stream, the info cell of the context | thirteen cuBLAS and cuSOLVER routines | sizes and leading dimensions, lengths beyond an int, errors and destructors with work in flight |
| COMPSs runtime | external | tasks, pipes | `GS_*` | modelled only as far as the binding uses it |

The master writes arguments to files and hands paths to the runtime. The runtime
writes one `EXECUTE_TASK` line for each task to the command pipe of an executor.
The executor unserializes the arguments, calls the function, serializes the value
and writes `END_TASK <id> <status>` to its result pipe. `r_piper.sh` runs
`rcompss_worker` in a subshell; the worker forks one executor per pipe pair and
waits for them; the subshell then writes `QUIT` to every result pipe. GPU contexts
live inside an executor (or the master) and are destroyed when its loop ends.

Correctness, component by component: no task is lost, answered twice or out of
order (executor); shutdown is ordered and ends, and statuses are reported (node);
every task computes what the sequential program computes, and `wait_on` hands out those
values (submission); a reader gets
a whole object or an error (files); no dangling context, no stale read in a
synchronized program (GPU contexts); arguments are refused exactly when there is no
result, no access leaves its array, a value is that of the call's own arguments (GPU
linear algebra).

## Modules

| Module | Models | Notes |
|---|---|---|
| `TaskService` | what a node promises the runtime | abstract specification |
| `Executor` | executors, their pipes, the runtime's end of the pipes | refines `TaskService` |
| `ExecutorProofs` | accounting, order and refinement of `Executor` | TLAPS |
| `ExecutorTaskProofs` | what one task of `Executor` does and reports | TLAPS |
| `WorkerNode` | `r_piper.sh`, its subshell, `rcompss_worker`, composed with `Executor` | refines `Executor` |
| `WorkerNodeProofs` | theorems about `WorkerNode` | TLAPS |
| `TaskSubmission` | the master and the external runtime | a worker's run of a task is one step |
| `TaskSubmissionProofs` | theorems about `TaskSubmission` | TLAPS |
| `ObjectUnits` | objects, units and versions of the "cpp" format | |
| `ObjectCodec` | the recursive writer and reader of one object | TLC only |
| `ObjectFile` | one object file | the codec is a parameter |
| `ObjectFileProofs` | theorems about `ObjectFile`, for any codec that fits | TLAPS |
| `GpuContext` | contexts, streams, buffers | |
| `GpuLinalg` | the linear algebra routines on one context | stands on its own: placement, mode and info cell are what `GpuContext`'s operations leave behind |
| `GpuContextProofs` | lifetime, containment and buffers of `GpuContext` | TLAPS |
| `GpuLinalgProofs` | the checks and plans of the routines of `GpuLinalg` | TLAPS |
| `GpuDeviceProofs` | memory, stream and results of `GpuLinalg` | TLAPS |
| `MC*` | constants for TLC | |

Each module contains the mutants of its definitions next to them (`\* Mutant:`).
They are not used by any specification.

### Executor

`pc[e]` is the phase of `executeTask`: `bind`, `source`, `args`, `call`,
`serialize`, `verify`, `reply`. Each action is one phase with all of its exits, and
an exit that reports a failure goes to `reply` with `verdict = 1`. `Bind` keeps the
difference between `bindCpus`, which changes mask and variables together or not at
all, and `bindGpus`, which cannot fail. `env[e][f]` is the module whose definition
of `f` is in R's global environment; `source` adds to it, also when it stops half
way. `files[j]` is the return file: `absent`, `partial` (the serializer threw, or the
executor died while it wrote), `cut` (it returned, but the last flush was lost) or
`full`. `Crash` may happen anywhere, and in `serialize` it may leave a part of the
file; R's `quit()` ends the process with status 0 inside `source` and `call`.
`issued`, `ran` and `res` are histories.

### WorkerNode

Extends `Executor` and adds the piper (`loop`, `wait`, `exited`), the subshell
(`start`, `worker`, `echo`, `done`, `killed`) and the worker (`check`, `spawn`,
`wait`, `done`). The runtime's control commands are a script chosen in `NodeInit`.
`REMOVE_EXECUTOR` is `kill -9` of the subshell only. `SigTerm` is the trap: the
handler finds no pids, and a running `wait` fails. The branch of `waitExecutors` for a
`waitpid` that returns -1 is never taken: the worker waits once for each child it has
forked itself, and installs no signal handler that could interrupt it.

### TaskSubmission

A call is one action: matching (`MatchArguments`, or `VariableArguments` for a
function whose only formal is `...`, which renames its arguments), classification (`Classify`),
serialization (`Processed`), the parallel vectors (`ParameterVectors`), the removal
of symbols from the values (`WithoutSymbols`, `Parameters`), the marker (`Marker`: one
string of the function's name and the signature, letter by letter), registration and
the conversions of `process_task`, which may throw (`rejected`); a call with
`info_only` ends before the registration. `CallStops` is a call that stops because an
argument cannot be serialized: it leaves argument files behind and no task. A value is a
term: data, a path, or a function applied to terms; so "the same value" means the same
computation. `Sequential` computes the terms of the undecorated program and is the
reference.

What `wait_on` returns depends on what it is given, and `got` keeps its shape:

| Given | Returned | When a result is lost |
|---|---|---|
| a future (`return_type = "list"`) | its value | error |
| one or several element futures | a list with the value of each, also for a single one | a list with its path in that place, and a warning |
| a list of futures | a list with the value of each; an element future in it stays as it is (`Skipped`) | error, and the values fetched before are dropped |

So a function with `return_type = "element"` differs from the undecorated one by the
list: `compss_wait_on(f(x))` is `list(v)` where the function gives `v`.
`WaitOnIsSequential` says exactly this: `v` is the sequential value in every place where
the table has a value, and errors and paths stand only for lost results (`Lost`). The runtime (`Producers`, `Execute`, `Fail`, `Cancel`) is external:
a task depends on the tasks that write the files it reads, is tried `MaxAttempts`
times, and takes its dependants with it when it fails.

### ObjectFile

A unit is what one `writeBytes` or `readBytes` moves (`ObjectUnits`). `writeSEXP` and
`readSEXP` translate the format, including version 1 and 2 and the protection stack
(`ObjectCodec`). They are recursive, and the file does not depend on how they work: in
`ObjectFile` they are the constants `Write` and `Read`, with `Kept` (what a version
stores of an object) and `VectorsOf` (how many vectors the reader protects). The runs
give them their values from `ObjectCodec`, and `CodecFitsFile` checks that the two fit:
for every object and version of the run the reader undoes the writer, and refuses every
proper prefix of what was written. The writer is an `ofstream`: `Flush` passes units on at any time, `Close` may lose the
last buffer unnoticed, `WriteThrows` and `Crash` leave a prefix. `Unserialize` is the
set of outcomes a reader can have: RMVL files grow by one object with each attempt
(also with the second attempt inside `rcompss_serialize`), and which whole copy the
library gives back, or whether it refuses a file with a broken one, is left open.
`WrittenIsReadable` therefore asks of RMVL only what the binding can promise: a file
all of whose copies are the same whole object gives back that object.

### GpuContext

`contexts` is `mContexts`; `created` and `alive` follow the objects, also those that
no name refers to any more. `queue[o]` holds the copies of a stream that are not
finished, and `StreamStep` (external) finishes them. A call that synchronizes is
guarded by `Idle`. `SyncAllThrows` is a `SyncAll` that meets a context without a valid
stream: the map is unordered, so any of the others may have been synchronized before it.
`want`, `unsynced`, `raced` and `stale` are histories: what the
program is entitled to read, given which writes have been synchronized.

### GpuLinalg

`call` holds the routine and the dimensions of its arguments. What a routine does is
its plan, one operator per routine (`dgemm`, ..., `dpotrs`): when it accepts, the
arrays and uploads in their order, whether it refuses after the uploads (`beta`, `y0`,
`C0`), the views with which the library walks through the arrays, what it reads and
writes. The phases are common to all: `alloc`, `fill`, `launch`, `solve` (work space
held), `info`, `download`, `unwind`, `ended`. `dev[x]` is the content of an array as a
term: uninitialised, zero, an argument of a particular call, or computed by a routine
from such terms. `queue` is the stream; `StreamStep` (external) works it off and
`DeviceFault` loses it, after which every CUDA call fails. `Throw` is an error of any
CUDA, cuBLAS or cuSOLVER call. `Unwind` is the destructors; `leaked` is a history of
one call. An `int` has `IntWidth` bits.

External facts used, all from the CUDA documentation: a stream of `cudaStreamCreate`
and the default stream wait for each other; copies from pageable memory have read it
when they return, and copies to it are complete; `cudaFree` waits for the device.

## Runs

Passing runs:

| Run | Bounds | States | Shows |
|---|---|---|---|
| `executor` | 1 executor, 2 tasks of 3 kinds, 2 modules, 2 functions, pipe of 2 lines | 68 922 | accounting, order, own module, own binding, finality, liveness, refinement of `TaskService` |
| `worker_node` | 2 executors, 1 task, 2 control commands, pipe of 1 line | 435 936 | ordered shutdown, verdict, clean exit, refinement of `Executor`, termination |
| `task_submission` | 2 calls, 5 decorations, 3 argument lists, 2 attempts | 213 637 | sequential values (in a list for element futures), dependencies, final files, the master always resumes |
| `object_file` | 12 objects, 4 spellings, 2 attempts, buffer of 4 units, stack of 5 | 19 678 | whole object or error, readability, old versions, reader and writer fit |
| `gpu_context` | 2 names, 3 objects, 2 buffers (symmetric), values modulo 2, 1 pending copy | 1 004 376 | lifetime, containment of work, fresh reads |
| `gpu_linalg` | 13 routines, 5 shapes from 0x1 to 2x2, vectors of 0, 1, 2, 5, 9, an int of 3 bits, 3 lists of options | 69 051 | exact checks, access within arrays, own results, leaks, every call ends |

Why the bounds are enough for the interesting cases. Executor: with two tasks the
second meets everything the first left behind (functions, mask, variables, lines
behind it in the pipe), and executors share no state, so one of them is
representative; two run in `worker_node`. WorkerNode: two executors can end in
either order around the index-order wait, and two control commands contain
`REMOVE_EXECUTOR` followed by `QUIT`. TaskSubmission: two calls make every kind of
dependency edge, two attempts make a retry. ObjectFile: the objects are one for each
way in which two encodings could run into each other, and the stack of 5 is reached.
GpuContext: three objects allow a name to be taken over while its old object is
current and a third is in use. GpuLinalg: the shapes contain every relation between
two dimensions (equal, smaller, larger, zero, transposed); with 3 bits the length 5
turns negative and 9 is taken for 1; calls follow each other without bound, so that a
call meets the status, the mode and the work in flight that earlier ones left.

Symmetry is used for the buffers only, with no liveness property in that run.
Deadlock checking is off everywhere: executors end, programs end, and bounds run out.

Runs that TLC must refute, each stating what a comment or message of the code says
(details and quotations under `findings`):

| Run | The code says | What happens |
|---|---|---|
| `executor_return_file` | "Verify file was created" | a missing file is logged and the task reported as successful |
| `worker_node_status` | "Sub proccess failed" | the worker's status is lost in the subshell |
| `submission_missing_argument` | the symbol "will be handled when the function is actually called with values" | `f(y = v)` runs as `f(x = v)` |
| `submission_marker` | "the same function [can] be registered with different constraints" | markers are cut and collide |
| `object_file_spelling` | "the filename matches the actual serialization format" | written by one serializer, read by another |
| `gpu_sync_all` | "Synchronizes all streams." | not those whose name was taken over |

`submission_marker` uses a cut at 2 characters of a signature of 3 in place of 32
characters of a real one: `processors:processorType=CPU,computingUnits=1` and
`...=4` first differ at the 45th character.

## Fairness

`Executor`: weak fairness of each executor's own steps: the operating system
schedules it and user code terminates. None for the runtime, for crashes or for the
node. `WorkerNode`: the same for the worker, the subshell and the piper; the
runtime's QUITs are in the antecedent of `ShutdownCompletes`, not assumed.
`TaskSubmission`: weak fairness of the blocked master's wake-up and of each task's
runtime steps: the runtime keeps scheduling and gives up after `MaxAttempts`.
`GpuLinalg`: weak fairness of the calling R thread and of the stream, which works
off its queue; `DeviceFault` and new calls have none. `GpuContext` and `ObjectFile`
have safety properties only.

## Proofs

Every theorem holds for every value of the constants that satisfies the named
assumptions of the module that declares them; TLC evaluates those assumptions in every
run. Each inductive invariant was checked with TLC on the instance of the component's
run before it was proved.

### Executor

`ExecutorProofs`, from `ExecutorAssumption`:

* `TypeCorrect`: `TypeOK`, together with `HandMatchesPhase` (a live executor holds a
  task exactly while it is inside `executeTask`), without which the fields of the
  task in hand have no type.
* `TasksAccounted` and `AnswersOrdered`: `Accounted` and `AnswersInOrder`. Neither is
  inductive: that an answer is new and larger than all earlier ones depends on the
  order of what is still queued. `Lined` says that answered tasks, the task in hand,
  the queued tasks in pipe order and the next id form one increasing run; `IInv` is
  the conjunction of all of these (`Invariance`).
* `ExecutorImplementsService`: `ExecSpec` implements `TaskService`. `SendTask` maps to
  `Submit`, `Reply` to `Answer` (the oldest pending task, by `Lined`), `Spawn` to
  `Start`, and the steps that end an executor to `Stop`; all others stutter.

`ExecutorTaskProofs` adds to `IInv` that no task is written to two executors
(`Disjoint`), that nothing has been written for a task nobody has read (`Fresh`), and
what each phase of `executeTask` has established (`Progress`). From the conjunction
`TaskInv` follow `OwnModuleCalled`, `SuccessEarned`, `BindingIsOwn` and, as a property
of steps, `AnswersFinal`. `Disjoint` is what makes the last one true of several
executors: otherwise one of them could still be writing the file of a task that another
has answered.

### WorkerNode

`WorkerNodeProofs`, from `NodeAssumption`. `NodeInv` relates the three programs: a pid
is set exactly for a forked child, the spawning loop has not reached the executors from
`wi` on, the waiting loop has seen and counted those below `wi`, and the phases of the
subshell and the piper tell which of them have ended. It gives `NodeTypeCorrect`,
`WorkerIsLast`, `WorkerVerdictRight`, `PiperExitsClean` and `NothingAfterQuit`.
`NodeImplementsExecutor` shows that every step of the node is a step of `Executor` or
leaves the executors alone; `NodeServesTasks` combines it with the theorems about
`Executor`, which therefore hold on a node.

### TaskSubmission

`TaskSubmissionProofs`, from `SubmissionAssumption` and `FormalsAssumption`. The
invariant `SubmissionInv` says of every call what its parameters are (`ParamInv`), of
every argument file that it holds the argument (`ArgInv`), of every return file that it
holds nothing, a part of a value or the result of its own task (`FileInv`), of every
value handed out where it comes from (`GotInv`), of every marker that it stands for a
registration (`MarkerInv`), and of every task that has run what it ran with (`RunInv`)
and after whom (`ProducersFirst`). Two lemmas carry it. `LastParameter`: whatever
symbols are removed, the return value stays the last parameter, so a task, also when it
is retried, writes to the path of its own future. `ReadsOwnArguments`: where no symbol
is removed, value, name and type of a parameter stay side by side from the call to
`buildFunctionArgs`.

* `SubmissionTypeCorrect` and `FilesStayFinal` (an action property).
* `RunsWithOwnArguments`: a call that leaves no formal unbound runs with its own matched
  arguments, and its futures stand for results of tasks that are done. The condition is
  needed: `submission_missing_argument` shows what happens to the others.
* `ReadersAfterWriters`: a task runs after every task that writes a file it reads.
* `WaitOnDelivers`: `wait_on` returns the result of the task of that very future, alone
  or in its place in the list of the table above; an error, or a path in such a place,
  only where that result is lost. `WaitOnFollowsBinding`: `BindingPreserved` implies `WaitOnIsSequential` in every
  reachable state. `FuturesAreEarlier`: a future that is passed on belongs to an earlier
  call, so the sequential program is defined call by call.
* `TasksRunAsWritten`, `WaitOnAsWritten` and `TasksWaitForFutures`: in every program of
  well-written calls the tasks run with the arguments of the sequential program, `wait_on`
  returns its values in the shapes of the table, and a task runs after the tasks of its futures and waits for no
  other.
* `BindingIsPreserved`, `WaitOnReturnsSequential` and `DependenciesAreRespected`: the same
  as invariants of `Spec`, where all argument lists in use are well written
  (`ShapesComplete`, `ShapesDistinct`). The instance of `task_submission` satisfies both.
* `OwnConstraintsRegistered`: `RegisteredWithConstraints`, where markers tell decorators
  apart (`MarkersTellApart`). The instance of `task_submission` satisfies the hypothesis;
  that of `submission_marker` does not, and there the property fails.

A call is well written (`WellWritten`, for all calls `CompleteProgram`) when every formal
without default gets an argument, no argument is `NULL` (a function of `...` only takes
it), and no element future is passed as a value. Each clause is needed: an unbound formal
shifts the others (`submission_missing_argument`), `NULL` deletes a formal, and an element
future reaches the callee as a path. `DependenciesAreRespected` also needs that no formal
is named twice, which R refuses in the undecorated function; here the second value
overwrites the first, whose future is then no dependency.

The argument runs as follows. `MatchLoop` is a function on the natural numbers, and what
it has done after `i` formals is proved by `SetInduction`: a set of numbers that contains
0 and the successor of each member contains all, which follows from the least-element
theorem `WFMin` of the library (the induction theorem of the library has an operator
parameter and is out of reach). `RankStep` and `SublistElements` describe the unnamed
values by their rank, `FreeOfRank` the formals they go to, and `BoundAsWritten` is the
induction over the calls: where all earlier tasks ran as written, the futures of this call
stand for the sequential results. For the dependencies `EnoughFormals` counts: if no name
occurs twice, there is a free formal for every unnamed value, so no value is lost.

### ObjectFile

`ObjectFileProofs`, from `ObjectAssumption` and the hypothesis `CodecIsSound` that the
codec fits every object and version. The invariant `FileInv` says of a "cpp" file that it
is the first `k` units of what one attempt writes, the last attempt's while it is being
written, with the remaining units in `rest` (`CppInv`, `IsPart`); of a qs or RMVL file
that it lists whole and broken objects that attempts were given (`ForeignInv`); and of a
file of an earlier version that it is as it was (`LegacyInv`). `Resumed` is the step of
the writer (what is flushed and what was on disk is a longer part, what is left is the
rest), `Leading` shows that nothing is flushed from the unsupported object on, and
`DecodedPiece` lifts the codec's property to the file with its header.

* `FileInvariance` and `FileTypeCorrect`.
* `ReadersFindWholeObjects`: `WholeOrNothing`.
* `WrittenFilesAreReadable`: `WrittenIsReadable`, where the reader knows the spellings by
  which the writer chooses qs and RMVL (`SpellingsKnown`). The instance of `object_file`
  satisfies this; that of `object_file_spelling` does not, and there the property fails.
* `LegacyFilesAreReadable`: `LegacyIsReadable`.

`CodecIsSound` is what an induction over the structure of R objects would give. TLC
checks it for the objects of the run (`CodecFitsFile`).

### GpuContext

`GpuContextProofs`, from `GpuAssumption`: `ManagerInvariant` shows that `TypeOK`,
`CurrentIsAlive`, `MapIsSound` and `WorkIsContained` are inductive together (the new
object of `CreateRunContext` is not in the map because the map names live objects,
and those are at most `created`); `CurrentNeverDangles`, `MapStaysSound` and
`WorkStaysContained` follow.

`BufferInvariance` adds the buffers. `ReadsAreFresh` needs `BufferInv`: a context with an
unfinished copy to a buffer is recorded as unsynchronized (`Tracked`), the last unfinished
copy of a buffer that has not been raced for writes what the program wants to read
(`LastCopyRight`), and where none is left the memory holds it (`Settled`). `ReadsStayFresh`
and `ContextTypeCorrect` follow.

### GpuLinalg

`GpuLinalgProofs`, from `LinalgAssumption` and `PowerAssumption` (two facts about powers
of two that the provers do not have). One lemma for each routine shows that its plan is
sound: its arrays are distinct, it uploads into and reads and writes only those, and every
view fits into its array, with dimensions that an `int` may have cut. `CallsInv` follows a
call through its phases. `PlansAreExact` compares the checks and the shapes with
`Reference` for all dimensions an `int` holds, and `RefusalsExact` is the same of the
reachable states.

`GpuDeviceProofs` follows the memory and the stream. `DeviceInv` says which arrays have
memory in which phase (`MemoryInv`) and that everything on the stream stays inside it,
what earlier calls left touching none of it (`StreamInv`): `LeaksOnlyWorkSpace` and
`AccessesInBounds`. `ResultInv` adds where the values of the call are (`ValueInv`): for
each array the last operation on the stream that touches it sets the value, or nothing
touches it and the device holds it. `ResultsAreOwn` follows.

The proofs cover a case that the run leaves out: with matrices without columns, a
`dgetrf` that throws leaves a kernel on the stream that touches no memory, and the stream
can grow from call to call. This is why the first two clauses of `ValueInv` exclude a
fault.

### Only model-checked

* The liveness properties (`EveryTaskAnswered`, `ShutdownCompletes`, `MasterUnblocks`,
  `CallsEnd`): they need fairness.
* `CodecFitsFile`, that reader and writer of one object fit: they are recursive operators
  on trees, which needs an induction over data.

Every other property of a passing run is stated by a theorem, some of them under the
hypotheses named above.

## Remarks

What the models contain although no run is about it:

* `DeleteRunContext` answers "Cannot delete default RunContext" only while the default
  context is the current one; later it can be deleted, and every hand-over to it then
  fails (`GpuContext`).
* `~ScopedGpuArray` calls `cudaFree` through a check that throws, although
  `RunContext.cpp` keeps a version for destructors that does not. After a device fault
  the process ends with `std::terminate`; `CallsEnd` and `OnlyWorkSpaceLeaks` allow it.
* The comment of `rcompss_gpu_dpotrs` promises "X with the same shape as B"; for a
  vector `B` it is a matrix of one column.
* The names of arguments given to a function of `...` only are replaced by
  `<function>___<i>`; the function still gets its values in order.
* A vector of more than 2^31 - 1 elements has its length cut to an int by the linear
  algebra routines. The call then fails in `cudaMalloc` or works on a shorter vector;
  it never leaves its arrays. `ChecksAreExact` is about lengths an int can hold.
* Registration markers survive `compss_stop`, so that a second session would register
  nothing. The model has one session: no document says that a second one is supported.

## Not modelled

The tokens of a task line and their parsing (the executor's control depends only on
whether the line is accepted, and `TaskSubmission` follows the parameters); the text
of the constraint string of `constraint()`; the numbers that cuBLAS and cuSOLVER
compute; work buffers, `Memset` and `CopyDevice` of the memory handler, which have no
caller; objects with 2^32 or more elements, whose lengths the "cpp" format cuts to 32
bits (`ObjectCodec` writes lengths as they are); R running out of memory for the result
of a linear algebra routine, which is no C++ exception but a jump of R over the
destructors (`OnlyWorkSpaceLeaks` is about calls that return, refuse their arguments or
throw); a solver called without an info cell, which cuSOLVER is assumed to refuse;
generated Rcpp glue; tracing, logging and debug files; installation scripts,
examples and manual pages.

## Plan

Done: all modules above, their runs, and the theorems listed under Proofs: every safety
property that a passing run checks, except `CodecFitsFile`. What could follow:

1. The task line: `parseTaskMessage` and the index arithmetic of `buildFunctionArgs`
   against the line the runtime writes, including strings of several words.
2. The constraint string of `constraint()`, and several sessions.
3. `CodecIsSound` for all objects, by an induction over their depth with the codec written
   as functions.
