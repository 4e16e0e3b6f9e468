--------------------------- MODULE TaskSubmission ---------------------------
(***************************************************************************)
(* The master: an R program calls decorated functions; each call becomes a *)
(* COMPSs task (rcompss_execute_decorated_task, TaskDecorator,             *)
(* process_task) and returns a future at once; compss_wait_on turns a      *)
(* future into the value.  The COMPSs runtime, which orders tasks by the   *)
(* files they read and write and retries failed ones, is external; what a  *)
(* worker does with one task (module Executor) is one step here.           *)
(***************************************************************************)
EXTENDS Integers, Sequences, FiniteSets, SequencesExt

CONSTANTS
  Formals,      \* the formal parameters of the task functions, in order
  Default,      \* Default[x]: the constant default of formal x, or NoDefault
  Tasks,        \* the decorated functions: see DecoratedTask
  FuncName,     \* FuncName[f]: the letters of the name of function f
  Signature,    \* Signature[c]: the letters of the signature of constraint list c
  Alphanumeric, \* the letters that survive the marker's gsub()
  MarkerWidth,  \* the length the marker's signature is cut to (32 in the code)
  Shapes,       \* the argument lists the program uses: see Shape
  MaxCalls,     \* bound: calls of decorated functions
  MaxAttempts   \* how often the runtime tries a task (on_failure = "RETRY")

NoDefault == "no default"
NoFile == [no |-> "file"]
Partial == [no |-> "complete file"]
Error == [no |-> "value"]

Calls == 1..MaxCalls
Positions == 1..Len(Formals)

\* dots: the only formal is "...". return_type "list" gives a future_object, "element" a
\* future_object_path.
DecoratedTask == [func : STRING, dots : BOOLEAN, constraint : DOMAIN Signature, info_only : BOOLEAN,
                  return_value : BOOLEAN, return_type : {"list", "element"}]

\* An argument list as the program writes it: optional names, classes of values.
Shape == Seq([name : Range(Formals) \union {""},
              class : {"integer", "character", "object", "NULL", "future_object", "future_object_path"}])

ASSUME SubmissionAssumption ==
  /\ Formals \in Seq(STRING) /\ IsInjective(Formals)
  /\ DOMAIN Default = Range(Formals)
  /\ Tasks \subseteq DecoratedTask /\ \A t \in Tasks : t.func \in DOMAIN FuncName
  /\ MarkerWidth \in Nat /\ MaxCalls \in Nat /\ MaxAttempts \in Nat \ {0}
  /\ \A s \in Shapes : s \in Shape /\ Len(s) <= Len(Formals)

\* A formal has a name.
ASSUME FormalsAssumption == \A i \in Positions : Formals[i] # ""

VARIABLES
  session,     \* compss_start and compss_stop
  calls,       \* history: the calls made, each with its task and actual arguments
  params,      \* params[n]: what GS_ExecuteTaskNew was given for call n
  file,        \* the serialized objects, by path
  markers,     \* the registered_... variables of the global environment
  registered,  \* the (function, constraint) pairs given to GS_RegisterCE
  tstate,      \* tstate[n]: the task of call n in the runtime
  attempts,    \* attempts[n]: failed attempts of the task of call n
  ran,         \* ran[n]: history of the arguments the function was run with
  waiting,     \* what the master is blocked in, and the values it has so far
  got          \* history: what the last wait_on was given and what it returned

masterVars == <<session, calls, params, markers, registered, waiting, got>>
vars == <<session, calls, params, file, markers, registered, tstate, attempts, ran, waiting, got>>

NotWaiting == [kind |-> "none", of |-> <<>>, values |-> <<>>]
NothingGot == [kind |-> "none", of |-> <<>>, value |-> NoFile]

\* Paths are unique because each holds a fresh UID.
ArgPath(n, i) == [kind |-> "arg", call |-> n, index |-> i]

\* Mutant: the name of the return file has no UID.
RetPathNoUid(n) == [kind |-> "ret", call |-> 1, index |-> 0]

RetPath(n) == [kind |-> "ret", call |-> n, index |-> 0]

Paths == [kind : {"arg"}, call : Calls, index : 1..(2 * Len(Formals))] \union {RetPath(n) : n \in Calls}

Init ==
  /\ session = "fresh"
  /\ calls = <<>>
  /\ params = <<>>
  /\ file = [p \in Paths |-> NoFile]
  /\ markers = {}
  /\ registered = {}
  /\ tstate = [n \in Calls |-> "none"]
  /\ attempts = [n \in Calls |-> 0]
  /\ ran = [n \in Calls |-> <<>>]
  /\ waiting = NotWaiting
  /\ got = NothingGot

-----------------------------------------------------------------------------
(***************************************************************************)
(* R's rule for matching arguments to formals (external): by name, then    *)
(* the unnamed ones in order, then defaults; "..." takes them as they are. *)
(* Unbound is what a formal with no argument and no default gets.          *)
(***************************************************************************)
Unbound == [no |-> "argument"]

\* The elements of q at the positions in keep, in their order.
Sublist(q, keep) ==
  LET rank(k) == Cardinality({j \in keep : j <= k})
  IN [i \in 1..Cardinality(keep) |-> q[CHOOSE k \in keep : rank(k) = i]]

\* The places of an argument list with the given name, "" for none.
Named(args, x) == {i \in DOMAIN args : args[i].name = x}

\* How many of the first i formals are not named in the argument list.
FreeFormals(args, i) == Cardinality({k \in 1..i : Named(args, Formals[k]) = {}})

RBinding(t, args) ==
  LET unnamed == Sublist(args, Named(args, ""))
  IN IF t.dots THEN [i \in DOMAIN args |-> args[i].term]
     ELSE [i \in Positions |->
        IF Named(args, Formals[i]) # {} THEN args[CHOOSE k \in Named(args, Formals[i]) : TRUE].term
        ELSE IF FreeFormals(args, i) <= Len(unnamed) THEN unnamed[FreeFormals(args, i)].term
        ELSE IF Default[Formals[i]] # NoDefault THEN [data |-> Default[Formals[i]]]
        ELSE Unbound]

-----------------------------------------------------------------------------
(***************************************************************************)
(* The steps of rcompss_execute_decorated_task.                            *)
(***************************************************************************)
\* arguments[[i]] <- v: NULL deletes the element, an index past the end appends.
Assign(arguments, i, v) ==
  CASE v.class = "NULL" -> IF i <= Len(arguments) THEN RemoveAt(arguments, i) ELSE arguments
    [] v.class # "NULL" /\ i <= Len(arguments) -> [arguments EXCEPT ![i].value = v]
    [] v.class # "NULL" /\ i > Len(arguments) -> Append(arguments, [name |-> "", value |-> v])

\* formals(f): a formal without default holds the empty symbol.
FormalArguments ==
  [i \in Positions |->
     [name |-> Formals[i],
      value |-> IF Default[Formals[i]] = NoDefault THEN [class |-> "symbol", of |-> 0]
                ELSE [class |-> "integer", of |-> Default[Formals[i]]]]]

\* rcompss_build_variable_argument_names: the names given at the call are replaced.
VariableArguments(t, values) ==
  [i \in DOMAIN values |-> [name |-> <<t.func, "___", i>>, value |-> values[i].value]]

\* Mutant: k is never advanced, so every unnamed value is the first one.
MatchFirstUnnamed(values, acc, i) ==
  LET named == Named(values, Formals[i])
      unnamed == Sublist(values, Named(values, ""))
  IN CASE named # {} -> [acc EXCEPT !.args = Assign(@, i, values[CHOOSE k \in named : TRUE].value)]
       [] named = {} /\ acc.k <= Len(unnamed) -> [acc EXCEPT !.args = Assign(@, i, unnamed[acc.k].value)]
       [] OTHER -> acc

\* One round of the loop over the formals: by name, else the k-th unnamed value.
MatchFormal(values, acc, i) ==
  LET named == Named(values, Formals[i])
      unnamed == Sublist(values, Named(values, ""))
  IN CASE named # {} -> [acc EXCEPT !.args = Assign(@, i, values[CHOOSE k \in named : TRUE].value)]
       [] named = {} /\ acc.k <= Len(unnamed) ->
            [args |-> Assign(acc.args, i, unnamed[acc.k].value), k |-> acc.k + 1]
       [] OTHER -> acc

MatchLoop(values) ==
  LET acc[i \in 0..Len(Formals)] ==
        IF i = 0 THEN [args |-> FormalArguments, k |-> 1] ELSE MatchFormal(values, acc[i - 1], i)
  IN acc

MatchArguments(t, values) ==
  IF t.dots THEN VariableArguments(t, values) ELSE MatchLoop(values)[Len(Formals)].args

\* processArgument: scalars travel by value, everything else as a FILE (10); the
\* empty symbol makes class() fail and falls into the handler's default.
Classify(v) ==
  CASE v.class = "integer" -> [type |-> 4, content |-> ""]
    [] v.class = "character" -> [type |-> 8, content |-> ""]
    [] v.class = "future_object" -> [type |-> 10, content |-> "future_object"]
    [] OTHER -> [type |-> 10, content |-> "object"]

\* What unserializing a serialized object gives back.
Term(v) == IF v.class = "future_object_path" THEN [path |-> RetPath(v.of)] ELSE [data |-> v.of]

\* The serialization loop: the value that stands for argument i of call n.
Processed(n, i, v) ==
  CASE Classify(v).content = "future_object" -> [class |-> "path", of |-> RetPath(v.of)]
    [] Classify(v).content = "object" /\ v.class # "symbol" -> [class |-> "path", of |-> ArgPath(n, i)]
    [] OTHER -> v

SerializedArguments(n, args) ==
  {i \in DOMAIN args : Classify(args[i].value).content = "object" /\ args[i].value.class # "symbol"}

\* Mutant: the return value is declared as an input.
MetadataAllIn(args, returns) ==
  [dirs |-> [i \in 1..(Len(args) + returns) |-> 0],
   renames |-> [i \in 1..(Len(args) + returns) |-> IF i <= Len(args) THEN 0 ELSE 1]]

\* processTaskMetadata: inputs are 0, the return value is 1.
Metadata(args, returns) ==
  [dirs |-> [i \in 1..(Len(args) + returns) |-> IF i <= Len(args) THEN 0 ELSE 1],
   renames |-> [i \in 1..(Len(args) + returns) |-> IF i <= Len(args) THEN 0 ELSE 1]]

\* The vectors of TaskExecutionResult, the return value last in each of them.
ParameterVectors(n, args, returns) ==
  LET last(x) == IF returns = 1 THEN <<x>> ELSE <<>>
  IN [values |-> [i \in DOMAIN args |-> Processed(n, i, args[i].value)]
                   \o last([class |-> "path", of |-> RetPath(n)]),
      names |-> [i \in DOMAIN args |-> args[i].name] \o last("RETURN_VALUE"),
      types |-> [i \in DOMAIN args |-> Classify(args[i].value).type] \o last(10),
      contents |-> [i \in DOMAIN args |-> Classify(args[i].value).content] \o last(""),
      meta |-> Metadata(args, returns)]

\* proc_args_clean: the values that are no symbols, in their order.
WithoutSymbols(values) == Sublist(values, {i \in DOMAIN values : values[i].class # "symbol"})

\* The parameters of process_task: the values without symbols, each beside the i-th
\* entry of the other vectors, from which nothing has been removed.
Parameters(n, args, returns) ==
  LET vectors == ParameterVectors(n, args, returns)
      values == WithoutSymbols(vectors.values)
  IN [i \in DOMAIN values |->
        [value |-> values[i], name |-> vectors.names[i], type |-> vectors.types[i],
         content |-> vectors.contents[i], direction |-> vectors.meta.dirs[i],
         rename |-> vectors.meta.renames[i]]]

\* The conversions of process_task throw on a value of another kind than its type.
Convertible(p) ==
  \/ p.type = 4 /\ p.value.class = "integer"
  \/ p.type \in {8, 10} /\ p.value.class \in {"character", "path"}

\* Mutant: the marker names the function only.
MarkerOfFunction(t) == FuncName[t.func]

\* The marker: the function's name and the start of the sanitised constraint signature.
Marker(t) ==
  LET sig == Signature[t.constraint]
      clean == [i \in DOMAIN sig |-> IF sig[i] \in Alphanumeric THEN sig[i] ELSE "_"]
      cut == SubSeq(clean, 1, IF Len(sig) < MarkerWidth THEN Len(sig) ELSE MarkerWidth)
  IN FuncName[t.func] \o (IF cut = <<>> THEN <<>> ELSE <<"_">> \o cut)

\* Mutant: the constraints are lost on the way to register_core_element.
RegisterUnconstrained(t) ==
  /\ registered' = IF Marker(t) \in markers THEN registered ELSE registered \union {<<t.func, "">>}
  /\ markers' = markers \union {Marker(t)}

\* register_core_element, once for each marker.
Register(t) ==
  /\ registered' = IF Marker(t) \in markers THEN registered
                   ELSE registered \union {<<t.func, t.constraint>>}
  /\ markers' = markers \union {Marker(t)}

Futures(class) ==
  {n \in DOMAIN calls :
     /\ tstate[n] # "rejected" /\ calls[n].task.return_value
     /\ class = (IF calls[n].task.return_type = "list" THEN "future_object" ELSE "future_object_path")}

\* The values the program can put into a place of the given class in its next call.
ValuesOf(class) ==
  IF class \in {"future_object", "future_object_path"}
  THEN {[class |-> class, of |-> n] : n \in Futures(class)}
  ELSE {[class |-> class, of |-> class]}

\* The files once the arguments of call n at the positions written are serialized.
WithArguments(n, args, written) ==
  [p \in Paths |->
     IF \E i \in written : p = ArgPath(n, i) THEN Term(args[p.index].value) ELSE file[p]]

\* A call of a decorated function; with info_only it ends before the registration.
Call(t, values) ==
  LET n == Len(calls) + 1
      args == MatchArguments(t, values)
      returns == IF t.return_value THEN 1 ELSE 0
      ps == Parameters(n, args, returns)
      accepted == ~t.info_only /\ \A i \in DOMAIN ps : Convertible(ps[i])
  IN
  /\ session = "started" /\ waiting = NotWaiting /\ n <= MaxCalls
  /\ calls' = Append(calls, [task |-> t, values |-> values])
  /\ file' = WithArguments(n, args, SerializedArguments(n, args))
  /\ IF t.info_only THEN UNCHANGED <<markers, registered>> ELSE Register(t)
  /\ params' = Append(params, IF accepted THEN ps ELSE <<>>)
  /\ tstate' = [tstate EXCEPT ![n] = IF accepted THEN "queued" ELSE "rejected"]
  /\ UNCHANGED <<session, attempts, ran, waiting, got>>

\* A call that stops because argument i cannot be serialized: its file is missing or cut
\* short, those before it are written, and nothing is registered.
CallStops(t, values) ==
  LET n == Len(calls) + 1
      args == MatchArguments(t, values)
  IN
  /\ session = "started" /\ waiting = NotWaiting /\ n <= MaxCalls
  /\ calls' = Append(calls, [task |-> t, values |-> values])
  /\ \E i \in SerializedArguments(n, args), rest \in {NoFile, Partial} :
       file' = [WithArguments(n, args, {j \in SerializedArguments(n, args) : j < i})
                  EXCEPT ![ArgPath(n, i)] = rest]
  /\ params' = Append(params, <<>>)
  /\ tstate' = [tstate EXCEPT ![n] = "rejected"]
  /\ UNCHANGED <<session, markers, registered, attempts, ran, waiting, got>>

CallSome ==
  \E t \in Tasks, s \in Shapes :
    \E v \in [DOMAIN s -> UNION {ValuesOf(s[i].class) : i \in DOMAIN s}] :
      /\ \A i \in DOMAIN s : v[i] \in ValuesOf(s[i].class)
      /\ LET values == [i \in DOMAIN s |-> [name |-> s[i].name, value |-> v[i]]]
         IN Call(t, values) \/ CallStops(t, values)

-----------------------------------------------------------------------------
(***************************************************************************)
(* The program's other operations.                                         *)
(***************************************************************************)
compss_start ==
  /\ session = "fresh"
  /\ session' = "started"
  /\ UNCHANGED <<calls, params, file, markers, registered, tstate, attempts, ran, waiting, got>>

Block(kind, of) ==
  /\ session = "started" /\ waiting = NotWaiting
  /\ waiting' = [kind |-> kind, of |-> of, values |-> <<>>]
  /\ UNCHANGED <<session, calls, params, file, markers, registered, tstate, attempts, ran, got>>

\* Of a future, of a vector of element futures, or of a list of futures of both kinds.
wait_on ==
  \/ \E n \in Futures("future_object") : Block("object", <<n>>)
  \/ \E n \in Futures("future_object_path") : Block("path", <<n>>)
  \/ \E n, m \in Futures("future_object_path") : n # m /\ Block("path", <<n, m>>)
  \/ \E n, m \in Futures("future_object") \union Futures("future_object_path") :
       n # m /\ Block("list", <<n, m>>)

barrier == Block("barrier", <<>>)

compss_stop == Block("stop", <<>>)

Ended(n) == tstate[n] \in {"done", "failed"}
Readable(p) == file[p] \notin {NoFile, Partial}

\* The future that wait_on has reached.
Awaited == waiting.of[Len(waiting.values) + 1]

\* In a list only futures of return type "list" are waited for, the rest stays as it is.
Skipped(n) == waiting.kind = "list" /\ calls[n].task.return_type = "element"

ElementFuture(n) == [class |-> "future_object_path", of |-> n]

\* What wait_on makes of the future of call n: a file that cannot be unserialized is an
\* error, or, in a vector of element futures, replaced by its path with a warning.
Fetched(n) ==
  IF Skipped(n) THEN ElementFuture(n)
  ELSE IF Readable(RetPath(n)) THEN file[RetPath(n)]
  ELSE IF waiting.kind = "path" THEN [path |-> RetPath(n)] ELSE Error

\* One round of wait_on: the value of a single future is returned as it is, any other
\* value goes into return_list; an error leaves wait_on at once, and return_list with it.
Receive(n) ==
  LET values == Append(waiting.values, Fetched(n))
  IN
  /\ IF Fetched(n) # Error /\ Len(values) < Len(waiting.of)
     THEN waiting' = [waiting EXCEPT !.values = values] /\ UNCHANGED got
     ELSE /\ waiting' = NotWaiting
          /\ got' = [kind |-> waiting.kind, of |-> waiting.of,
                     value |-> IF Fetched(n) = Error \/ waiting.kind = "object" THEN Fetched(n)
                               ELSE [list |-> values]]
  /\ UNCHANGED <<session, calls, params, file, markers, registered, tstate, attempts, ran>>

\* Mutant: the file of a task that failed is awaited as well.
WaitForDone ==
  /\ waiting.kind \in {"object", "path", "list"}
  /\ tstate[Awaited] = "done" \/ Skipped(Awaited)
  /\ Receive(Awaited)

\* GS_Get_File returns once the file's task has ended; then the file is unserialized.
WaitStep ==
  /\ waiting.kind \in {"object", "path", "list"}
  /\ Ended(Awaited) \/ Skipped(Awaited)
  /\ Receive(Awaited)

\* GS_BarrierNew and GS_Off return when every task has ended.
Unblock ==
  /\ waiting.kind \in {"barrier", "stop"}
  /\ \A n \in DOMAIN calls : tstate[n] # "queued"
  /\ waiting' = NotWaiting
  /\ session' = IF waiting.kind = "stop" THEN "stopped" ELSE session
  /\ UNCHANGED <<calls, params, file, markers, registered, tstate, attempts, ran, got>>

-----------------------------------------------------------------------------
(***************************************************************************)
(* The runtime and the worker (external; buildFunctionArgs is the code's). *)
(***************************************************************************)
Inputs(n) == {params[n][i].value.of : i \in {k \in DOMAIN params[n] : params[n][k].type = 10 /\ params[n][k].direction = 0}}
Outputs(n) == {params[n][i].value.of : i \in {k \in DOMAIN params[n] : params[n][k].type = 10 /\ params[n][k].direction = 1}}
Producers(n) == {k \in 1..(n - 1) : tstate[k] # "rejected" /\ Outputs(k) \intersect Inputs(n) # {}}

\* The parameters of the function: all but the return value.
FunctionParams(n) ==
  SubSeq(params[n], 1, Len(params[n]) - (IF calls[n].task.return_value THEN 1 ELSE 0))

\* buildFunctionArgs: scalars from the line, the rest unserialized from files.
FunctionArgs(n) ==
  [i \in DOMAIN FunctionParams(n) |->
     [name |-> params[n][i].name,
      term |-> IF params[n][i].type = 10 THEN file[params[n][i].value.of]
               ELSE [data |-> params[n][i].value.of]]]

ReturnPath(n) == params[n][Len(params[n])].value.of

ReadyToRun(n) ==
  /\ tstate[n] = "queued"
  /\ \A k \in Producers(n) : tstate[k] = "done"

\* A run that ends with END_TASK 0; the return file is there, or (the executor does not
\* insist) is missing or cut short.
Execute(n) ==
  LET binding == RBinding(calls[n].task, FunctionArgs(n))
  IN
  /\ ReadyToRun(n)
  /\ \A p \in Inputs(n) : Readable(p)
  /\ \A i \in DOMAIN binding : binding[i] # Unbound
  /\ ran' = [ran EXCEPT ![n] = binding]
  /\ tstate' = [tstate EXCEPT ![n] = "done"]
  /\ IF calls[n].task.return_value
     THEN \/ file' = [file EXCEPT ![ReturnPath(n)] = [func |-> calls[n].task.func, args |-> binding]]
          \/ file' = [file EXCEPT ![ReturnPath(n)] = Partial]
          \/ UNCHANGED file
     ELSE UNCHANGED file
  /\ UNCHANGED <<masterVars, attempts>>

\* A run that ends with END_TASK 1, or the loss of its executor; the return file may
\* hold a part of the value. The runtime retries, and in the end gives up.
Fail(n) ==
  /\ ReadyToRun(n)
  /\ attempts' = [attempts EXCEPT ![n] = @ + 1]
  /\ tstate' = [tstate EXCEPT ![n] = IF attempts'[n] < MaxAttempts THEN "queued" ELSE "failed"]
  /\ \/ calls[n].task.return_value /\ file' = [file EXCEPT ![ReturnPath(n)] = Partial]
     \/ UNCHANGED file
  /\ UNCHANGED <<masterVars, ran>>

\* A task whose input will never come.
Cancel(n) ==
  /\ tstate[n] = "queued"
  /\ \E k \in Producers(n) : tstate[k] = "failed"
  /\ tstate' = [tstate EXCEPT ![n] = "failed"]
  /\ UNCHANGED <<masterVars, file, attempts, ran>>

RuntimeStep(n) == Execute(n) \/ Fail(n) \/ Cancel(n)

Next ==
  \/ compss_start \/ CallSome \/ wait_on \/ barrier \/ compss_stop \/ WaitStep \/ Unblock
  \/ \E n \in DOMAIN calls : RuntimeStep(n)

\* The runtime keeps scheduling, and a blocked master resumes when it can.
Fairness ==
  /\ WF_vars(WaitStep \/ Unblock)
  /\ \A n \in Calls : WF_vars(n \in DOMAIN calls /\ RuntimeStep(n))

Spec == Init /\ [][Next]_vars /\ Fairness

-----------------------------------------------------------------------------
(***************************************************************************)
(* Correctness.                                                            *)
(***************************************************************************)
TypeOK ==
  /\ session \in {"fresh", "started", "stopped"}
  /\ Len(calls) <= MaxCalls /\ Len(params) = Len(calls)
  /\ \A n \in DOMAIN calls : calls[n].task \in Tasks
  /\ DOMAIN file = Paths
  /\ registered \subseteq {<<t.func, t.constraint>> : t \in Tasks}
  /\ tstate \in [Calls -> {"none", "rejected", "queued", "done", "failed"}]
  /\ attempts \in [Calls -> 0..MaxAttempts]
  /\ waiting.kind \in {"none", "object", "path", "list", "barrier", "stop"}
  /\ \A n \in Calls : tstate[n] = "failed" => ran[n] = <<>>

\* The arguments of call n, with every future replaced by what its call computes when the
\* arguments of call k are value[k].
SequentialArgs(n, value) ==
  RBinding(calls[n].task, [i \in DOMAIN calls[n].values |->
    LET v == calls[n].values[i].value
    IN [name |-> calls[n].values[i].name,
        term |-> IF v.class \in {"future_object", "future_object_path"}
                 THEN [func |-> calls[v.of].task.func, args |-> value[v.of]]
                 ELSE [data |-> v.of]]])

\* What the same R program computes with the undecorated functions, one call after the
\* other.
Sequential == LET value[n \in 1..Len(calls)] == SequentialArgs(n, value) IN value

SequentialValue(n) == [func |-> calls[n].task.func, args |-> Sequential[n]]

\* A task that has ended without a complete return file.
Lost(n) == Ended(n) /\ ~Readable(RetPath(n))

\* The entry of a returned list for the future of call n: untouched, if it is an element
\* future in a list; else the sequential value, or its path where that value is lost.
EntryIsSequential(kind, n, entry) ==
  IF kind = "list" /\ calls[n].task.return_type = "element" THEN entry = ElementFuture(n)
  ELSE \/ entry = SequentialValue(n)
       \/ kind = "path" /\ entry = [path |-> RetPath(n)] /\ Lost(n)

\* Whatever the order, the failures and the retries of the tasks in between, wait_on
\* returns the value the sequential program computes, inside a list for element futures
\* (also for a single one) and for a list of futures; it stops with an error, or has a
\* path instead of a value, only where the result of a task is lost.
WaitOnIsSequential ==
  \/ got.kind = "none"
  \/ got.kind \in {"object", "list"} /\ got.value = Error /\ \E i \in DOMAIN got.of : Lost(got.of[i])
  \/ got.kind = "object" /\ got.value = SequentialValue(got.of[1])
  \/ /\ got.kind \in {"list", "path"}
     /\ DOMAIN got.value.list = DOMAIN got.of
     /\ \A i \in DOMAIN got.of : EntryIsSequential(got.kind, got.of[i], got.value.list[i])

\* A task's function runs with the arguments its call was written with: matching,
\* classification, serialization and the parameter vectors lose or exchange none.
BindingPreserved ==
  \A n \in DOMAIN calls : ran[n] = IF tstate[n] = "done" THEN Sequential[n] ELSE <<>>

\* Before a task is handed to the runtime, its function has been registered with the
\* constraints of its own decorator, not only with those of another one.
RegisteredWithConstraints ==
  \A n \in DOMAIN calls :
    tstate[n] # "rejected" => <<calls[n].task.func, calls[n].task.constraint>> \in registered

\* A task that was passed a future runs only after the task of that future has ended
\* successfully, and nothing else is waited for.
DependenciesRespected ==
  \A n \in DOMAIN calls :
    LET deps == {calls[n].values[i].value.of :
                   i \in {k \in DOMAIN calls[n].values : calls[n].values[k].value.class = "future_object"}}
    IN /\ ran[n] # <<>> => \A k \in deps : tstate[k] = "done"
       /\ tstate[n] = "queued" => Producers(n) = deps

\* A file that a reader may have been given is never written again: an argument once
\* its call is submitted, a return value once its task is done.
FilesAreFinal ==
  [][\A p \in Paths :
       \/ p.kind = "arg" /\ p.call \in DOMAIN calls
       \/ p.kind = "ret" /\ tstate[p.call] = "done"
       => file'[p] = file[p]]_vars

\* wait_on, barrier and stop always return, even when tasks fail.
MasterUnblocks == waiting # NotWaiting ~> waiting = NotWaiting
=============================================================================
