------------------------------ MODULE GpuLinalg ------------------------------
(***************************************************************************)
(* The cuBLAS and cuSOLVER routines that R calls: each checks dimensions,  *)
(* allocates device arrays, uploads its arguments, launches one library    *)
(* routine on the stream of the current context, reads the result back and *)
(* frees the arrays on every way out.                                      *)
(*                                                                         *)
(* Two processes: the R thread, which makes one call after the other, and  *)
(* the device (external), which works off the stream.  The placement of    *)
(* the context and its info cell are what the operations of GpuContext     *)
(* left behind.                                                            *)
(***************************************************************************)
EXTENDS Integers, Sequences, Functions

CONSTANTS Shapes,    \* the (rows, columns) of matrices
          Lengths,   \* the lengths of vectors
          IntWidth,  \* the bits of an int
          Options    \* the (side, uplo, trans, diag) letters in use

Routines == {"dgemm", "daxpy", "dpotrf", "dgemv", "ddot", "dnrm2", "dscal",
             "dtrmm", "dtrsm", "dsyrk", "dgetrf", "dgetrs", "dpotrs"}
Matrices == {[r |-> s[1], c |-> s[2]] : s \in Shapes}
NotGiven == -1
NoMatrix == [r |-> NotGiven, c |-> NotGiven]

ASSUME LinalgAssumption ==
  /\ IntWidth \in Nat \ {0}
  /\ Lengths \subseteq Nat
  /\ \A s \in Shapes : s \in (0..2^(IntWidth - 1) - 1) \X (0..2^(IntWidth - 1) - 1)

\* Two facts about powers of two.
ASSUME PowerAssumption ==
  /\ 2^(IntWidth - 1) \in Nat \ {0}
  /\ 2^IntWidth = 2 * 2^(IntWidth - 1)

VARIABLES
  placement,  \* mOperationPlacement of the current context
  infoCell,   \* mpInfo is not null
  mode,       \* mRunMode
  call,       \* the routine and the arguments of the call in progress
  pc,         \* its phase
  at,         \* the array or the upload the phase is at
  dev,        \* dev[x]: the contents of device array x
  leaked,     \* history: the arrays the call lost the last pointer to
  queue,      \* the unfinished operations of the stream
  info,       \* *mpInfo
  fault,      \* the device has failed: every later CUDA call returns an error
  up,         \* the process has not been terminated
  outcome,    \* how the call ended
  result      \* what it gave to R

deviceVars == <<dev, leaked, queue, info, fault>>
contextVars == <<placement, infoCell, mode>>
vars == <<contextVars, call, pc, at, deviceVars, up, outcome, result>>

NoCall == [routine |-> "none"]
None == [is |-> "unallocated"]
Junk == [is |-> "uninitialised"]
Zero == [is |-> "zero"]
In(x) == [is |-> "argument", of |-> x, in |-> call]

ArrayIds == {"A", "B", "C", "x", "y", "piv", "work"}
Held == {x \in ArrayIds : dev[x] # None}
Idle == queue = <<>>

-----------------------------------------------------------------------------
(***************************************************************************)
(* What each routine does with its arguments.                              *)
(***************************************************************************)
\* static_cast<int>(size)
ToInt(n) == ((n + 2^(IntWidth - 1)) % 2^IntWidth) - 2^(IntWidth - 1)

Larger(a, b) == IF a > b THEN a ELSE b
Smaller(a, b) == IF a < b THEN a ELSE b

Array(x, size) == [id |-> x, size |-> size]
Upload(x) == [op |-> "copy", to |-> x]
Memset(x) == [op |-> "memset", to |-> x]

\* A matrix as the library walks through it, column by column; a vector.
View(x, rows, cols, ld) == [id |-> x, rows |-> rows, cols |-> cols, ld |-> ld]
Vec(x, n) == View(x, n, 1, Larger(1, n))

\* The option letters; another one stops the call.
parse_side_left(s) == s \in {"L", "l"}
parse_trans(s) == s \in {"T", "t", "C", "c"}
GoodOptions(o) ==
  /\ o.side \in {"L", "l", "R", "r"} /\ o.uplo \in {"U", "u", "L", "l"}
  /\ o.trans \in {"N", "n", "T", "t", "C", "c"} /\ o.diag \in {"N", "n", "U", "u"}

\* Mutant: the columns of a transposed A are taken for the inner dimension.
dgemmInner(a) ==
  LET m == IF a.transA THEN a.A.c ELSE a.A.r
      k == a.A.c
      n == IF a.transB THEN a.B.r ELSE a.B.c
  IN [accepts |-> (IF a.transB THEN a.B.c ELSE a.B.r) = k,
      arrays |-> <<Array("A", a.A.r * a.A.c), Array("B", a.B.r * a.B.c), Array("C", m * n)>>,
      fills |-> <<Upload("A"), Upload("B")>>,
      refuses |-> a.beta # 0,
      views |-> <<View("A", a.A.r, a.A.c, IF a.transA THEN k ELSE m),
                  View("B", IF a.transB THEN n ELSE k, IF a.transB THEN k ELSE n,
                            IF a.transB THEN n ELSE k),
                  View("C", m, n, m)>>,
      reads |-> <<"A", "B">>, writes |-> <<"C">>, shape |-> <<m, n>>]

\* C = op(A) op(B); a beta other than 0 is refused only after the uploads.
dgemm(a) ==
  LET m == IF a.transA THEN a.A.c ELSE a.A.r
      k == IF a.transA THEN a.A.r ELSE a.A.c
      n == IF a.transB THEN a.B.r ELSE a.B.c
  IN [accepts |-> (IF a.transB THEN a.B.c ELSE a.B.r) = k,
      arrays |-> <<Array("A", a.A.r * a.A.c), Array("B", a.B.r * a.B.c), Array("C", m * n)>>,
      fills |-> <<Upload("A"), Upload("B")>>,
      refuses |-> a.beta # 0,
      views |-> <<View("A", IF a.transA THEN k ELSE m, IF a.transA THEN m ELSE k,
                            IF a.transA THEN k ELSE m),
                  View("B", IF a.transB THEN n ELSE k, IF a.transB THEN k ELSE n,
                            IF a.transB THEN n ELSE k),
                  View("C", m, n, m)>>,
      reads |-> <<"A", "B">>, writes |-> <<"C">>, shape |-> <<m, n>>]

\* y = alpha x + y
daxpy(a) ==
  LET n == ToInt(a.x)
  IN [accepts |-> ToInt(a.y) = n,
      arrays |-> <<Array("x", n), Array("y", n)>>,
      fills |-> <<Upload("x"), Upload("y")>>, refuses |-> FALSE,
      views |-> <<Vec("x", n), Vec("y", n)>>,
      reads |-> <<"x", "y">>, writes |-> <<"y">>, shape |-> <<n, 1>>]

\* y = op(A) x + beta y0: y0 is looked at after the uploads; without it y is cleared.
dgemv(a) ==
  LET m == a.A.r
      n == a.A.c
      out == IF a.trans THEN n ELSE m
      xlen == IF a.trans THEN m ELSE n
      bad == a.beta # 0 /\ (a.y = NotGiven \/ ToInt(a.y) # out)
  IN [accepts |-> ToInt(a.x) = xlen,
      arrays |-> <<Array("A", m * n), Array("x", xlen), Array("y", out)>>,
      fills |-> IF bad THEN <<Upload("A"), Upload("x")>>
                ELSE <<Upload("A"), Upload("x"), IF a.beta # 0 THEN Upload("y") ELSE Memset("y")>>,
      refuses |-> bad,
      views |-> <<View("A", m, n, m), Vec("x", xlen), Vec("y", out)>>,
      reads |-> IF a.beta # 0 THEN <<"A", "x", "y">> ELSE <<"A", "x">>,
      writes |-> <<"y">>, shape |-> <<out, 1>>]

\* The result is a number on the host.
ddot(a) ==
  LET n == ToInt(a.x)
  IN [accepts |-> ToInt(a.y) = n,
      arrays |-> <<Array("x", n), Array("y", n)>>,
      fills |-> <<Upload("x"), Upload("y")>>, refuses |-> FALSE,
      views |-> <<Vec("x", n), Vec("y", n)>>,
      reads |-> <<"x", "y">>, writes |-> <<>>, shape |-> <<1, 1>>]

dnrm2(a) ==
  LET n == ToInt(a.x)
  IN [accepts |-> TRUE, arrays |-> <<Array("x", n)>>,
      fills |-> <<Upload("x")>>, refuses |-> FALSE, views |-> <<Vec("x", n)>>,
      reads |-> <<"x">>, writes |-> <<>>, shape |-> <<1, 1>>]

dscal(a) ==
  LET n == ToInt(a.x)
  IN [accepts |-> TRUE, arrays |-> <<Array("x", n)>>,
      fills |-> <<Upload("x")>>, refuses |-> FALSE, views |-> <<Vec("x", n)>>,
      reads |-> <<"x">>, writes |-> <<"x">>, shape |-> <<n, 1>>]

\* C = op(A) B or B op(A), A triangular.
dtrmm(a) ==
  LET m == a.B.r
      n == a.B.c
      size == IF parse_side_left(a.opt.side) THEN m ELSE n
  IN [accepts |-> GoodOptions(a.opt) /\ a.A.r = size /\ a.A.c = size,
      arrays |-> <<Array("A", a.A.r * a.A.c), Array("B", m * n), Array("C", m * n)>>,
      fills |-> <<Upload("A"), Upload("B")>>, refuses |-> FALSE,
      views |-> <<View("A", size, size, a.A.r), View("B", m, n, m), View("C", m, n, m)>>,
      reads |-> <<"A", "B">>, writes |-> <<"C">>, shape |-> <<m, n>>]

\* op(A) X = B or X op(A) = B, in the place of B.
dtrsm(a) ==
  LET m == a.B.r
      n == a.B.c
      size == IF parse_side_left(a.opt.side) THEN m ELSE n
  IN [accepts |-> GoodOptions(a.opt) /\ a.A.r = size /\ a.A.c = size,
      arrays |-> <<Array("A", a.A.r * a.A.c), Array("B", m * n)>>,
      fills |-> <<Upload("A"), Upload("B")>>, refuses |-> FALSE,
      views |-> <<View("A", size, size, a.A.r), View("B", m, n, m)>>,
      reads |-> <<"A", "B">>, writes |-> <<"B">>, shape |-> <<m, n>>]

\* C = op(A) t(op(A)) + beta C0. One triangle of C keeps what was there.
dsyrk(a) ==
  LET t == parse_trans(a.opt.trans)
      n == IF t THEN a.A.c ELSE a.A.r
      k == IF t THEN a.A.r ELSE a.A.c
      bad == a.beta # 0 /\ a.C # [r |-> n, c |-> n]
  IN [accepts |-> GoodOptions(a.opt) /\ a.A.r # 0 /\ a.A.c # 0,
      arrays |-> <<Array("A", a.A.r * a.A.c), Array("C", n * n)>>,
      fills |-> IF bad THEN <<Upload("A")>>
                ELSE <<Upload("A"), IF a.beta # 0 THEN Upload("C") ELSE Memset("C")>>,
      refuses |-> bad,
      views |-> <<View("A", IF t THEN k ELSE n, IF t THEN n ELSE k, a.A.r), View("C", n, n, n)>>,
      reads |-> <<"A", "C">>, writes |-> <<"C">>, shape |-> <<n, n>>]

dpotrf(a) ==
  LET n == a.A.r
  IN [accepts |-> a.A.c = n, arrays |-> <<Array("A", n * n)>>,
      fills |-> <<Upload("A")>>, refuses |-> FALSE, views |-> <<View("A", n, n, n)>>,
      reads |-> <<"A">>, writes |-> <<"A">>, shape |-> <<n, n>>]

dgetrf(a) ==
  LET m == a.A.r
      n == a.A.c
  IN [accepts |-> TRUE,
      arrays |-> <<Array("A", m * n), Array("piv", Smaller(m, n))>>,
      fills |-> <<Upload("A")>>, refuses |-> FALSE,
      views |-> <<View("A", m, n, m), Vec("piv", Smaller(m, n))>>,
      reads |-> <<"A">>, writes |-> <<"A", "piv">>, shape |-> <<m, n>>]

\* The right-hand side: a matrix, or a vector that becomes a matrix of one column.
Rows(B) == IF B.matrix THEN B.r ELSE ToInt(B.r)
Cols(B) == IF B.matrix THEN B.c ELSE 1

dgetrs(a) ==
  LET n == a.A.r
      nrhs == Cols(a.B)
  IN [accepts |-> a.A.c = n /\ ToInt(a.piv) = n /\ Rows(a.B) = n,
      arrays |-> <<Array("A", n * n), Array("B", n * nrhs), Array("piv", n)>>,
      fills |-> <<Upload("A"), Upload("B"), Upload("piv")>>, refuses |-> FALSE,
      views |-> <<View("A", n, n, n), Vec("piv", n), View("B", n, nrhs, n)>>,
      reads |-> <<"A", "piv", "B">>, writes |-> <<"B">>, shape |-> <<n, nrhs>>]

dpotrs(a) ==
  LET n == a.A.r
      nrhs == Cols(a.B)
  IN [accepts |-> a.A.c = n /\ Rows(a.B) = n,
      arrays |-> <<Array("A", n * n), Array("B", n * nrhs)>>,
      fills |-> <<Upload("A"), Upload("B")>>, refuses |-> FALSE,
      views |-> <<View("A", n, n, n), View("B", n, nrhs, n)>>,
      reads |-> <<"A", "B">>, writes |-> <<"B">>, shape |-> <<n, nrhs>>]

Plan(r, a) ==
  CASE r = "dgemm" -> dgemm(a) [] r = "daxpy" -> daxpy(a) [] r = "dpotrf" -> dpotrf(a)
    [] r = "dgemv" -> dgemv(a) [] r = "ddot" -> ddot(a)   [] r = "dnrm2" -> dnrm2(a)
    [] r = "dscal" -> dscal(a) [] r = "dtrmm" -> dtrmm(a) [] r = "dtrsm" -> dtrsm(a)
    [] r = "dsyrk" -> dsyrk(a) [] r = "dgetrf" -> dgetrf(a)
    [] r = "dgetrs" -> dgetrs(a) [] r = "dpotrs" -> dpotrs(a)

plan == Plan(call.routine, call.args)

\* The argument lists R can call a routine with; good tells whether a factorization
\* exists.
Rhs == {[matrix |-> TRUE, r |-> M.r, c |-> M.c] : M \in Matrices}
         \union [matrix : {FALSE}, r : Lengths, c : {1}]

Args(r) ==
  CASE r = "dgemm" -> [A : Matrices, B : Matrices, transA : BOOLEAN, transB : BOOLEAN, beta : {0, 1}]
    [] r \in {"daxpy", "ddot"} -> [x : Lengths, y : Lengths]
    [] r \in {"dnrm2", "dscal"} -> [x : Lengths]
    [] r = "dgemv" -> [A : Matrices, x : Lengths, trans : BOOLEAN, beta : {1},
                       y : Lengths \union {NotGiven}]
                      \union [A : Matrices, x : Lengths, trans : BOOLEAN, beta : {0}, y : {NotGiven}]
    [] r \in {"dtrmm", "dtrsm"} -> [A : Matrices, B : Matrices, opt : Options]
    [] r = "dsyrk" -> [A : Matrices, opt : Options, beta : {1}, C : Matrices \union {NoMatrix}]
                      \union [A : Matrices, opt : Options, beta : {0}, C : {NoMatrix}]
    [] r \in {"dpotrf", "dgetrf"} -> [A : Matrices, good : BOOLEAN]
    [] r = "dgetrs" -> [A : Matrices, piv : Lengths, B : Rhs]
    [] r = "dpotrs" -> [A : Matrices, B : Rhs]

Factors == {"dpotrf", "dgetrf"}
Solvers == Factors \union {"dgetrs", "dpotrs"}

-----------------------------------------------------------------------------
(***************************************************************************)
(* The device (external).  Streams made by cudaStreamCreate and the        *)
(* default stream wait for each other, so the queue is one.                *)
(***************************************************************************)
Init ==
  /\ placement \in {"CPU", "GPU"}
  /\ infoCell \in BOOLEAN /\ (placement = "CPU" => ~infoCell)
  /\ mode = "SYNC"
  /\ call = NoCall /\ pc = "idle" /\ at = 1
  /\ dev = [x \in ArrayIds |-> None]
  /\ leaked = {} /\ queue = <<>> /\ info = 0
  /\ fault = FALSE /\ up = TRUE
  /\ outcome = "none" /\ result = <<>>

\* A null pointer of an array of size 0 stays what it is.
Put(x, v) == IF dev[x] = None THEN dev ELSE [dev EXCEPT ![x] = v]

\* What a routine computes from the contents of the arrays it reads.
Computed(r, reads, part) == [is |-> "computed", by |-> r, part |-> part, from |-> [i \in DOMAIN reads |-> dev[reads[i]]]]

StreamStep ==
  LET op == Head(queue) IN
  /\ ~Idle
  /\ queue' = Tail(queue)
  /\ dev' = CASE op.op = "copy" -> Put(op.to, op.val)
              [] op.op = "memset" -> Put(op.to, Zero)
              [] op.op = "kernel" ->
                   [x \in ArrayIds |-> IF x \in Range(op.writes) /\ dev[x] # None
                                       THEN Computed(op.by, op.reads, x) ELSE dev[x]]
              [] op.op = "other" -> dev
  /\ info' = IF op.op = "kernel" /\ op.by \in Solvers THEN (IF op.good THEN 0 ELSE 1) ELSE info
  /\ UNCHANGED <<contextVars, call, pc, at, leaked, fault, up, outcome, result>>

\* A kernel fails: what is queued is lost.
DeviceFault ==
  /\ ~Idle /\ Head(queue).op = "kernel"
  /\ fault' = TRUE /\ queue' = <<>>
  /\ UNCHANGED <<contextVars, call, pc, at, dev, leaked, info, up, outcome, result>>

-----------------------------------------------------------------------------
(***************************************************************************)
(* Between calls: the other operations on the context, as in GpuContext.   *)
(***************************************************************************)
SetRunMode(m) ==
  /\ up /\ pc = "idle"
  /\ mode = "ASYNC" /\ m = "SYNC" => Idle /\ ~fault
  /\ mode' = m
  /\ UNCHANGED <<placement, infoCell, call, pc, at, deviceVars, up, outcome, result>>

\* An asynchronous copy to a buffer of R's.
OtherWork ==
  /\ up /\ pc = "idle" /\ placement = "GPU" /\ mode = "ASYNC" /\ Idle /\ ~fault
  /\ queue' = <<[op |-> "other"]>>
  /\ UNCHANGED <<contextVars, call, pc, at, dev, leaked, info, fault, up, outcome, result>>

-----------------------------------------------------------------------------
(***************************************************************************)
(* A call.                                                                 *)
(***************************************************************************)
\* In SYNC mode a copy or a launch returns when the stream is idle; a cudaMemset is
\* waited for in neither mode.
Waited == mode = "SYNC" => \A i \in DOMAIN queue : queue[i].op = "memset"

Enqueue(op) == queue' = Append(queue, op)

\* A context on the CPU, letters that are no option and dimensions that do not fit
\* stop the call before it touches the device.
Start(r, a) ==
  /\ up /\ pc = "idle"
  /\ call' = [routine |-> r, args |-> a] /\ at' = 1
  /\ IF placement = "CPU" THEN pc' = "ended" /\ outcome' = "no context"
     ELSE IF ~Plan(r, a).accepts THEN pc' = "ended" /\ outcome' = "refused"
     ELSE pc' = "alloc" /\ outcome' = "none"
  /\ UNCHANGED <<contextVars, deviceVars, up, result>>

\* Mutant: one step too many.
AdvancePast(n, next) ==
  IF at <= n THEN at' = at + 1 /\ UNCHANGED pc ELSE at' = 1 /\ pc' = next

\* The next array or upload, or the next phase.
Advance(n, next) ==
  IF at < n THEN at' = at + 1 /\ UNCHANGED pc ELSE at' = 1 /\ pc' = next

\* ScopedGpuArray: no memory behind an array of size 0. A negative int is a huge size_t,
\* which cudaMalloc refuses.
Allocate ==
  LET a == plan.arrays[at] IN
  /\ pc = "alloc" /\ a.size >= 0 /\ (fault => a.size = 0)
  /\ dev' = IF a.size = 0 THEN dev ELSE [dev EXCEPT ![a.id] = Junk]
  /\ Advance(Len(plan.arrays), "fill")
  /\ UNCHANGED <<contextVars, call, leaked, queue, info, fault, up, outcome, result>>

\* MemCpy to the device or cudaMemset; nothing is copied for a size of 0. The values are
\* taken from pageable memory before the call returns.
Fill ==
  LET f == plan.fills[at] IN
  /\ pc = "fill" /\ Waited
  /\ fault => dev[f.to] = None
  /\ CASE dev[f.to] = None -> UNCHANGED queue
       [] dev[f.to] # None /\ f.op = "copy" -> Enqueue([op |-> "copy", to |-> f.to, val |-> In(f.to)])
       [] dev[f.to] # None /\ f.op = "memset" -> Enqueue(f)
  /\ Advance(Len(plan.fills), "launch")
  /\ UNCHANGED <<contextVars, call, dev, leaked, info, fault, up, outcome, result>>

\* beta and y0 or C0, which are looked at after the uploads.
RefuseLate ==
  /\ pc = "launch" /\ plan.refuses /\ Waited
  /\ pc' = "unwind" /\ outcome' = "refused"
  /\ UNCHANGED <<contextVars, call, at, deviceVars, up, result>>

\* The libraries refuse a leading dimension below the number of rows or below 1.
LegalViews == \A i \in DOMAIN plan.views : plan.views[i].ld >= Larger(1, plan.views[i].rows)

Kernel ==
  [op |-> "kernel", by |-> call.routine, reads |-> plan.reads, writes |-> plan.writes,
   views |-> plan.views,
   good |-> call.routine \in Factors => call.args.good]

\* With nothing to write the libraries launch nothing, and nothing is copied back.
HasWork == \E i \in DOMAIN plan.writes : dev[plan.writes[i]] # None

\* Dgemm, Daxpy, Dgemv, Dscal, Dtrmm, Dtrsm, Dsyrk.
LaunchBlas ==
  /\ pc = "launch" /\ ~plan.refuses /\ ~fault /\ Waited /\ LegalViews
  /\ call.routine \notin Solvers /\ plan.writes # <<>>
  /\ IF HasWork THEN Enqueue(Kernel) ELSE UNCHANGED queue
  /\ pc' = "download"
  /\ UNCHANGED <<contextVars, call, at, dev, leaked, info, fault, up, outcome, result>>

\* Ddot, Dnrm2: the result goes to host memory, and the call returns when it is there.
LaunchScalar ==
  /\ pc = "launch" /\ ~fault /\ plan.writes = <<>>
  /\ Idle
  /\ result' = <<Computed(call.routine, plan.reads, "host")>>
  /\ pc' = "unwind" /\ outcome' = "returned"
  /\ UNCHANGED <<contextVars, call, at, deviceVars, up>>

\* Dpotrf and Dgetrf ask for the size of their work space and allocate it.
AllocateWork ==
  /\ pc = "launch" /\ ~fault /\ Waited /\ call.routine \in Factors /\ LegalViews
  /\ dev["work"] = None
  /\ pc' = "solve"
  /\ dev' \in {dev, [dev EXCEPT !["work"] = Junk]}
  /\ UNCHANGED <<contextVars, call, at, leaked, queue, info, fault, up, outcome, result>>

\* The solver writes its status to the info cell of the context. Without one the null
\* pointer is passed on, and cuSOLVER is assumed to refuse it: Throw.
LaunchSolver ==
  /\ \/ pc = "solve"
     \/ pc = "launch" /\ call.routine \in Solvers \ Factors
  /\ ~fault /\ Waited /\ LegalViews /\ infoCell
  /\ Enqueue(Kernel)
  /\ pc' = "info"
  /\ UNCHANGED <<contextVars, call, at, dev, leaked, info, fault, up, outcome, result>>

\* Mutant: the status is read from another stream, without waiting.
ReadInfoAtOnce ==
  /\ pc = "info" /\ ~fault /\ Waited
  /\ dev' = [dev EXCEPT !["work"] = None]
  /\ IF info # 0 /\ call.routine # "dgetrf"
     THEN pc' = "unwind" /\ outcome' = "not definite"
     ELSE pc' = "download" /\ UNCHANGED outcome
  /\ UNCHANGED <<contextVars, call, at, leaked, queue, info, fault, up, result>>

\* Freeing the work space waits for the device, and the cudaMemcpy of the info cell on
\* the default stream for the stream; only dgetrf leaves the status to its caller.
ReadInfo ==
  /\ pc = "info" /\ ~fault /\ Idle
  /\ dev' = [dev EXCEPT !["work"] = None]
  /\ IF info # 0 /\ call.routine # "dgetrf"
     THEN pc' = "unwind" /\ outcome' = "not definite"
     ELSE pc' = "download" /\ UNCHANGED outcome
  /\ UNCHANGED <<contextVars, call, at, leaked, queue, info, fault, up, result>>

\* The copy back into R's pageable memory follows the stream's work and returns when it
\* is complete, in either mode. (That R has no memory for the result is left out: R's
\* error is no C++ exception and jumps over the destructors.)
Download ==
  /\ pc = "download" /\ (HasWork => ~fault /\ Idle)
  /\ result' = [i \in DOMAIN plan.writes |-> dev[plan.writes[i]]]
  /\ pc' = "unwind" /\ outcome' = "returned"
  /\ UNCHANGED <<contextVars, call, at, deviceVars, up>>

\* Any CUDA call may return an error, and does after a fault; it becomes an exception.
Throw ==
  /\ pc \in {"alloc", "fill", "launch", "solve", "info", "download"}
  /\ pc' = "unwind" /\ outcome' = "error"
  /\ UNCHANGED <<contextVars, call, at, deviceVars, up, result>>

Scoped == {plan.arrays[i].id : i \in DOMAIN plan.arrays}

\* Mutant: cudaFreeAsync, which does not wait.
UnwindAtOnce ==
  /\ pc = "unwind" /\ ~(fault /\ Held \intersect Scoped # {})
  /\ dev' = [x \in ArrayIds |-> None]
  /\ leaked' = leaked \union (Held \ Scoped)
  /\ pc' = "ended"
  /\ UNCHANGED <<contextVars, call, at, queue, info, fault, up, outcome, result>>

\* Mutant: the arrays are freed by hand before the return, not by destructors.
UnwindByHand ==
  /\ pc = "unwind" /\ ~fault
  /\ Held \intersect Scoped # {} => Idle
  /\ dev' = [x \in ArrayIds |-> None]
  /\ leaked' = leaked \union (IF outcome = "returned" THEN Held \ Scoped ELSE Held)
  /\ pc' = "ended"
  /\ UNCHANGED <<contextVars, call, at, queue, info, fault, up, outcome, result>>

\* Mutant: a destructor tries cudaFree until it succeeds.
UnwindAgain ==
  /\ pc = "unwind" /\ ~(fault /\ Held \intersect Scoped # {})
  /\ Held \intersect Scoped # {} => Idle
  /\ dev' = [x \in ArrayIds |-> None]
  /\ leaked' = leaked \union (Held \ Scoped)
  /\ pc' = "ended"
  /\ UNCHANGED <<contextVars, call, at, queue, info, fault, up, outcome, result>>

\* The destructors: cudaFree waits for the device. Work space of a solver that threw has
\* no owner. After a fault cudaFree throws out of the destructor: std::terminate.
Unwind ==
  /\ pc = "unwind"
  /\ Held \intersect Scoped # {} => Idle
  /\ IF fault /\ Held \intersect Scoped # {}
     THEN up' = FALSE /\ UNCHANGED <<dev, leaked>>
     ELSE /\ dev' = [x \in ArrayIds |-> None]
          /\ leaked' = leaked \union (Held \ Scoped)
          /\ UNCHANGED up
  /\ pc' = "ended"
  /\ UNCHANGED <<contextVars, call, at, queue, info, fault, outcome, result>>

\* R has the value, or the error.
Return ==
  /\ up /\ pc = "ended"
  /\ pc' = "idle" /\ call' = NoCall /\ at' = 1 /\ outcome' = "none" /\ result' = <<>>
  /\ leaked' = {}
  /\ UNCHANGED <<contextVars, dev, queue, info, fault, up>>

HostStep ==
  \/ Allocate \/ Fill \/ RefuseLate \/ LaunchBlas \/ LaunchScalar \/ AllocateWork
  \/ LaunchSolver \/ ReadInfo \/ Download \/ Throw \/ Unwind \/ Return

Next ==
  \/ \E m \in {"SYNC", "ASYNC"} : SetRunMode(m)
  \/ OtherWork
  \/ \E r \in Routines : \E a \in Args(r) : Start(r, a)
  \/ HostStep
  \/ StreamStep \/ DeviceFault

\* The R thread runs, and the device works off its stream.
Fairness == WF_vars(HostStep) /\ WF_vars(StreamStep)

Spec == Init /\ [][Next]_vars /\ Fairness

-----------------------------------------------------------------------------
(***************************************************************************)
(* Correctness.                                                            *)
(***************************************************************************)
TypeOK ==
  /\ placement \in {"CPU", "GPU"} /\ infoCell \in BOOLEAN /\ mode \in {"SYNC", "ASYNC"}
  /\ call.routine \in Routines \union {"none"}
  /\ pc \in {"idle", "alloc", "fill", "launch", "solve", "info", "download", "unwind", "ended"}
  /\ at \in 1..3
  /\ pc = "alloc" => at \in DOMAIN plan.arrays
  /\ pc = "fill" => at \in DOMAIN plan.fills
  /\ DOMAIN dev = ArrayIds /\ leaked \subseteq ArrayIds
  /\ \A i \in DOMAIN queue : queue[i].op \in {"copy", "memset", "kernel", "other"}
  /\ info \in {0, 1} /\ fault \in BOOLEAN /\ up \in BOOLEAN
  /\ outcome \in {"none", "no context", "refused", "not definite", "error", "returned"}

\* The operations as mathematics has them: when they are defined, and the shape of the
\* result.
Op(M, t) == IF t THEN [r |-> M.c, c |-> M.r] ELSE [r |-> M.r, c |-> M.c]
Column(n) == [r |-> n, c |-> 1]
Square(M) == M.r = M.c
Product(M, N) == [defined |-> M.c = N.r, shape |-> <<M.r, N.c>>]
Also(p, ref) == [ref EXCEPT !.defined = @ /\ p]

Reference(r, a) ==
  CASE r = "dgemm" -> Also(a.beta = 0, Product(Op(a.A, a.transA), Op(a.B, a.transB)))
    [] r = "daxpy" -> [defined |-> a.x = a.y, shape |-> <<a.x, 1>>]
    [] r = "ddot" -> Product(Op(Column(a.x), TRUE), Column(a.y))
    [] r = "dnrm2" -> [defined |-> TRUE, shape |-> <<1, 1>>]
    [] r = "dscal" -> [defined |-> TRUE, shape |-> <<a.x, 1>>]
    [] r = "dgemv" -> Also(a.beta # 0 => a.y = Op(a.A, a.trans).r, Product(Op(a.A, a.trans), Column(a.x)))
    [] r \in {"dtrmm", "dtrsm"} ->
         Also(GoodOptions(a.opt) /\ Square(a.A),
              IF a.opt.side \in {"L", "l"} THEN Product(a.A, a.B) ELSE Product(a.B, a.A))
    [] r = "dsyrk" ->
         LET M == Op(a.A, a.opt.trans \notin {"N", "n"})
         IN Also(/\ GoodOptions(a.opt) /\ M.r * M.c # 0
                 /\ a.beta # 0 => a.C = [r |-> M.r, c |-> M.r], Product(M, Op(M, TRUE)))
    [] r = "dpotrf" -> [defined |-> Square(a.A), shape |-> <<a.A.r, a.A.c>>]
    [] r = "dgetrf" -> [defined |-> TRUE, shape |-> <<a.A.r, a.A.c>>]
    [] r = "dgetrs" -> Also(Square(a.A) /\ a.piv = a.A.r, Product(a.A, a.B))
    [] r = "dpotrs" -> Also(Square(a.A), Product(a.A, a.B))

\* The vectors of the call are no longer than an int can tell.
IntLengths ==
  LET a == call.args
      short(n) == n < 2^(IntWidth - 1)
  IN /\ call.routine \in {"daxpy", "ddot", "dnrm2", "dscal", "dgemv"} => short(a.x)
     /\ call.routine \in {"daxpy", "ddot", "dgemv"} => short(a.y)
     /\ call.routine = "dgetrs" => short(a.piv)
     /\ call.routine \in {"dgetrs", "dpotrs"} => short(a.B.r)

\* A call is refused for its arguments exactly when the operation is not defined for
\* them, before or after the uploads.
ChecksAreExact ==
  pc = "ended" /\ IntLengths =>
    /\ outcome = "refused" => ~Reference(call.routine, call.args).defined
    /\ outcome \in {"returned", "not definite"} => Reference(call.routine, call.args).defined

\* What a queued routine walks through lies in arrays that are allocated for it, also
\* for lengths that an int cannot hold and after errors: nothing is freed under a
\* kernel or a copy that has not run yet.
InBounds(v) == v.rows * v.cols = 0 \/ \E i \in DOMAIN plan.arrays :
                 /\ plan.arrays[i].id = v.id /\ dev[v.id] # None
                 /\ v.ld * (v.cols - 1) + v.rows <= plan.arrays[i].size

AccessInBounds ==
  up => \A i \in DOMAIN queue :
    /\ queue[i].op = "kernel" => \A k \in DOMAIN queue[i].views : InBounds(queue[i].views[k])
    /\ queue[i].op \in {"copy", "memset"} => dev[queue[i].to] # None

\* What the arguments of the call make of an array the routine reads.
Given(x) ==
  IF \A i \in DOMAIN plan.arrays : plan.arrays[i].id = x => plan.arrays[i].size = 0 THEN None
  ELSE IF call.routine = "dsyrk" /\ x = "C" /\ call.args.beta = 0 THEN Zero
  ELSE In(x)

\* A value that R gets was computed by the routine it called, from the arguments of that
\* call, has the right shape, and is no factor of a matrix that has none: whatever the
\* mode, the work queued before, the errors of earlier calls and the status they left.
ResultIsOwn ==
  pc = "ended" /\ outcome = "returned" =>
    /\ \A i \in DOMAIN result :
         \/ result[i] = None
         \/ /\ result[i].is = "computed" /\ result[i].by = call.routine
            /\ \A k \in DOMAIN plan.reads : result[i].from[k] = Given(plan.reads[k])
    /\ call.routine = "dpotrf" => call.args.good
    /\ IntLengths => plan.shape = Reference(call.routine, call.args).shape

\* Whether a call returns, refuses its arguments or ends with a C++ exception from any of
\* its CUDA calls, its arrays are freed; all that can be lost is the work space of a
\* factorization that threw.
OnlyWorkSpaceLeaks ==
  /\ up /\ pc \in {"ended", "idle"} => Held = {}
  /\ leaked \subseteq {"work"}

\* Every call ends with a value or an error, or (after a fault) with the process.
CallsEnd == pc \in {"alloc", "fill", "launch", "solve", "info", "download", "unwind"} ~> pc = "ended"
=============================================================================
